---------------------------- MODULE CodegenProofs ----------------------------
(***************************************************************************)
(* Proofs about the code generator, for programs of any size: its stacks of *)
(* builders, methods and open statements never run empty and refer to       *)
(* blocks that exist, and a call in the body of a begin statement unwinds   *)
(* to the landing pad of that statement; a complete function is well-formed *)
(* unless one of three known causes has broken it; and no loop of generated *)
(* code is without a safepoint.                                             *)
(***************************************************************************)
EXTENDS Codegen, FiniteSets, FiniteSetTheorems, WellFoundedInduction, TLAPS

-----------------------------------------------------------------------------
(* The inductive invariant.                                                *)

BlockRec ==
  [fn : Fns, closed : BOOLEAN, late : BOOLEAN, to : SUBSET Nat, polls : BOOLEAN,
   pad : BOOLEAN]
MethodRec == [fn : Fns, first : Nat, locals : SUBSET Locals, left : BOOLEAN]

Kinds == {"unit", "if", "while", "begin", "class", "def"}
Holes == {"stmts", "cond", "then", "else", "body", "clauses", "type", "tested", "clause"}
Tests == UNION {[S -> Nat] : S \in SUBSET Nat}
FrameRec ==
  [kind : Kinds, hole : Holes, base : Nat, last_landingpad : Nat, begin_block : Nat,
   next_rescue_block : Nat, bkrescue : Nat, rescue_impls : SUBSET Nat, type_tests : Tests]

TypeInv ==
  /\ blocks \in Seq(BlockRec)
  /\ builder \in Seq(Nat)
  /\ methods \in Seq(MethodRec)
  /\ serial \in 0..MaxMethods
  /\ landingpad \in Nat
  /\ open \in Seq(FrameRec)
  /\ status \in {"unit", "main", "done", "failed"}
  /\ causes \in [Fns -> SUBSET {"alloca", "clause", "pad"}]
  /\ calls \subseteq [block : Nat, pad : Nat]

\* The statements that have pushed a builder, and those that have pushed a
\* method: each has an entry on the stack for as long as it is open.
InBody(f) == f.kind = "begin" /\ f.hole = "body"
HasBuilder(f) == f.kind \in {"if", "while", "def"} \/ (f.kind = "begin" /\ f.hole # "body")
Building(o) == {k \in 1..Len(o) : HasBuilder(o[k])}
Defining(o) == {k \in 1..Len(o) : o[k].kind = "def"}

\* A stack of builders or methods of height n, in a program of m blocks.
BuildersFit(bl, n, m) ==
  bl \in Seq(Nat) /\ Len(bl) = n /\ \A i \in 1..n : bl[i] \in 1..m
MethodsFit(ms, n, m) ==
  ms \in Seq(MethodRec) /\ Len(ms) = n /\ \A i \in 1..n : ms[i].first \in 1..m

\* The stacks have the height that the open statements ask for, and what is on
\* them are blocks.
StacksInv ==
  status = "unit" =>
    /\ Len(open) >= 1
    /\ \A k \in 1..Len(open) : open[k].kind = "unit" <=> k = 1
    /\ BuildersFit(builder, 1 + Cardinality(Building(open)), Len(blocks))
    /\ MethodsFit(methods, 1 + Cardinality(Defining(open)), Len(blocks))

\* The blocks that an open statement will still put code into are there.
FrameFits(f, m) ==
  /\ f.kind = "if" => f.base + 3 <= m
  /\ f.kind = "while" => f.base + 2 <= m
  /\ f.kind \in {"unit", "begin"} => f.base <= m
  /\ f.kind = "begin" /\ f.hole = "clause" => f.next_rescue_block \in 1..m
PartsInv == \A k \in 1..Len(open) : FrameFits(open[k], Len(blocks))

\* What @landingpad is, or was when the next statement was opened, in the k-th
\* open statement: the statement's own pad in the body of a begin, elsewhere
\* the one from outside it.
PadAt(k) == IF k = Len(open) THEN landingpad ELSE open[k + 1].last_landingpad

\* The i-th open statement is a begin whose body the k-th is in (or is), without
\* another one or a def between them.
Innermost(i, k) ==
  /\ InBody(open[i])
  /\ \A j \in i..k : open[j].kind # "def" /\ (InBody(open[j]) => j = i)

PadInv ==
  status = "unit" =>
    \A k \in 1..Len(open) :
      /\ PadAt(k) = IF InBody(open[k]) THEN open[k].base ELSE open[k].last_landingpad
      /\ \A i \in 1..k : Innermost(i, k) => PadAt(k) = open[i].base

CallsInv ==
  \A c \in calls : c.block \in 1..Len(blocks) /\ c.pad \in blocks[c.block].to

Inv == TypeInv /\ StacksInv /\ PartsInv /\ PadInv /\ CallsInv

-----------------------------------------------------------------------------
(* What building code does to the blocks: it adds blocks, instructions and *)
(* successors, and takes none away.                                        *)

Grows(bs, cs) ==
  /\ cs \in Seq(BlockRec)
  /\ Len(bs) <= Len(cs)
  /\ \A b \in 1..Len(bs) : bs[b].to \subseteq cs[b].to

\* One addition after another is an addition.
LEMMA GrowsTrans ==
  ASSUME NEW bs0 \in Seq(BlockRec), NEW bs, NEW cs, Grows(bs0, bs), Grows(bs, cs)
  PROVE  Grows(bs0, cs)
  <1>1. bs \in Seq(BlockRec) /\ cs \in Seq(BlockRec)  BY DEF Grows
  <1>2. Len(bs0) <= Len(bs) /\ Len(bs) <= Len(cs)  BY DEF Grows
  <1>0. Len(bs0) \in Nat /\ Len(bs) \in Nat /\ Len(cs) \in Nat  BY <1>1
  <1>3. Len(bs0) <= Len(cs)  BY <1>0, <1>2
  <1>4. ASSUME NEW b \in 1..Len(bs0)
        PROVE  bs0[b].to \subseteq cs[b].to
    <2>1. b \in 1..Len(bs)  BY <1>0, <1>2
    <2>2. bs0[b].to \subseteq bs[b].to /\ bs[b].to \subseteq cs[b].to  BY <2>1 DEF Grows
    <2> QED  BY <2>2
  <1> QED  BY <1>1, <1>3, <1>4 DEF Grows

\* An instruction changes no branch, in whatever block it is put.
LEMMA InstrGrows ==
  ASSUME NEW bs \in Seq(BlockRec), NEW b
  PROVE  Grows(bs, Instr(bs, b)) /\ Len(Instr(bs, b)) = Len(bs)
  <1>1. CASE b \in 1..Len(bs)
    <2> DEFINE r == [bs[b] EXCEPT !.late = @ \/ bs[b].closed]
    <2>1. bs[b] \in BlockRec  BY <1>1
    <2>2. r \in BlockRec /\ r.to = bs[b].to  BY <2>1 DEF BlockRec
    <2> HIDE DEF r
    <2>3. Instr(bs, b) = [bs EXCEPT ![b] = r]  BY DEF Instr, r
    <2> QED  BY <1>1, <2>2, <2>3 DEF Grows
  <1>2. CASE b \notin 1..Len(bs)
    <2>1. Instr(bs, b) = bs  BY <1>2 DEF Instr
    <2> QED  BY <2>1 DEF Grows
  <1> QED  BY <1>1, <1>2

\* Terminators add their targets to the blocks they are put in.
LEMMA TermAllGrows ==
  ASSUME NEW bs \in Seq(BlockRec), NEW to, \A b \in DOMAIN to : to[b] \in SUBSET Nat
  PROVE  /\ Grows(bs, TermAll(bs, to))
         /\ Len(TermAll(bs, to)) = Len(bs)
         /\ \A b \in 1..Len(bs) : b \in DOMAIN to => to[b] \subseteq TermAll(bs, to)[b].to
  <1> DEFINE t == TermAll(bs, to)
             r(b) == [bs[b] EXCEPT !.late = @ \/ bs[b].closed, !.closed = TRUE,
                                   !.to = @ \cup to[b]]
  <1>1. \A b \in 1..Len(bs) : b \in DOMAIN to =>
           r(b) \in BlockRec /\ bs[b].to \subseteq r(b).to /\ to[b] \subseteq r(b).to
    <2> SUFFICES ASSUME NEW b \in 1..Len(bs), b \in DOMAIN to
                 PROVE  r(b) \in BlockRec /\ bs[b].to \subseteq r(b).to /\ to[b] \subseteq r(b).to
      OBVIOUS
    <2>1. bs[b] \in BlockRec /\ to[b] \in SUBSET Nat  OBVIOUS
    <2> QED  BY <2>1 DEF BlockRec
  <1>2. t = [b \in 1..Len(bs) |-> IF b \in DOMAIN to THEN r(b) ELSE bs[b]]
    BY DEF TermAll
  <1> HIDE DEF r, t
  <1>3. \A b \in 1..Len(bs) : t[b] \in BlockRec  BY <1>1, <1>2
  <1>4. t \in Seq(BlockRec) /\ Len(t) = Len(bs)  BY <1>2, <1>3
  <1>5. \A b \in 1..Len(bs) : bs[b].to \subseteq t[b].to /\ (b \in DOMAIN to => to[b] \subseteq t[b].to)
    BY <1>1, <1>2
  <1> QED  BY <1>4, <1>5 DEF Grows, t

LEMMA TermGrows ==
  ASSUME NEW bs \in Seq(BlockRec), NEW b, NEW to \in SUBSET Nat
  PROVE  /\ Grows(bs, Term(bs, b, to))
         /\ Len(Term(bs, b, to)) = Len(bs)
         /\ b \in 1..Len(bs) => to \subseteq Term(bs, b, to)[b].to
  <1> DEFINE f == [x \in {b} |-> to]
  <1>1. DOMAIN f = {b} /\ f[b] = to /\ \A x \in DOMAIN f : f[x] \in SUBSET Nat  OBVIOUS
  <1>2. Term(bs, b, to) = TermAll(bs, f)  BY DEF Term
  <1> HIDE DEF f
  <1> QED  BY <1>1, <1>2, TermAllGrows

\* New blocks come last.
LEMMA ConcatGrows ==
  ASSUME NEW bs \in Seq(BlockRec), NEW cs \in Seq(BlockRec)
  PROVE  Grows(bs, bs \o cs) /\ Len(bs \o cs) = Len(bs) + Len(cs)
  BY DEF Grows

LEMMA NewBlockType ==
  ASSUME NEW fn \in Fns
  PROVE  NewBlock(fn) \in BlockRec
  BY DEF NewBlock, BlockRec

LEMMA AppendBlocksGrows ==
  ASSUME NEW bs \in Seq(BlockRec), NEW n \in Nat, Method.fn \in Fns
  PROVE  Grows(bs, AppendBlocks(bs, n)) /\ Len(AppendBlocks(bs, n)) = Len(bs) + n
  <1> DEFINE new == [i \in 1..n |-> NewBlock(Method.fn)]
  <1>1. new \in Seq(BlockRec) /\ Len(new) = n  BY NewBlockType
  <1>2. AppendBlocks(bs, n) = bs \o new  BY DEF AppendBlocks
  <1> HIDE DEF new
  <1> QED  BY <1>1, <1>2, ConcatGrows

-----------------------------------------------------------------------------
(* How many builders and methods the open statements have on the stacks.   *)

LEMMA CountLast ==
  ASSUME NEW n \in Nat, NEW S, S \subseteq 1..n+1
  PROVE  /\ Cardinality(S \cap (1..n)) \in Nat
         /\ Cardinality(S) = Cardinality(S \cap (1..n)) + (IF n + 1 \in S THEN 1 ELSE 0)
  <1> DEFINE T == S \cap (1..n)
  <1>1. IsFiniteSet(1..n)  BY FS_Interval
  <1>2. IsFiniteSet(T)  BY <1>1, FS_Subset
  <1>3. Cardinality(T) \in Nat  BY <1>2, FS_CardinalityType
  <1>0. \A x \in S : x \in 1..n \/ x = n + 1
    <2>1. \A x \in 1..n+1 : x \in 1..n \/ x = n + 1  OBVIOUS
    <2> QED  BY <2>1
  <1>4. CASE n + 1 \in S
    <2>0. n + 1 \notin T  OBVIOUS
    <2>1. S = T \cup {n + 1} /\ n + 1 \notin T  BY <1>0, <1>4, <2>0, Zenon
    <2> HIDE DEF T
    <2>2. Cardinality(T \cup {n + 1}) = Cardinality(T) + 1  BY <1>2, <2>1, FS_AddElement
    <2> QED  BY <1>3, <1>4, <2>1, <2>2 DEF T
  <1>5. CASE n + 1 \notin S
    <2>1. S = T  BY <1>0, <1>5
    <2> QED  BY <1>3, <1>5, <2>1
  <1> QED  BY <1>4, <1>5

\* Opening a statement, ...
LEMMA CountPush ==
  ASSUME NEW o \in Seq(FrameRec), NEW f \in FrameRec
  PROVE  /\ Cardinality(Building(o)) \in Nat /\ Cardinality(Defining(o)) \in Nat
         /\ Cardinality(Building(Append(o, f)))
              = Cardinality(Building(o)) + (IF HasBuilder(f) THEN 1 ELSE 0)
         /\ Cardinality(Defining(Append(o, f)))
              = Cardinality(Defining(o)) + (IF f.kind = "def" THEN 1 ELSE 0)
  <1> DEFINE p == Append(o, f)
             n == Len(o)
  <1>1. n \in Nat /\ Len(p) = n + 1 /\ p[n + 1] = f /\ \A k \in 1..n : p[k] = o[k]  OBVIOUS
  <1> HIDE DEF p, n
  <1>2. /\ Building(p) \subseteq 1..n+1 /\ Building(p) \cap (1..n) = Building(o)
        /\ n + 1 \in Building(p) <=> HasBuilder(f)
    BY <1>1 DEF Building, n
  <1>3. /\ Defining(p) \subseteq 1..n+1 /\ Defining(p) \cap (1..n) = Defining(o)
        /\ n + 1 \in Defining(p) <=> f.kind = "def"
    BY <1>1 DEF Defining, n
  <1>4. /\ Cardinality(Building(o)) \in Nat
        /\ Cardinality(Building(p)) = Cardinality(Building(o)) + (IF HasBuilder(f) THEN 1 ELSE 0)
    BY <1>1, <1>2, CountLast
  <1>5. /\ Cardinality(Defining(o)) \in Nat
        /\ Cardinality(Defining(p)) = Cardinality(Defining(o)) + (IF f.kind = "def" THEN 1 ELSE 0)
    <2>1. (n + 1 \in Defining(p)) <=> f.kind = "def"  BY <1>3
    <2>2. Defining(p) \subseteq 1..n+1 /\ Defining(p) \cap (1..n) = Defining(o)  BY <1>3
    <2> QED  BY <1>1, <2>1, <2>2, CountLast, ZenonT(40)
  <1> QED  BY <1>4, <1>5 DEF p

\* ... closing one ...
LEMMA CountPop ==
  ASSUME NEW o \in Seq(FrameRec), Len(o) >= 1
  PROVE  LET p == SubSeq(o, 1, Len(o) - 1)  f == o[Len(o)] IN
         /\ Cardinality(Building(p)) \in Nat /\ Cardinality(Defining(p)) \in Nat
         /\ Cardinality(Building(o))
              = Cardinality(Building(p)) + (IF HasBuilder(f) THEN 1 ELSE 0)
         /\ Cardinality(Defining(o))
              = Cardinality(Defining(p)) + (IF f.kind = "def" THEN 1 ELSE 0)
  <1> DEFINE p == SubSeq(o, 1, Len(o) - 1)
             f == o[Len(o)]
  <1>1. p \in Seq(FrameRec) /\ f \in FrameRec /\ o = Append(p, f)  OBVIOUS
  <1> HIDE DEF p, f
  <1>2. /\ Cardinality(Building(p)) \in Nat /\ Cardinality(Defining(p)) \in Nat
        /\ Cardinality(Building(o)) = Cardinality(Building(p)) + (IF HasBuilder(f) THEN 1 ELSE 0)
        /\ Cardinality(Defining(o)) = Cardinality(Defining(p)) + (IF f.kind = "def" THEN 1 ELSE 0)
    BY <1>1, CountPush
  <1> QED  BY <1>2 DEF p, f

\* ... and going on to its next part.
LEMMA CountTop ==
  ASSUME NEW o \in Seq(FrameRec), Len(o) >= 1, NEW f \in FrameRec
  PROVE  LET p == [o EXCEPT ![Len(o)] = f]  t == o[Len(o)] IN
         /\ Cardinality(Building(o)) \in Nat /\ Cardinality(Defining(o)) \in Nat
         /\ HasBuilder(t) = HasBuilder(f) => Cardinality(Building(p)) = Cardinality(Building(o))
         /\ ~HasBuilder(t) /\ HasBuilder(f) =>
              Cardinality(Building(p)) = Cardinality(Building(o)) + 1
         /\ t.kind = f.kind => Cardinality(Defining(p)) = Cardinality(Defining(o))
  <1> DEFINE r == SubSeq(o, 1, Len(o) - 1)
             p == [o EXCEPT ![Len(o)] = f]
             t == o[Len(o)]
  <1>0. p \in Seq(FrameRec) /\ Len(p) = Len(o) /\ p[Len(o)] = f
        /\ \A k \in 1..Len(o)-1 : p[k] = o[k]
    OBVIOUS
  <1>a. r \in Seq(FrameRec) /\ Len(r) = Len(o) - 1 /\ \A k \in 1..Len(o)-1 : r[k] = o[k]  OBVIOUS
  <1>b. t \in FrameRec /\ o = Append(r, t)  OBVIOUS
  <1>c. p = Append(r, f)
    <2> HIDE DEF p, r
    <2> QED  BY <1>0, <1>a
  <1>1. r \in Seq(FrameRec) /\ t \in FrameRec /\ o = Append(r, t) /\ p = Append(r, f)
    BY <1>a, <1>b, <1>c
  <1> HIDE DEF r, p, t
  <1>2. /\ Cardinality(Building(r)) \in Nat /\ Cardinality(Defining(r)) \in Nat
        /\ Cardinality(Building(o)) = Cardinality(Building(r)) + (IF HasBuilder(t) THEN 1 ELSE 0)
        /\ Cardinality(Defining(o)) = Cardinality(Defining(r)) + (IF t.kind = "def" THEN 1 ELSE 0)
    BY <1>1, CountPush
  <1>3. /\ Cardinality(Building(p)) = Cardinality(Building(r)) + (IF HasBuilder(f) THEN 1 ELSE 0)
        /\ Cardinality(Defining(p)) = Cardinality(Defining(r)) + (IF f.kind = "def" THEN 1 ELSE 0)
    BY <1>1, CountPush
  <1> QED  BY <1>2, <1>3 DEF p, t

-----------------------------------------------------------------------------
(* The stacks.                                                             *)

\* Where the walk stands.
LEMMA Heights ==
  ASSUME TypeInv, StacksInv, status = "unit"
  PROVE  /\ Len(open) \in Nat /\ Len(open) >= 1 /\ Top \in FrameRec
         /\ Top.kind # "unit" => Len(open) >= 2
         /\ Len(builder) \in Nat /\ Len(builder) >= 1 /\ Cur \in 1..Len(blocks)
         /\ HasBuilder(Top) => Len(builder) >= 2
         /\ Len(methods) \in Nat /\ Len(methods) >= 1
         /\ Method \in MethodRec /\ Method.first \in 1..Len(blocks)
         /\ Top.kind = "def" => Len(methods) >= 2
         /\ BuildersFit(builder, Len(builder), Len(blocks))
         /\ MethodsFit(methods, Len(methods), Len(blocks))
  <1>1. /\ Len(open) \in Nat /\ Len(open) >= 1 /\ Top \in FrameRec
        /\ Top.kind # "unit" => Len(open) >= 2
    BY DEF TypeInv, StacksInv, Top
  <1> DEFINE nb == Cardinality(Building(open))
             nd == Cardinality(Defining(open))
             p  == SubSeq(open, 1, Len(open) - 1)
             pb == Cardinality(Building(p))
             pd == Cardinality(Defining(p))
  <1>2. /\ pb \in Nat /\ pd \in Nat
        /\ nb = pb + (IF HasBuilder(Top) THEN 1 ELSE 0)
        /\ nd = pd + (IF Top.kind = "def" THEN 1 ELSE 0)
    BY <1>1, CountPop DEF TypeInv, Top
  <1>3. BuildersFit(builder, 1 + nb, Len(blocks)) /\ MethodsFit(methods, 1 + nd, Len(blocks))
    BY DEF StacksInv
  <1> HIDE DEF nb, nd, pb, pd
  <1>4. Len(builder) = 1 + nb /\ Len(methods) = 1 + nd
    BY <1>3 DEF BuildersFit, MethodsFit
  <1>5. /\ Len(builder) >= 1 /\ Len(methods) >= 1
        /\ HasBuilder(Top) => Len(builder) >= 2
        /\ Top.kind = "def" => Len(methods) >= 2
    BY <1>2, <1>4
  <1>6. BuildersFit(builder, Len(builder), Len(blocks)) /\ MethodsFit(methods, Len(methods), Len(blocks))
    BY <1>3, <1>4
  <1>7. Len(builder) \in Nat /\ Len(methods) \in Nat  BY DEF TypeInv
  <1>8. Cur \in 1..Len(blocks)  BY <1>5, <1>6, <1>7 DEF BuildersFit, Cur
  <1>9. Method \in MethodRec /\ Method.first \in 1..Len(blocks)
    BY <1>5, <1>6, <1>7 DEF MethodsFit, Method
  <1> QED  BY <1>1, <1>5, <1>6, <1>7, <1>8, <1>9

\* What the operations on the current builder leave.
LEMMA BuilderOps ==
  ASSUME NEW n \in Nat, n >= 1, NEW l \in Nat, BuildersFit(builder, n, l),
         NEW m \in Nat, l <= m, NEW b \in 1..m
  PROVE  /\ BuildersFit(builder, n, m)
         /\ BuildersFit(Position(b), n, m)
         /\ BuildersFit(PushBuilder(b), n + 1, m)
         /\ n >= 2 => BuildersFit(PopBuilder, n - 1, m) /\ BuildersFit(PopTo(b), n - 1, m)
  <1>1. builder \in Seq(Nat) /\ Len(builder) = n /\ \A i \in 1..n : builder[i] \in 1..m
    BY DEF BuildersFit
  <1>2. BuildersFit(builder, n, m)  BY <1>1 DEF BuildersFit
  <1>3. BuildersFit(Position(b), n, m)  BY <1>1 DEF BuildersFit, Position
  <1>4. BuildersFit(PushBuilder(b), n + 1, m)  BY <1>1 DEF BuildersFit, PushBuilder
  <1>5. ASSUME n >= 2
        PROVE  BuildersFit(PopBuilder, n - 1, m) /\ BuildersFit(PopTo(b), n - 1, m)
    <2>1. PopBuilder \in Seq(Nat) /\ Len(PopBuilder) = n - 1
          /\ \A i \in 1..n - 1 : PopBuilder[i] \in 1..m
      BY <1>1, <1>5 DEF PopBuilder
    <2>2. PopTo(b) = [PopBuilder EXCEPT ![n - 1] = b]  BY <1>1 DEF PopTo
    <2>3. PopTo(b) \in Seq(Nat) /\ Len(PopTo(b)) = n - 1
          /\ \A i \in 1..n - 1 : PopTo(b)[i] \in 1..m
      BY <2>1, <2>2, <1>5
    <2> QED  BY <2>1, <2>3 DEF BuildersFit
  <1> QED  BY <1>2, <1>3, <1>4, <1>5

\* What is recorded of a method does not move its first block.
LEMMA MethodOps ==
  ASSUME NEW n \in Nat, n >= 1, NEW l \in Nat, MethodsFit(methods, n, l),
         NEW m \in Nat, l <= m
  PROVE  /\ MethodsFit(methods, n, m)
         /\ \A b : MethodsFit(Leaving(b), n, m)
         /\ \A xs \in SUBSET Locals : MethodsFit(WithLocals(xs), n, m)
         /\ \A r \in MethodRec : r.first \in 1..m => MethodsFit(Append(methods, r), n + 1, m)
         /\ n >= 2 => MethodsFit(SubSeq(methods, 1, n - 1), n - 1, m)
  <1>1. methods \in Seq(MethodRec) /\ Len(methods) = n /\ \A i \in 1..n : methods[i].first \in 1..m
    BY DEF MethodsFit
  <1>2. MethodsFit(methods, n, m)  BY <1>1 DEF MethodsFit
  <1>3. ASSUME NEW r \in MethodRec, r.first = methods[n].first
        PROVE  MethodsFit([methods EXCEPT ![n] = r], n, m)
    BY <1>1, <1>3 DEF MethodsFit
  <1>4. methods[n] \in MethodRec  BY <1>1
  <1>5. ASSUME NEW b
        PROVE  MethodsFit(Leaving(b), n, m)
    <2> DEFINE r == [methods[n] EXCEPT !.left = @ \/ b = Method.first]
    <2>1. r \in MethodRec /\ r.first = methods[n].first  BY <1>4 DEF MethodRec
    <2> HIDE DEF r
    <2>2. Leaving(b) = [methods EXCEPT ![n] = r]  BY <1>1 DEF Leaving, r
    <2> QED  BY <2>1, <2>2, <1>3
  <1>6. ASSUME NEW xs \in SUBSET Locals
        PROVE  MethodsFit(WithLocals(xs), n, m)
    <2> DEFINE r == [methods[n] EXCEPT !.locals = @ \cup xs]
    <2>1. r \in MethodRec /\ r.first = methods[n].first  BY <1>4 DEF MethodRec
    <2> HIDE DEF r
    <2>2. WithLocals(xs) = [methods EXCEPT ![n] = r]  BY <1>1 DEF WithLocals, r
    <2> QED  BY <2>1, <2>2, <1>3
  <1>7. ASSUME NEW r \in MethodRec, r.first \in 1..m
        PROVE  MethodsFit(Append(methods, r), n + 1, m)
    BY <1>1, <1>7 DEF MethodsFit
  <1>8. ASSUME n >= 2
        PROVE  MethodsFit(SubSeq(methods, 1, n - 1), n - 1, m)
    BY <1>1, <1>8 DEF MethodsFit
  <1> QED  BY <1>2, <1>5, <1>6, <1>7, <1>8

\* A statement goes on fitting when there are more blocks.
LEMMA FitsMore ==
  ASSUME NEW f \in FrameRec, NEW l \in Nat, NEW m \in Nat, l <= m, FrameFits(f, l)
  PROVE  FrameFits(f, m)
  BY DEF FrameFits, FrameRec

\* Of a step that opens no statement, closes none and goes on to no other part:
\* the stacks need only keep their heights.
LEMMA KeepFrame ==
  ASSUME TypeInv, StacksInv, PartsInv, status = "unit", Grows(blocks, blocks'), open' = open,
         BuildersFit(builder', Len(builder), Len(blocks')),
         MethodsFit(methods', Len(methods), Len(blocks'))
  PROVE  StacksInv' /\ PartsInv'
  <1>1. /\ Len(builder) = 1 + Cardinality(Building(open))
        /\ Len(methods) = 1 + Cardinality(Defining(open))
    BY DEF StacksInv, BuildersFit, MethodsFit
  <1>2. StacksInv'  BY <1>1 DEF StacksInv
  <1>3. Len(blocks) \in Nat /\ Len(blocks') \in Nat /\ Len(blocks) <= Len(blocks')
    BY DEF TypeInv, Grows
  <1>4. PartsInv'  BY <1>3, FitsMore DEF PartsInv, TypeInv
  <1> QED  BY <1>2, <1>4

\* A statement is opened.
LEMMA PushFrame ==
  ASSUME TypeInv, StacksInv, PartsInv, status = "unit", Grows(blocks, blocks'),
         NEW f \in FrameRec, open' = Append(open, f), f.kind # "unit",
         FrameFits(f, Len(blocks')),
         BuildersFit(builder', Len(builder) + (IF HasBuilder(f) THEN 1 ELSE 0), Len(blocks')),
         MethodsFit(methods', Len(methods) + (IF f.kind = "def" THEN 1 ELSE 0), Len(blocks'))
  PROVE  StacksInv' /\ PartsInv' /\ open' \in Seq(FrameRec)
  <1> DEFINE nb == Cardinality(Building(open))
             nd == Cardinality(Defining(open))
  <1>1. open \in Seq(FrameRec) /\ Len(open) >= 1  BY DEF TypeInv, StacksInv
  <1>2. /\ open' \in Seq(FrameRec) /\ Len(open') = Len(open) + 1 /\ open'[Len(open) + 1] = f
        /\ \A k \in 1..Len(open) : open'[k] = open[k]
    BY <1>1
  <1>3. /\ nb \in Nat /\ nd \in Nat
        /\ Cardinality(Building(open')) = nb + (IF HasBuilder(f) THEN 1 ELSE 0)
        /\ Cardinality(Defining(open')) = nd + (IF f.kind = "def" THEN 1 ELSE 0)
    BY <1>1, CountPush
  <1>4. Len(builder) = 1 + nb /\ Len(methods) = 1 + nd
    BY DEF StacksInv, BuildersFit, MethodsFit
  <1> HIDE DEF nb, nd
  <1>5. /\ 1 + Cardinality(Building(open')) = Len(builder) + (IF HasBuilder(f) THEN 1 ELSE 0)
        /\ 1 + Cardinality(Defining(open')) = Len(methods) + (IF f.kind = "def" THEN 1 ELSE 0)
    BY <1>3, <1>4
  <1>6. /\ BuildersFit(builder', 1 + Cardinality(Building(open')), Len(blocks'))
        /\ MethodsFit(methods', 1 + Cardinality(Defining(open')), Len(blocks'))
    BY <1>5
  <1>7. \A k \in 1..Len(open') : open'[k].kind = "unit" <=> k = 1
    BY <1>1, <1>2 DEF StacksInv
  <1>8. StacksInv'  BY <1>1, <1>2, <1>6, <1>7 DEF StacksInv
  <1>9. Len(blocks) \in Nat /\ Len(blocks') \in Nat /\ Len(blocks) <= Len(blocks')
    BY DEF TypeInv, Grows
  <1>10. ASSUME NEW k \in 1..Len(open')
         PROVE  FrameFits(open'[k], Len(blocks'))
    <2>1. CASE k \in 1..Len(open)
      <3>1. open[k] \in FrameRec /\ FrameFits(open[k], Len(blocks))  BY <2>1, <1>1 DEF PartsInv
      <3>2. FrameFits(open[k], Len(blocks'))  BY <3>1, <1>9, FitsMore
      <3> QED  BY <3>2, <2>1, <1>2
    <2>2. CASE k = Len(open) + 1  BY <2>2, <1>2
    <2> QED  BY <1>1, <1>2, <2>1, <2>2
  <1> QED  BY <1>2, <1>8, <1>10 DEF PartsInv

\* A statement is closed.
LEMMA PopFrame ==
  ASSUME TypeInv, StacksInv, PartsInv, status = "unit", Grows(blocks, blocks'),
         open' = Closed, Top.kind # "unit",
         BuildersFit(builder', Len(builder) - (IF HasBuilder(Top) THEN 1 ELSE 0), Len(blocks')),
         MethodsFit(methods', Len(methods) - (IF Top.kind = "def" THEN 1 ELSE 0), Len(blocks'))
  PROVE  StacksInv' /\ PartsInv' /\ open' \in Seq(FrameRec)
  <1> DEFINE nb == Cardinality(Building(open'))
             nd == Cardinality(Defining(open'))
  <1>1. open \in Seq(FrameRec) /\ Len(open) >= 2  BY Heights DEF TypeInv
  <1>2. /\ open' \in Seq(FrameRec) /\ Len(open') = Len(open) - 1
        /\ \A k \in 1..Len(open') : open'[k] = open[k]
    BY <1>1 DEF Closed
  <1>3. /\ nb \in Nat /\ nd \in Nat
        /\ Cardinality(Building(open)) = nb + (IF HasBuilder(Top) THEN 1 ELSE 0)
        /\ Cardinality(Defining(open)) = nd + (IF Top.kind = "def" THEN 1 ELSE 0)
    BY <1>1, CountPop DEF Closed, Top
  <1>4. /\ Len(builder) = 1 + Cardinality(Building(open))
        /\ Len(methods) = 1 + Cardinality(Defining(open))
    BY DEF StacksInv, BuildersFit, MethodsFit
  <1>5. /\ 1 + nb = Len(builder) - (IF HasBuilder(Top) THEN 1 ELSE 0)
        /\ 1 + nd = Len(methods) - (IF Top.kind = "def" THEN 1 ELSE 0)
    <2> HIDE DEF nb, nd
    <2> QED  BY <1>3, <1>4
  <1>6. BuildersFit(builder', 1 + nb, Len(blocks')) /\ MethodsFit(methods', 1 + nd, Len(blocks'))
    BY <1>5
  <1>7. \A k \in 1..Len(open') : open'[k].kind = "unit" <=> k = 1
    BY <1>1, <1>2 DEF StacksInv
  <1>8. StacksInv'  BY <1>1, <1>2, <1>6, <1>7 DEF StacksInv
  <1>9. Len(blocks) \in Nat /\ Len(blocks') \in Nat /\ Len(blocks) <= Len(blocks')
    BY DEF TypeInv, Grows
  <1>10. ASSUME NEW k \in 1..Len(open')
         PROVE  FrameFits(open'[k], Len(blocks'))
    <2>1. k \in 1..Len(open)  BY <1>1, <1>2
    <2>2. open[k] \in FrameRec /\ FrameFits(open[k], Len(blocks))  BY <2>1, <1>1 DEF PartsInv
    <2>3. FrameFits(open[k], Len(blocks'))  BY <2>2, <1>9, FitsMore
    <2> QED  BY <2>3, <1>2
  <1> QED  BY <1>2, <1>8, <1>10 DEF PartsInv

\* The statement being generated goes on to its next part.
LEMMA TopFrame ==
  ASSUME TypeInv, StacksInv, PartsInv, status = "unit", Grows(blocks, blocks'),
         NEW f \in FrameRec, open' = [open EXCEPT ![Len(open)] = f], f.kind = Top.kind,
         FrameFits(f, Len(blocks')),
         \/ HasBuilder(f) = HasBuilder(Top) /\ BuildersFit(builder', Len(builder), Len(blocks'))
         \/ HasBuilder(f) /\ ~HasBuilder(Top)
              /\ BuildersFit(builder', Len(builder) + 1, Len(blocks')),
         MethodsFit(methods', Len(methods), Len(blocks'))
  PROVE  StacksInv' /\ PartsInv' /\ open' \in Seq(FrameRec)
  <1> DEFINE nb == Cardinality(Building(open))
             nd == Cardinality(Defining(open))
  <1>1. open \in Seq(FrameRec) /\ Len(open) >= 1  BY DEF TypeInv, StacksInv
  <1>2. /\ open' \in Seq(FrameRec) /\ Len(open') = Len(open) /\ open'[Len(open)] = f
        /\ \A k \in 1..Len(open)-1 : open'[k] = open[k]
    BY <1>1
  <1>3. /\ nb \in Nat /\ nd \in Nat
        /\ HasBuilder(f) = HasBuilder(Top) => Cardinality(Building(open')) = nb
        /\ HasBuilder(f) /\ ~HasBuilder(Top) => Cardinality(Building(open')) = nb + 1
        /\ Cardinality(Defining(open')) = nd
    BY <1>1, CountTop DEF Top
  <1>4. Len(builder) = 1 + nb /\ Len(methods) = 1 + nd
    BY DEF StacksInv, BuildersFit, MethodsFit
  <1> HIDE DEF nb, nd
  <1>6. BuildersFit(builder', 1 + Cardinality(Building(open')), Len(blocks'))
    <2>1. CASE HasBuilder(f) = HasBuilder(Top) /\ BuildersFit(builder', Len(builder), Len(blocks'))
      BY <2>1, <1>3, <1>4
    <2>2. CASE HasBuilder(f) /\ ~HasBuilder(Top)
                 /\ BuildersFit(builder', Len(builder) + 1, Len(blocks'))
      <3>1. 1 + Cardinality(Building(open')) = Len(builder) + 1  BY <2>2, <1>3, <1>4
      <3> QED  BY <2>2, <3>1
    <2> QED  BY <2>1, <2>2
  <1>5. MethodsFit(methods', 1 + Cardinality(Defining(open')), Len(blocks'))
    BY <1>3, <1>4
  <1>7. \A k \in 1..Len(open') : open'[k].kind = "unit" <=> k = 1
    BY <1>1, <1>2 DEF StacksInv, Top
  <1>8. StacksInv'  BY <1>1, <1>2, <1>5, <1>6, <1>7 DEF StacksInv
  <1>9. Len(blocks) \in Nat /\ Len(blocks') \in Nat /\ Len(blocks) <= Len(blocks')
    BY DEF TypeInv, Grows
  <1>10. ASSUME NEW k \in 1..Len(open')
         PROVE  FrameFits(open'[k], Len(blocks'))
    <2>1. CASE k \in 1..Len(open)-1
      <3>1. open[k] \in FrameRec /\ FrameFits(open[k], Len(blocks))  BY <2>1, <1>1 DEF PartsInv
      <3>2. FrameFits(open[k], Len(blocks'))  BY <3>1, <1>9, FitsMore
      <3> QED  BY <3>2, <2>1, <1>2
    <2>2. CASE k = Len(open)  BY <2>2, <1>2
    <2>3. Len(open) \in Nat  BY <1>1
    <2>4. Len(open') = Len(open)  BY <1>2
    <2>5. \A l \in 1..Len(open) : l \in 1..Len(open)-1 \/ l = Len(open)  BY <2>3
    <2> QED  BY <2>1, <2>2, <2>4, <2>5
  <1> QED  BY <1>2, <1>8, <1>10 DEF PartsInv

-----------------------------------------------------------------------------
(* The landing pads.                                                       *)

\* A statement is opened: in the body of a begin with a pad of its own, in any
\* other statement with the pad that was active.
LEMMA PadPush ==
  ASSUME TypeInv, StacksInv, PadInv, status = "unit",
         NEW f \in FrameRec, open' = Append(open, f), f.last_landingpad = landingpad,
         landingpad' = IF InBody(f) THEN f.base ELSE landingpad
  PROVE  PadInv'
  <1>n. PICK n \in Nat : n = Len(open)  BY DEF TypeInv
  <1>1. open \in Seq(FrameRec) /\ n \in Nat /\ n >= 1  BY <1>n DEF TypeInv, StacksInv
  <1>2. /\ Len(open') = n + 1 /\ open'[n + 1] = f
        /\ \A k \in 1..n : open'[k] = open[k]
    BY <1>1, <1>n
  <1>3. \A k \in 1..n : PadAt(k)' = PadAt(k)
    BY <1>1, <1>2, <1>n DEF PadAt
  <1>4. PadAt(n + 1)' = landingpad'  BY <1>1, <1>2 DEF PadAt
  <1>5. \A k \in 1..n : \A i \in 1..k : Innermost(i, k)' => Innermost(i, k)
    BY <1>1, <1>2 DEF Innermost, InBody
  <1>6. ASSUME NEW k \in 1..n
        PROVE  /\ PadAt(k)' = IF InBody(open'[k]) THEN open'[k].base ELSE open'[k].last_landingpad
               /\ \A i \in 1..k : Innermost(i, k)' => PadAt(k)' = open'[i].base
    <2>1. /\ PadAt(k) = IF InBody(open[k]) THEN open[k].base ELSE open[k].last_landingpad
          /\ \A i \in 1..k : Innermost(i, k) => PadAt(k) = open[i].base
      BY <1>n DEF PadInv
    <2>2. \A i \in 1..k : open'[i] = open[i]  BY <1>1, <1>2
    <2>3. open'[k] = open[k] /\ PadAt(k)' = PadAt(k)  BY <1>2, <1>3
    <2>4. ASSUME NEW i \in 1..k, Innermost(i, k)'
          PROVE  PadAt(k)' = open'[i].base
      BY <2>1, <2>2, <2>3, <2>4, <1>5
    <2> QED  BY <2>1, <2>3, <2>4
  <1>7. PadAt(n + 1)' = IF InBody(open'[n + 1]) THEN open'[n + 1].base ELSE open'[n + 1].last_landingpad
    BY <1>2, <1>4
  <1>8. ASSUME NEW i \in 1..n + 1, Innermost(i, n + 1)'
        PROVE  PadAt(n + 1)' = open'[i].base
    <2>1. CASE i = n + 1
      <3>1. InBody(f)  BY <1>2, <1>8, <2>1 DEF Innermost, InBody
      <3> QED  BY <1>2, <1>4, <2>1, <3>1
    <2>2. CASE i \in 1..n
      <3>1. ~InBody(f)  BY <1>1, <1>2, <1>8, <2>2 DEF Innermost, InBody
      <3>2. Innermost(i, n)  BY <1>1, <1>2, <1>8, <2>2 DEF Innermost, InBody
      <3>3. PadAt(n) = open[i].base  BY <1>1, <1>n, <2>2, <3>2 DEF PadInv
      <3>4. PadAt(n) = landingpad  BY <1>n DEF PadAt
      <3> QED  BY <1>2, <1>4, <2>2, <3>1, <3>3, <3>4
    <2>3. \A x \in 1..n+1 : x = n + 1 \/ x \in 1..n  BY <1>n
    <2> QED  BY <2>1, <2>2, <2>3
  <1>9. \A k \in 1..Len(open') : k \in 1..n \/ k = n + 1  BY <1>1, <1>2
  <1> QED  BY <1>6, <1>7, <1>8, <1>9 DEF PadInv

\* A statement that is not in the body of a begin is closed, and the pad is the
\* one it was opened with.
LEMMA PadPop ==
  ASSUME TypeInv, StacksInv, PadInv, status = "unit",
         open' = Closed, Top.kind # "unit", ~InBody(Top), landingpad' = landingpad
  PROVE  PadInv'
  <1>n. PICK n \in Nat : n = Len(open)  BY DEF TypeInv
  <1>1. open \in Seq(FrameRec) /\ n \in Nat /\ n >= 2  BY <1>n, Heights DEF TypeInv
  <1>2. /\ Len(open') = n - 1
        /\ \A k \in 1..n-1 : open'[k] = open[k]
    BY <1>1, <1>n DEF Closed
  <1>3. landingpad = open[n].last_landingpad
    <2>1. PadAt(n) = open[n].last_landingpad  BY <1>1, <1>n DEF PadInv, Top
    <2> QED  BY <2>1, <1>n DEF PadAt
  <1>4. \A k \in 1..n-1 : PadAt(k)' = PadAt(k)
    BY <1>1, <1>2, <1>3, <1>n DEF PadAt
  <1>5. \A k \in 1..n-1 : \A i \in 1..k : Innermost(i, k)' => Innermost(i, k)
    BY <1>1, <1>2 DEF Innermost, InBody
  <1>6. ASSUME NEW k \in 1..n-1
        PROVE  /\ PadAt(k)' = IF InBody(open'[k]) THEN open'[k].base ELSE open'[k].last_landingpad
               /\ \A i \in 1..k : Innermost(i, k)' => PadAt(k)' = open'[i].base
    <2>0. k \in 1..n  BY <1>1
    <2>1. /\ PadAt(k) = IF InBody(open[k]) THEN open[k].base ELSE open[k].last_landingpad
          /\ \A i \in 1..k : Innermost(i, k) => PadAt(k) = open[i].base
      BY <1>n, <2>0 DEF PadInv
    <2>2. \A i \in 1..k : open'[i] = open[i]  BY <1>1, <1>2
    <2>3. open'[k] = open[k] /\ PadAt(k)' = PadAt(k)  BY <1>2, <1>4
    <2>4. ASSUME NEW i \in 1..k, Innermost(i, k)'
          PROVE  PadAt(k)' = open'[i].base
      BY <2>1, <2>2, <2>3, <2>4, <1>5
    <2> QED  BY <2>1, <2>3, <2>4
  <1> QED  BY <1>2, <1>6 DEF PadInv

\* A part of a statement that is not the body of a begin is next: the pad is the
\* one the statement was opened with.
LEMMA PadTop ==
  ASSUME TypeInv, StacksInv, PadInv, status = "unit",
         NEW f \in FrameRec, open' = [open EXCEPT ![Len(open)] = f],
         f.last_landingpad = Top.last_landingpad, ~InBody(f),
         landingpad' = Top.last_landingpad
  PROVE  PadInv'
  <1>n. PICK n \in Nat : n = Len(open)  BY DEF TypeInv
  <1>1. open \in Seq(FrameRec) /\ n \in Nat /\ n >= 1  BY <1>n DEF TypeInv, StacksInv
  <1>2. /\ Len(open') = n /\ open'[n] = f
        /\ \A k \in 1..n-1 : open'[k] = open[k]
    BY <1>1, <1>n
  <1>t. Top = open[n]  BY <1>n DEF Top
  <1>3. ASSUME NEW k \in 1..n-1
        PROVE  PadAt(k)' = PadAt(k)
    <2>1. k # n /\ k + 1 \in 1..n /\ (k + 1 = n \/ k + 1 \in 1..n-1)  BY <1>1
    <2>2. PadAt(k) = open[k + 1].last_landingpad  BY <1>n, <2>1 DEF PadAt
    <2>3. PadAt(k)' = open'[k + 1].last_landingpad  BY <1>2, <2>1 DEF PadAt
    <2>4. open'[k + 1].last_landingpad = open[k + 1].last_landingpad  BY <1>2, <1>t, <2>1
    <2> QED  BY <2>2, <2>3, <2>4
  <1>4. PadAt(n)' = landingpad'  BY <1>2 DEF PadAt
  <1>5. \A k \in 1..n-1 : \A i \in 1..k : Innermost(i, k)' => Innermost(i, k)
    BY <1>1, <1>2 DEF Innermost, InBody
  <1>6. ASSUME NEW k \in 1..n-1
        PROVE  /\ PadAt(k)' = IF InBody(open'[k]) THEN open'[k].base ELSE open'[k].last_landingpad
               /\ \A i \in 1..k : Innermost(i, k)' => PadAt(k)' = open'[i].base
    <2>0. k \in 1..n  BY <1>1
    <2>1. /\ PadAt(k) = IF InBody(open[k]) THEN open[k].base ELSE open[k].last_landingpad
          /\ \A i \in 1..k : Innermost(i, k) => PadAt(k) = open[i].base
      BY <1>n, <2>0 DEF PadInv
    <2>2. \A i \in 1..k : open'[i] = open[i]  BY <1>1, <1>2
    <2>3. open'[k] = open[k] /\ PadAt(k)' = PadAt(k)  BY <1>2, <1>3
    <2>4. ASSUME NEW i \in 1..k, Innermost(i, k)'
          PROVE  PadAt(k)' = open'[i].base
      BY <2>1, <2>2, <2>3, <2>4, <1>5
    <2> QED  BY <2>1, <2>3, <2>4
  <1>7. PadAt(n)' = IF InBody(open'[n]) THEN open'[n].base ELSE open'[n].last_landingpad
    BY <1>2, <1>4
  <1>8. ASSUME NEW i \in 1..n, Innermost(i, n)'
        PROVE  PadAt(n)' = open'[i].base
    <2>1. i # n  BY <1>1, <1>2, <1>8 DEF Innermost, InBody
    <2>2. i \in 1..n-1 /\ n - 1 \in 1..n  BY <1>1, <2>1
    <2>3. Innermost(i, n - 1)  BY <1>1, <1>2, <1>8, <2>2 DEF Innermost, InBody
    <2>4. i \in 1..(n - 1)  BY <2>2
    <2>5. PadAt(n - 1) = open[i].base  BY <1>n, <2>2, <2>3, <2>4 DEF PadInv
    <2>6. PadAt(n - 1) = open[n].last_landingpad  BY <1>1, <1>n DEF PadAt
    <2> QED  BY <1>2, <1>4, <1>t, <2>2, <2>5, <2>6
  <1>9. \A k \in 1..Len(open') : k \in 1..n-1 \/ k = n  BY <1>1, <1>2
  <1> QED  BY <1>6, <1>7, <1>8, <1>9 DEF PadInv

\* A statement that stays where it is.
LEMMA PadKeep ==
  ASSUME PadInv, open' = open, landingpad' = landingpad, status' = status
  PROVE  PadInv'
  BY DEF PadInv, PadAt, Innermost

\* A set of indices has a greatest one.
LEMMA Greatest ==
  ASSUME NEW n \in Nat, NEW S \in SUBSET (1..n), S # {}
  PROVE  \E i \in S : \A j \in S : j <= i
  <1> DEFINE T == {n - i : i \in S}
             R == OpToRel(<, Nat)
  <1>0. \A i \in S : n - i \in Nat  OBVIOUS
  <1>1. T \subseteq Nat /\ T # {}  BY <1>0, Zenon
  <1>2. IsWellFoundedOn(R, Nat)  BY NatLessThanWellFounded
  <1> HIDE DEF R
  <1>3. PICK x \in T : \A y \in T : ~(<<y, x>> \in R)
    <2> HIDE DEF T
    <2> QED  BY <1>1, <1>2, WFMin
  <1>4. PICK i \in S : x = n - i  OBVIOUS
  <1>5. ASSUME NEW j \in S
        PROVE  j <= i
    <2>1. n - j \in T /\ n - j \in Nat /\ x \in Nat  BY <1>1
    <2>2. ~(<<n - j, x>> \in R)  BY <1>3, <2>1
    <2>3. ~(n - j < x)
      <3> SUFFICES ASSUME n - j < x PROVE FALSE  OBVIOUS
      <3> QED  BY <2>1, <2>2 DEF R, OpToRel
    <2> QED  BY <1>4, <2>1, <2>3
  <1> QED  BY <1>5

\* In the body of a begin statement @landingpad is the pad of that statement.
LEMMA WrittenInIsActive ==
  ASSUME TypeInv, StacksInv, PadInv, status = "unit"
  PROVE  WrittenIn \in {NoBlock, landingpad} /\ (EnclosingBegins # {} => WrittenIn = landingpad)
  <1>1. CASE EnclosingBegins = {}  BY <1>1 DEF WrittenIn
  <1>2. CASE EnclosingBegins # {}
    <2> DEFINE i == CHOOSE i \in EnclosingBegins : \A j \in EnclosingBegins : j <= i
               n == Len(open)
    <2>1. n \in Nat /\ n >= 1 /\ EnclosingBegins \in SUBSET (1..n)
      BY Heights DEF EnclosingBegins
    <2>2. \E x \in EnclosingBegins : \A j \in EnclosingBegins : j <= x
      BY <1>2, <2>1, Greatest
    <2>3. i \in EnclosingBegins /\ \A j \in EnclosingBegins : j <= i  BY <2>2
    <2>4. WrittenIn = open[i].base  BY <1>2 DEF WrittenIn
    <2>n. n = Len(open)  OBVIOUS
    <2> HIDE DEF i, n
    <2>5. i \in 1..n /\ InBody(open[i]) /\ \A j \in i..n : open[j].kind # "def"
      BY <2>3, <2>n DEF EnclosingBegins, InBody
    <2>6. ASSUME NEW j \in i..n, InBody(open[j])
          PROVE  j = i
      <3>1. j \in 1..n /\ \A l \in j..n : l \in i..n  BY <2>1, <2>5
      <3>2. j \in EnclosingBegins  BY <2>5, <2>6, <2>n, <3>1 DEF EnclosingBegins, InBody
      <3> QED  BY <2>1, <2>3, <2>5, <3>1, <3>2
    <2>7. Innermost(i, n)  BY <2>5, <2>6 DEF Innermost
    <2>8. n \in 1..n  BY <2>1
    <2>9. PadAt(n) = open[i].base  BY <2>5, <2>7, <2>8, <2>n DEF PadInv
    <2>10. PadAt(n) = landingpad  BY <2>n DEF PadAt
    <2> QED  BY <2>4, <2>9, <2>10
  <1> QED  BY <1>1, <1>2

-----------------------------------------------------------------------------
(* The recorded calls.                                                     *)

LEMMA CallsKept ==
  ASSUME TypeInv, CallsInv, Grows(blocks, blocks'), calls' = calls
  PROVE  CallsInv'
  <1> SUFFICES ASSUME NEW c \in calls
               PROVE  c.block \in 1..Len(blocks') /\ c.pad \in blocks'[c.block].to
    BY DEF CallsInv
  <1>1. c.block \in 1..Len(blocks) /\ c.pad \in blocks[c.block].to  BY DEF CallsInv
  <1>2. blocks[c.block].to \subseteq blocks'[c.block].to  BY <1>1 DEF Grows
  <1>3. Len(blocks) \in Nat /\ Len(blocks') \in Nat /\ Len(blocks) <= Len(blocks')
    BY DEF TypeInv, Grows
  <1> QED  BY <1>1, <1>2, <1>3

-----------------------------------------------------------------------------
(* Values that the actions build.                                          *)

LEMMA FnFacts ==
  /\ PupMain \in Fns /\ CMain \in Fns
  /\ \A i \in 1..MaxMethods : i \in Fns
  BY BoundsAssumption DEF Fns, PupMain, CMain

LEMMA TestsType ==
  ASSUME NEW S \in SUBSET Nat, NEW f \in [S -> Nat]
  PROVE  f \in Tests
  BY DEF Tests

LEMMA FrameType ==
  ASSUME TypeInv, NEW kind \in Kinds, NEW hole \in Holes, NEW base \in Nat
  PROVE  /\ Frame(kind, hole, base) \in FrameRec
         /\ Frame(kind, hole, base).kind = kind
         /\ Frame(kind, hole, base).hole = hole
         /\ Frame(kind, hole, base).base = base
         /\ Frame(kind, hole, base).last_landingpad = landingpad
  <1> DEFINE none == [b \in {} |-> NoBlock]
  <1>1. none \in [{} -> Nat]  BY DEF NoBlock
  <1>2. none \in Tests  BY <1>1, TestsType
  <1> HIDE DEF none
  <1>3. landingpad \in Nat /\ NoBlock \in Nat  BY DEF TypeInv, NoBlock
  <1>4. Frame(kind, hole, base) =
          [kind |-> kind, hole |-> hole, base |-> base, last_landingpad |-> landingpad,
           begin_block |-> NoBlock, next_rescue_block |-> NoBlock, bkrescue |-> NoBlock,
           rescue_impls |-> {}, type_tests |-> none]
    BY DEF Frame, none
  <1> QED  BY <1>2, <1>3, <1>4 DEF FrameRec

\* Going on to another hole.
LEMMA InHoleType ==
  ASSUME TypeInv, StacksInv, status = "unit", NEW hole \in Holes
  PROVE  LET f == [Top EXCEPT !.hole = hole] IN
         /\ f \in FrameRec /\ InHole(hole) = [open EXCEPT ![Len(open)] = f]
         /\ f.kind = Top.kind /\ f.hole = hole /\ f.base = Top.base
         /\ f.last_landingpad = Top.last_landingpad
         /\ f.next_rescue_block = Top.next_rescue_block
  <1>1. Top \in FrameRec  BY Heights
  <1> QED  BY <1>1 DEF FrameRec, InHole, Top

LEMMA BlameType ==
  ASSUME TypeInv, NEW what \in SUBSET {"alloca", "clause", "pad"}, Blame(what)
  PROVE  causes' \in [Fns -> SUBSET {"alloca", "clause", "pad"}]
  BY DEF TypeInv, Blame

LEMMA CauseTypes ==
  /\ AllocaCause \in SUBSET {"alloca", "clause", "pad"}
  /\ \A xs : LocalCause(xs) \in SUBSET {"alloca", "clause", "pad"}
  /\ \A h : ArgsCause(h) \in SUBSET {"alloca", "clause", "pad"}
  BY DEF AllocaCause, LocalCause, ArgsCause

\* Slots and arguments are instructions.
LEMMA SlotGrows ==
  ASSUME NEW bs \in Seq(BlockRec)
  PROVE  /\ Grows(bs, Alloca(bs)) /\ Len(Alloca(bs)) = Len(bs)
         /\ \A xs : Grows(bs, CreateLocal(bs, xs)) /\ Len(CreateLocal(bs, xs)) = Len(bs)
         /\ \A h : Grows(bs, PassArgs(bs, h)) /\ Len(PassArgs(bs, h)) = Len(bs)
  <1>1. Grows(bs, Alloca(bs)) /\ Len(Alloca(bs)) = Len(bs)  BY InstrGrows DEF Alloca
  <1>2. Alloca(bs) \in Seq(BlockRec)  BY <1>1 DEF Grows
  <1>3. Grows(bs, bs)  BY DEF Grows
  <1>4. ASSUME NEW xs
        PROVE  Grows(bs, CreateLocal(bs, xs)) /\ Len(CreateLocal(bs, xs)) = Len(bs)
    BY <1>1, <1>3 DEF CreateLocal
  <1>5. ASSUME NEW h
        PROVE  Grows(bs, PassArgs(bs, h)) /\ Len(PassArgs(bs, h)) = Len(bs)
    <2> DEFINE t == IF h THEN Alloca(bs) ELSE bs
    <2>1. t \in Seq(BlockRec) /\ Grows(bs, t) /\ Len(t) = Len(bs)  BY <1>1, <1>2, <1>3
    <2> HIDE DEF t
    <2>2. Grows(t, Instr(t, Cur)) /\ Len(Instr(t, Cur)) = Len(t)  BY <2>1, InstrGrows
    <2>3. Grows(bs, Instr(t, Cur))  BY <2>1, <2>2, GrowsTrans
    <2>4. PassArgs(bs, h) = Instr(t, Cur)  BY DEF PassArgs, t
    <2> QED  BY <2>1, <2>2, <2>3, <2>4
  <1> QED  BY <1>1, <1>4, <1>5

-----------------------------------------------------------------------------
(* Initially, and in every step.                                           *)

LEMMA InvInit == Init => Inv
  <1> SUFFICES ASSUME Init PROVE Inv  OBVIOUS
  <1>1. NewBlock(PupMain) \in BlockRec  BY NewBlockType, FnFacts
  <1>2. blocks \in Seq(BlockRec) /\ Len(blocks) = 2  BY <1>1 DEF Init
  <1>i. /\ builder = <<2>> /\ serial = 0 /\ landingpad = NoBlock /\ status = "unit"
        /\ causes = [f \in Fns |-> {}] /\ calls = {}
    BY DEF Init
  <1> DEFINE none == [b \in {} |-> NoBlock]
             f == [kind |-> "unit", hole |-> "stmts", base |-> 2, last_landingpad |-> NoBlock,
                   begin_block |-> NoBlock, next_rescue_block |-> NoBlock,
                   bkrescue |-> NoBlock, rescue_impls |-> {}, type_tests |-> none]
  <1>3. none \in [{} -> Nat]  BY DEF NoBlock
  <1>4. none \in Tests  BY <1>3, TestsType
  <1>5. open = <<f>>  BY DEF Init
  <1>f. /\ f \in FrameRec /\ f.kind = "unit" /\ f.base = 2 /\ f.last_landingpad = NoBlock
    <2> HIDE DEF none
    <2> QED  BY <1>4 DEF FrameRec, Kinds, Holes, NoBlock
  <1> HIDE DEF none, f
  <1>6. open \in Seq(FrameRec) /\ Len(open) = 1 /\ open[1] = f  BY <1>5, <1>f
  <1>7. methods \in Seq(MethodRec) /\ Len(methods) = 1 /\ methods[1].first = 1
    BY FnFacts DEF Init, MethodRec
  <1>8. TypeInv  BY <1>i, <1>2, <1>6, <1>7, BoundsAssumption DEF TypeInv, NoBlock
  <1>9. Building(open) = {} /\ Defining(open) = {}
    BY <1>6, <1>f DEF Building, Defining, HasBuilder
  <1>10. Cardinality({}) = 0  BY FS_EmptySet
  <1>11. BuildersFit(builder, 1, 2) /\ MethodsFit(methods, 1, 2)
    BY <1>i, <1>7 DEF BuildersFit, MethodsFit
  <1>15. /\ BuildersFit(builder, 1 + Cardinality(Building(open)), Len(blocks))
         /\ MethodsFit(methods, 1 + Cardinality(Defining(open)), Len(blocks))
    <2>1. 1 + Cardinality(Building(open)) = 1 /\ 1 + Cardinality(Defining(open)) = 1
      BY <1>9, <1>10
    <2> QED  BY <1>2, <1>11, <2>1
  <1>12. StacksInv  BY <1>6, <1>f, <1>15 DEF StacksInv
  <1>13. PartsInv  BY <1>2, <1>6, <1>f DEF PartsInv, FrameFits
  <1>14. PadInv  BY <1>i, <1>6, <1>f DEF PadInv, PadAt, Innermost, InBody
  <1> QED  BY <1>i, <1>8, <1>12, <1>13, <1>14 DEF Inv, CallsInv

CauseSets == SUBSET {"alloca", "clause", "pad"}

\* The four kinds of steps of the walk.  Code is put where the walk stands, ...
LEMMA QuietStep ==
  ASSUME Inv, status = "unit", Grows(blocks, blocks'),
         UNCHANGED <<serial, landingpad, open, status>>,
         BuildersFit(builder', Len(builder), Len(blocks')),
         MethodsFit(methods', Len(methods), Len(blocks')),
         causes' \in [Fns -> CauseSets], calls' \subseteq [block : Nat, pad : Nat], CallsInv'
  PROVE  Inv'
  <1>1. TypeInv'
    BY DEF Inv, TypeInv, Grows, BuildersFit, MethodsFit, CauseSets
  <1>2. StacksInv' /\ PartsInv'  BY KeepFrame DEF Inv
  <1>3. PadInv'  BY PadKeep DEF Inv
  <1> QED  BY <1>1, <1>2, <1>3 DEF Inv

\* ... a statement is opened, ...
LEMMA PushStep ==
  ASSUME Inv, status = "unit", Grows(blocks, blocks'), status' = status, calls' = calls,
         NEW f \in FrameRec, open' = Append(open, f), f.kind # "unit",
         f.last_landingpad = landingpad, FrameFits(f, Len(blocks')),
         landingpad' = IF InBody(f) THEN f.base ELSE landingpad,
         BuildersFit(builder', Len(builder) + (IF HasBuilder(f) THEN 1 ELSE 0), Len(blocks')),
         MethodsFit(methods', Len(methods) + (IF f.kind = "def" THEN 1 ELSE 0), Len(blocks')),
         serial' \in 0..MaxMethods, causes' \in [Fns -> CauseSets]
  PROVE  Inv'
  <1>1. StacksInv' /\ PartsInv' /\ open' \in Seq(FrameRec)  BY PushFrame DEF Inv
  <1>2. landingpad' \in Nat  BY DEF Inv, TypeInv, FrameRec
  <1>3. TypeInv'
    BY <1>1, <1>2 DEF Inv, TypeInv, Grows, BuildersFit, MethodsFit, CauseSets
  <1>4. PadInv'  BY PadPush DEF Inv
  <1>5. CallsInv'  BY CallsKept DEF Inv
  <1> QED  BY <1>1, <1>3, <1>4, <1>5 DEF Inv

\* ... goes on to its next part ...
LEMMA TopStep ==
  ASSUME Inv, status = "unit", Grows(blocks, blocks'), UNCHANGED <<serial, status, calls>>,
         NEW f \in FrameRec, open' = [open EXCEPT ![Len(open)] = f], f.kind = Top.kind,
         f.last_landingpad = Top.last_landingpad, FrameFits(f, Len(blocks')), ~InBody(f),
         landingpad' = IF InBody(Top) THEN Top.last_landingpad ELSE landingpad,
         \/ HasBuilder(f) = HasBuilder(Top) /\ BuildersFit(builder', Len(builder), Len(blocks'))
         \/ HasBuilder(f) /\ ~HasBuilder(Top)
              /\ BuildersFit(builder', Len(builder) + 1, Len(blocks')),
         MethodsFit(methods', Len(methods), Len(blocks')),
         causes' \in [Fns -> CauseSets]
  PROVE  Inv'
  <1>1. StacksInv' /\ PartsInv' /\ open' \in Seq(FrameRec)  BY TopFrame DEF Inv
  <1>2. landingpad' = Top.last_landingpad
    <2>1. CASE InBody(Top)  BY <2>1
    <2>2. CASE ~InBody(Top)
      <3>1. Len(open) \in 1..Len(open)  BY Heights DEF Inv
      <3>2. PadAt(Len(open)) = Top.last_landingpad  BY <2>2, <3>1 DEF Inv, PadInv, Top
      <3> QED  BY <2>2, <3>2 DEF PadAt
    <2> QED  BY <2>1, <2>2
  <1>3. Top.last_landingpad \in Nat  BY Heights DEF Inv, FrameRec
  <1>4. builder' \in Seq(Nat)  BY DEF BuildersFit
  <1>5. TypeInv'
    BY <1>1, <1>2, <1>3, <1>4 DEF Inv, TypeInv, Grows, MethodsFit, CauseSets
  <1>6. PadInv'  BY <1>2, PadTop DEF Inv
  <1>7. CallsInv'  BY CallsKept DEF Inv
  <1> QED  BY <1>1, <1>5, <1>6, <1>7 DEF Inv

\* ... and is closed.
LEMMA PopStep ==
  ASSUME Inv, status = "unit", Grows(blocks, blocks'),
         UNCHANGED <<serial, landingpad, status, causes, calls>>,
         open' = Closed, Top.kind # "unit", ~InBody(Top),
         BuildersFit(builder', Len(builder) - (IF HasBuilder(Top) THEN 1 ELSE 0), Len(blocks')),
         MethodsFit(methods', Len(methods) - (IF Top.kind = "def" THEN 1 ELSE 0), Len(blocks'))
  PROVE  Inv'
  <1>1. StacksInv' /\ PartsInv' /\ open' \in Seq(FrameRec)  BY PopFrame DEF Inv
  <1>2. TypeInv'
    BY <1>1 DEF Inv, TypeInv, Grows, BuildersFit, MethodsFit
  <1>3. PadInv'  BY PadPop DEF Inv
  <1>4. CallsInv'  BY CallsKept DEF Inv
  <1> QED  BY <1>1, <1>2, <1>3, <1>4 DEF Inv

\* The walk ends: by CloseUnit, or because the generator raises.
LEMMA LastStep ==
  ASSUME Inv, Grows(blocks, blocks'), UNCHANGED <<serial, landingpad, causes, calls>>,
         status' \in {"main", "done", "failed"},
         \/ builder' = builder /\ methods' = methods /\ open' = open
         \/ builder' = <<>> /\ methods' = <<>> /\ open' = <<>>
  PROVE  Inv'
  <1>0. builder' \in Seq(Nat) /\ methods' \in Seq(MethodRec) /\ open' \in Seq(FrameRec)
    <2>1. CASE builder' = <<>> /\ methods' = <<>> /\ open' = <<>>  BY <2>1
    <2>2. CASE builder' = builder /\ methods' = methods /\ open' = open  BY <2>2 DEF Inv, TypeInv
    <2> QED  BY <2>1, <2>2
  <1>1. TypeInv'  BY <1>0 DEF Inv, TypeInv, Grows
  <1>2. StacksInv' /\ PadInv'  BY DEF StacksInv, PadInv
  <1>3. Len(blocks) \in Nat /\ Len(blocks') \in Nat /\ Len(blocks) <= Len(blocks')
    BY DEF Inv, TypeInv, Grows
  <1>4. PartsInv'
    <2>1. CASE open' = <<>>  BY <2>1 DEF PartsInv
    <2>2. CASE open' = open  BY <2>2, <1>3, FitsMore DEF Inv, PartsInv, TypeInv
    <2> QED  BY <2>1, <2>2
  <1>5. CallsInv'  BY CallsKept DEF Inv
  <1> QED  BY <1>1, <1>2, <1>4, <1>5 DEF Inv

-----------------------------------------------------------------------------
(* The actions.                                                            *)

\* What every action of the walk may use.
LEMMA Context ==
  ASSUME Inv, status = "unit"
  PROVE  /\ blocks \in Seq(BlockRec) /\ Len(blocks) \in Nat
         /\ Cur \in 1..Len(blocks) /\ Cur \in Nat
         /\ Method.fn \in Fns /\ Top \in FrameRec /\ landingpad \in Nat
         /\ Fresh = Len(blocks) + 1 /\ Fresh \in Nat
  <1>1. blocks \in Seq(BlockRec) /\ landingpad \in Nat  BY DEF Inv, TypeInv
  <1>2. Cur \in 1..Len(blocks) /\ Method \in MethodRec /\ Top \in FrameRec  BY Heights DEF Inv
  <1> QED  BY <1>1, <1>2 DEF MethodRec, Fresh

\* The stacks, after a step that adds blocks.
LEMMA StacksAfter ==
  ASSUME Inv, status = "unit", Grows(blocks, blocks')
  PROVE  /\ BuildersFit(builder, Len(builder), Len(blocks'))
         /\ \A b \in 1..Len(blocks') :
              /\ BuildersFit(Position(b), Len(builder), Len(blocks'))
              /\ BuildersFit(PushBuilder(b), Len(builder) + 1, Len(blocks'))
              /\ HasBuilder(Top) =>
                   /\ BuildersFit(PopBuilder, Len(builder) - 1, Len(blocks'))
                   /\ BuildersFit(PopTo(b), Len(builder) - 1, Len(blocks'))
         /\ MethodsFit(methods, Len(methods), Len(blocks'))
         /\ \A b : MethodsFit(Leaving(b), Len(methods), Len(blocks'))
         /\ \A xs \in SUBSET Locals : MethodsFit(WithLocals(xs), Len(methods), Len(blocks'))
         /\ \A r \in MethodRec : r.first \in 1..Len(blocks') =>
              MethodsFit(Append(methods, r), Len(methods) + 1, Len(blocks'))
         /\ Top.kind = "def" =>
              MethodsFit(SubSeq(methods, 1, Len(methods) - 1), Len(methods) - 1, Len(blocks'))
  <1> DEFINE l == Len(blocks)
             m == Len(blocks')
             nb == Len(builder)
             nm == Len(methods)
  <1>1. l \in Nat /\ m \in Nat /\ l <= m  BY DEF Inv, TypeInv, Grows
  <1>2. /\ nb \in Nat /\ nb >= 1 /\ BuildersFit(builder, nb, l) /\ (HasBuilder(Top) => nb >= 2)
        /\ nm \in Nat /\ nm >= 1 /\ MethodsFit(methods, nm, l) /\ (Top.kind = "def" => nm >= 2)
        /\ Cur \in 1..l
    BY Heights DEF Inv
  <1>3. Cur \in 1..m  BY <1>1, <1>2
  <1> HIDE DEF l, m, nb, nm
  <1>4. BuildersFit(builder, nb, m)  BY <1>1, <1>2, <1>3, BuilderOps
  <1>5. ASSUME NEW b \in 1..m
        PROVE  /\ BuildersFit(Position(b), nb, m)
               /\ BuildersFit(PushBuilder(b), nb + 1, m)
               /\ HasBuilder(Top) =>
                    BuildersFit(PopBuilder, nb - 1, m) /\ BuildersFit(PopTo(b), nb - 1, m)
    BY <1>1, <1>2, BuilderOps
  <1>6. /\ MethodsFit(methods, nm, m)
        /\ \A b : MethodsFit(Leaving(b), nm, m)
        /\ \A xs \in SUBSET Locals : MethodsFit(WithLocals(xs), nm, m)
        /\ \A r \in MethodRec : r.first \in 1..m => MethodsFit(Append(methods, r), nm + 1, m)
        /\ Top.kind = "def" => MethodsFit(SubSeq(methods, 1, nm - 1), nm - 1, m)
    BY <1>1, <1>2, MethodOps
  <1> QED  BY <1>4, <1>5, <1>6 DEF m, nb, nm

LEMMA SimpleInv == Inv /\ Simple => Inv'
  <1> SUFFICES ASSUME Inv, Simple PROVE Inv'  OBVIOUS
  <1>1. status = "unit"  BY DEF Simple, AtExpression
  <1>2. Grows(blocks, blocks')  BY <1>1, Context, InstrGrows DEF Simple
  <1>3. /\ BuildersFit(builder', Len(builder), Len(blocks'))
        /\ MethodsFit(methods', Len(methods), Len(blocks'))
    BY <1>1, <1>2, StacksAfter DEF Simple
  <1>4. CallsInv'  BY <1>2, CallsKept DEF Inv, Simple
  <1>5. UNCHANGED <<serial, landingpad, open, status>>
        /\ causes' \in [Fns -> CauseSets] /\ calls' \subseteq [block : Nat, pad : Nat]
    BY DEF Simple, Inv, TypeInv, CauseSets
  <1> QED  BY <1>1, <1>2, <1>3, <1>4, <1>5, QuietStep

LEMMA AssignLocalInv == ASSUME NEW x \in Locals PROVE Inv /\ AssignLocal(x) => Inv'
  <1> SUFFICES ASSUME Inv, AssignLocal(x) PROVE Inv'  OBVIOUS
  <1>1. status = "unit"  BY DEF AssignLocal, AtExpression
  <1>2. Grows(blocks, blocks')
    <2> DEFINE bs == CreateLocal(blocks, {x})
    <2>1. Grows(blocks, bs)  BY <1>1, Context, SlotGrows
    <2>2. bs \in Seq(BlockRec)  BY <2>1 DEF Grows
    <2>3. blocks' = Instr(bs, Cur)  BY DEF AssignLocal
    <2> HIDE DEF bs
    <2>4. Grows(bs, blocks')  BY <2>2, <2>3, InstrGrows
    <2>5. blocks \in Seq(BlockRec)  BY <1>1, Context
    <2> QED  BY <2>1, <2>4, <2>5, GrowsTrans
  <1>3. /\ BuildersFit(builder', Len(builder), Len(blocks'))
        /\ MethodsFit(methods', Len(methods), Len(blocks'))
    BY <1>1, <1>2, StacksAfter DEF AssignLocal
  <1>4. CallsInv'  BY <1>2, CallsKept DEF Inv, AssignLocal
  <1>5. causes' \in [Fns -> CauseSets]  BY CauseTypes, BlameType DEF Inv, AssignLocal, CauseSets
  <1>6. UNCHANGED <<serial, landingpad, open, status>> /\ calls' \subseteq [block : Nat, pad : Nat]
    BY DEF AssignLocal, Inv, TypeInv
  <1> QED  BY <1>1, <1>2, <1>3, <1>4, <1>5, <1>6, QuietStep

\* A plain call is never recorded: in the body of a begin with a landing pad the
\* pad is active.
LEMMA CallInv == ASSUME NEW h \in BOOLEAN PROVE Inv /\ Call(h) => Inv'
  <1> SUFFICES ASSUME Inv, Call(h) PROVE Inv'  OBVIOUS
  <1>1. status = "unit" /\ landingpad = NoBlock  BY DEF Call, AtExpression
  <1>2. Grows(blocks, blocks')  BY <1>1, Context, SlotGrows DEF Call
  <1>3. /\ BuildersFit(builder', Len(builder), Len(blocks'))
        /\ MethodsFit(methods', Len(methods), Len(blocks'))
    BY <1>1, <1>2, StacksAfter DEF Call
  <1>4. WrittenIn = NoBlock  BY <1>1, WrittenInIsActive DEF Inv
  <1>5. calls' = calls  BY <1>4 DEF Call, RecordCall
  <1>6. CallsInv'  BY <1>2, <1>5, CallsKept DEF Inv
  <1>7. causes' \in [Fns -> CauseSets]  BY CauseTypes, BlameType DEF Inv, Call, CauseSets
  <1>8. UNCHANGED <<serial, landingpad, open, status>> /\ calls' \subseteq [block : Nat, pad : Nat]
    BY <1>5 DEF Call, Inv, TypeInv
  <1> QED  BY <1>1, <1>2, <1>3, <1>6, <1>7, <1>8, QuietStep

\* An invoke names the active pad as a successor of its block.
LEMMA InvokeInv == ASSUME NEW h \in BOOLEAN PROVE Inv /\ Invoke(h) => Inv'
  <1> SUFFICES ASSUME Inv, Invoke(h) PROVE Inv'  OBVIOUS
  <1>1. status = "unit"  BY DEF Invoke, AtExpression
  <1> DEFINE bs == PassArgs(blocks, h)
             cs == Term(bs, Cur, {Fresh, landingpad})
  <1>2. /\ blocks \in Seq(BlockRec) /\ Len(blocks) \in Nat /\ Cur \in 1..Len(blocks) /\ Cur \in Nat
        /\ Fresh \in Nat /\ landingpad \in Nat /\ Fresh = Len(blocks) + 1 /\ Method.fn \in Fns
    BY <1>1, Context
  <1>3. Grows(blocks, bs) /\ Len(bs) = Len(blocks)  BY <1>2, SlotGrows
  <1>4. bs \in Seq(BlockRec)  BY <1>3 DEF Grows
  <1>5. blocks' = AppendBlocks(cs, 1)  BY DEF Invoke
  <1> HIDE DEF bs
  <1>6. Grows(bs, cs) /\ Len(cs) = Len(blocks) /\ landingpad \in cs[Cur].to
    <2>1. {Fresh, landingpad} \in SUBSET Nat  BY <1>2
    <2> QED  BY <1>2, <1>3, <1>4, <2>1, TermGrows
  <1>7. cs \in Seq(BlockRec)  BY <1>6 DEF Grows
  <1> HIDE DEF cs
  <1>8. Grows(cs, blocks') /\ Len(blocks') = Len(blocks) + 1
    BY <1>2, <1>5, <1>6, <1>7, AppendBlocksGrows
  <1>9. Grows(blocks, blocks')
    <2>1. Grows(bs, blocks')  BY <1>4, <1>6, <1>8, GrowsTrans
    <2> QED  BY <1>2, <1>3, <2>1, GrowsTrans
  <1>10. landingpad \in blocks'[Cur].to /\ Cur \in 1..Len(blocks')
    BY <1>2, <1>6, <1>8 DEF Grows
  <1>11. Fresh \in 1..Len(blocks')  BY <1>2, <1>8
  <1>12. /\ BuildersFit(builder', Len(builder), Len(blocks'))
         /\ MethodsFit(methods', Len(methods), Len(blocks'))
    BY <1>1, <1>9, <1>11, StacksAfter DEF Invoke
  <1> DEFINE c == [block |-> Cur, pad |-> landingpad]
  <1>13. calls' = calls \/ calls' = calls \cup {c}
    <2>1. WrittenIn \in {NoBlock, landingpad}  BY <1>1, WrittenInIsActive DEF Inv
    <2> QED  BY <2>1 DEF Invoke, RecordCall
  <1>14. c \in [block : Nat, pad : Nat] /\ c.block = Cur /\ c.pad = landingpad  BY <1>2
  <1> HIDE DEF c
  <1>15. calls' \subseteq [block : Nat, pad : Nat]  BY <1>13, <1>14 DEF Inv, TypeInv
  <1>16. CallsInv'
    <2> SUFFICES ASSUME NEW d \in calls'
                 PROVE  d.block \in 1..Len(blocks') /\ d.pad \in blocks'[d.block].to
      BY DEF CallsInv
    <2>1. CASE d = c  BY <2>1, <1>10, <1>14
    <2>2. CASE d \in calls
      <3>1. d.block \in 1..Len(blocks) /\ d.pad \in blocks[d.block].to  BY <2>2 DEF Inv, CallsInv
      <3>2. d.pad \in blocks'[d.block].to  BY <3>1, <1>9 DEF Grows
      <3>3. d.block \in 1..Len(blocks')  BY <3>1, <1>2, <1>8
      <3> QED  BY <3>2, <3>3
    <2> QED  BY <1>13, <2>1, <2>2
  <1>17. causes' \in [Fns -> CauseSets]
    <2> DEFINE w == ArgsCause(h) \cup (IF WrittenIn = NoBlock THEN {"pad"} ELSE {})
    <2>1. w \in SUBSET {"alloca", "clause", "pad"}  BY CauseTypes
    <2>2. Blame(w)  BY DEF Invoke
    <2> HIDE DEF w
    <2> QED  BY <2>1, <2>2, BlameType DEF Inv, CauseSets
  <1>18. UNCHANGED <<serial, landingpad, open, status>>  BY DEF Invoke
  <1> QED  BY <1>1, <1>9, <1>12, <1>15, <1>16, <1>17, <1>18, QuietStep

\* An if or while is opened with all its blocks.
LEMMA OpenTestInv ==
  ASSUME NEW kind \in {"if", "while"}, NEW n \in Nat, n >= 3, kind = "if" => n >= 4
  PROVE  Inv /\ OpenTest(kind, n) => Inv'
  <1> SUFFICES ASSUME Inv, OpenTest(kind, n) PROVE Inv'  OBVIOUS
  <1>1. status = "unit"  BY DEF OpenTest, AtStatement
  <1> DEFINE bs == Alloca(blocks)
             cs == Term(bs, Cur, {Fresh})
             f  == Frame(kind, "cond", Fresh)
  <1>2. /\ blocks \in Seq(BlockRec) /\ Len(blocks) \in Nat
        /\ Fresh \in Nat /\ Fresh = Len(blocks) + 1 /\ Method.fn \in Fns
    BY <1>1, Context
  <1>3. Grows(blocks, bs) /\ Len(bs) = Len(blocks)  BY <1>2, SlotGrows
  <1>4. bs \in Seq(BlockRec)  BY <1>3 DEF Grows
  <1>5. blocks' = AppendBlocks(cs, n) /\ open' = Append(open, f)  BY DEF OpenTest, Opened
  <1> HIDE DEF bs
  <1>6. Grows(bs, cs) /\ Len(cs) = Len(blocks)
    <2>1. {Fresh} \in SUBSET Nat  BY <1>2
    <2> QED  BY <1>3, <1>4, <2>1, TermGrows
  <1>7. cs \in Seq(BlockRec)  BY <1>6 DEF Grows
  <1> HIDE DEF cs
  <1>8. Grows(cs, blocks') /\ Len(blocks') = Len(blocks) + n
    BY <1>2, <1>5, <1>6, <1>7, AppendBlocksGrows
  <1>9. Grows(blocks, blocks')
    <2>1. Grows(bs, blocks')  BY <1>4, <1>6, <1>8, GrowsTrans
    <2> QED  BY <1>2, <1>3, <2>1, GrowsTrans
  <1>10. /\ f \in FrameRec /\ f.kind = kind /\ f.hole = "cond" /\ f.base = Fresh
         /\ f.last_landingpad = landingpad
    BY <1>2, FrameType, SMTT(20) DEF Inv, Kinds, Holes
  <1> HIDE DEF f
  <1>11. FrameFits(f, Len(blocks'))  BY <1>2, <1>8, <1>10 DEF FrameFits
  <1>12. Fresh \in 1..Len(blocks')  BY <1>2, <1>8
  <1>13. HasBuilder(f) /\ f.kind # "def" /\ ~InBody(f) /\ f.kind # "unit"
    BY <1>10 DEF HasBuilder, InBody
  <1>14. BuildersFit(builder', Len(builder) + 1, Len(blocks'))
    BY <1>1, <1>9, <1>12, StacksAfter DEF OpenTest
  <1>15. MethodsFit(methods', Len(methods) + 0, Len(blocks'))
    <2>1. Len(methods) + 0 = Len(methods)  BY <1>1, Heights DEF Inv
    <2> QED  BY <1>1, <1>9, <2>1, StacksAfter DEF OpenTest
  <1>16. causes' \in [Fns -> CauseSets]  BY CauseTypes, BlameType DEF Inv, OpenTest, CauseSets
  <1>17. UNCHANGED <<status, calls, landingpad>> /\ serial' \in 0..MaxMethods
    BY DEF OpenTest, Inv, TypeInv
  <1> QED  BY <1>1, <1>5, <1>9, <1>10, <1>11, <1>13, <1>14, <1>15, <1>16, <1>17, PushStep

\* The next part of an if or while.
LEMMA NextPartInv ==
  ASSUME NEW kind \in {"if", "while"}, NEW hole, NEW nextHole \in Holes
  PROVE  \A to \in SUBSET Nat : \A b \in 1..Len(blocks) :
           Inv /\ NextPart(kind, hole, to, b, nextHole) => Inv'
  <1> SUFFICES ASSUME NEW to \in SUBSET Nat, NEW b \in 1..Len(blocks), Inv,
                      NextPart(kind, hole, to, b, nextHole)
               PROVE  Inv'
    OBVIOUS
  <1>1. status = "unit" /\ Top.kind = kind  BY DEF NextPart, At
  <1>2. blocks \in Seq(BlockRec) /\ Len(blocks) \in Nat  BY <1>1, Context
  <1> DEFINE bs == Instr(blocks, Cur)
             f  == [Top EXCEPT !.hole = nextHole]
  <1>3. Grows(blocks, bs) /\ Len(bs) = Len(blocks)  BY <1>2, InstrGrows
  <1>4. bs \in Seq(BlockRec)  BY <1>3 DEF Grows
  <1>5. blocks' = Term(bs, Cur, to)  BY DEF NextPart
  <1> HIDE DEF bs
  <1>6. Grows(bs, blocks') /\ Len(blocks') = Len(blocks)  BY <1>3, <1>4, <1>5, TermGrows
  <1>7. Grows(blocks, blocks')  BY <1>2, <1>3, <1>6, GrowsTrans
  <1>8. /\ f \in FrameRec /\ open' = [open EXCEPT ![Len(open)] = f]
        /\ f.kind = Top.kind /\ f.base = Top.base /\ f.last_landingpad = Top.last_landingpad
    BY <1>1, InHoleType DEF Inv, NextPart
  <1> HIDE DEF f
  <1>9. FrameFits(Top, Len(blocks))  BY <1>1, Heights DEF Inv, PartsInv, Top
  <1>10. FrameFits(f, Len(blocks'))  BY <1>1, <1>6, <1>8, <1>9 DEF FrameFits
  <1>11. HasBuilder(f) /\ HasBuilder(Top) /\ ~InBody(f) /\ ~InBody(Top)
    BY <1>1, <1>8 DEF HasBuilder, InBody
  <1>12. b \in 1..Len(blocks')  BY <1>6
  <1>13. /\ BuildersFit(builder', Len(builder), Len(blocks'))
         /\ MethodsFit(methods', Len(methods), Len(blocks'))
    BY <1>1, <1>7, <1>12, StacksAfter DEF NextPart
  <1>14. UNCHANGED <<serial, status, calls, landingpad>> /\ causes' \in [Fns -> CauseSets]
    BY DEF NextPart, Inv, TypeInv, CauseSets
  <1> QED  BY <1>1, <1>7, <1>8, <1>10, <1>11, <1>13, <1>14, TopStep

LEMMA OpenIfInv == Inv /\ OpenIf => Inv'
  BY OpenTestInv DEF OpenIf

LEMMA OpenWhileInv == Inv /\ OpenWhile => Inv'
  BY OpenTestInv DEF OpenWhile

\* The parts of an if or while are in blocks that exist.
LEMMA TestParts ==
  ASSUME Inv, status = "unit"
  PROVE  /\ Top.kind = "if" =>
              /\ BkThen \in 1..Len(blocks) /\ BkElse \in 1..Len(blocks)
              /\ BkContinue \in 1..Len(blocks)
         /\ Top.kind = "while" =>
              BkBody \in 1..Len(blocks) /\ BkAfter \in 1..Len(blocks) /\ Top.base \in Nat
  <1>1. Top \in FrameRec /\ FrameFits(Top, Len(blocks))
    BY Heights DEF Inv, PartsInv, Top
  <1>2. Top.base \in Nat /\ Len(blocks) \in Nat  BY <1>1, Context DEF FrameRec
  <1> QED  BY <1>1, <1>2 DEF FrameFits, BkThen, BkElse, BkContinue, BkBody, BkAfter

LEMMA IfCondInv == Inv /\ IfCond => Inv'
  <1> SUFFICES ASSUME Inv, IfCond PROVE Inv'  OBVIOUS
  <1>1. status = "unit" /\ Top.kind = "if"  BY DEF IfCond, NextPart, At
  <1>2. BkThen \in 1..Len(blocks) /\ IfTargets \in SUBSET Nat  BY <1>1, TestParts DEF IfTargets
  <1>3. "then" \in Holes  BY DEF Holes
  <1> QED  BY <1>2, <1>3, NextPartInv DEF IfCond

LEMMA IfThenInv == Inv /\ IfThen => Inv'
  <1> SUFFICES ASSUME Inv, IfThen PROVE Inv'  OBVIOUS
  <1>1. status = "unit" /\ Top.kind = "if"  BY DEF IfThen, NextPart, At
  <1>2. BkElse \in 1..Len(blocks) /\ {BkContinue} \in SUBSET Nat  BY <1>1, TestParts
  <1>3. "else" \in Holes  BY DEF Holes
  <1> QED  BY <1>2, <1>3, NextPartInv DEF IfThen

LEMMA WhileCondInv == Inv /\ WhileCond => Inv'
  <1> SUFFICES ASSUME Inv, WhileCond PROVE Inv'  OBVIOUS
  <1>1. status = "unit" /\ Top.kind = "while"  BY DEF WhileCond, NextPart, At
  <1>2. BkBody \in 1..Len(blocks) /\ {BkAfter, BkBody} \in SUBSET Nat  BY <1>1, TestParts
  <1>3. "body" \in Holes  BY DEF Holes
  <1> QED  BY <1>2, <1>3, NextPartInv DEF WhileCond

\* A step that ends the walk changes no block.
LEMMA FailInv ==
  Inv /\ (IfThenWithoutElse \/ BeginBodyWithoutRescue \/ ClassNotImplemented) => Inv'
  <1> SUFFICES ASSUME Inv, IfThenWithoutElse \/ BeginBodyWithoutRescue \/ ClassNotImplemented
               PROVE  Inv'
    OBVIOUS
  <1>1. /\ status' = "failed"
        /\ UNCHANGED <<blocks, builder, methods, serial, landingpad, open, causes, calls>>
    BY DEF IfThenWithoutElse, BeginBodyWithoutRescue, ClassNotImplemented
  <1>2. Grows(blocks, blocks')  BY <1>1 DEF Inv, TypeInv, Grows
  <1>3. status' \in {"main", "done", "failed"} /\ builder' = builder /\ methods' = methods
        /\ open' = open
        /\ UNCHANGED <<serial, landingpad, causes, calls>>
    BY <1>1
  <1> QED  BY <1>2, <1>3, LastStep

LEMMA IfElseInv == Inv /\ IfElse => Inv'
  <1> SUFFICES ASSUME Inv, IfElse PROVE Inv'  OBVIOUS
  <1>1. status = "unit" /\ Top.kind = "if"  BY DEF IfElse, At
  <1>2. BkContinue \in 1..Len(blocks)  BY <1>1, TestParts
  <1> DEFINE bs == Instr(blocks, Cur)
             cs == Term(bs, Cur, {BkContinue})
  <1>3. blocks \in Seq(BlockRec) /\ Len(blocks) \in Nat  BY <1>1, Context
  <1>4. Grows(blocks, bs) /\ Len(bs) = Len(blocks)  BY <1>3, InstrGrows
  <1>5. bs \in Seq(BlockRec)  BY <1>4 DEF Grows
  <1>6. blocks' = Instr(cs, BkContinue)  BY DEF IfElse
  <1> HIDE DEF bs
  <1>7. Grows(bs, cs) /\ Len(cs) = Len(blocks)
    <2>1. {BkContinue} \in SUBSET Nat  BY <1>2, <1>3
    <2> QED  BY <1>4, <1>5, <2>1, TermGrows
  <1>8. cs \in Seq(BlockRec)  BY <1>7 DEF Grows
  <1> HIDE DEF cs
  <1>9. Grows(cs, blocks') /\ Len(blocks') = Len(blocks)  BY <1>6, <1>7, <1>8, InstrGrows
  <1>10. Grows(blocks, blocks')
    <2>1. Grows(bs, blocks')  BY <1>5, <1>7, <1>9, GrowsTrans
    <2> QED  BY <1>3, <1>4, <2>1, GrowsTrans
  <1>11. HasBuilder(Top) /\ ~InBody(Top)  BY <1>1 DEF HasBuilder, InBody
  <1>12. BuildersFit(builder', Len(builder) - 1, Len(blocks'))
    BY <1>1, <1>2, <1>9, <1>10, <1>11, StacksAfter DEF IfElse
  <1>13. MethodsFit(methods', Len(methods) - 0, Len(blocks'))
    <2>1. Len(methods) - 0 = Len(methods)  BY <1>1, Heights DEF Inv
    <2> QED  BY <1>1, <1>10, <2>1, StacksAfter DEF IfElse
  <1>14. UNCHANGED <<serial, landingpad, status, causes, calls>> /\ open' = Closed  BY DEF IfElse
  <1> QED  BY <1>1, <1>10, <1>11, <1>12, <1>13, <1>14, PopStep

LEMMA PollGrows ==
  ASSUME NEW bs \in Seq(BlockRec), NEW b
  PROVE  /\ Grows(bs, [bs EXCEPT ![b].polls = TRUE])
         /\ Len([bs EXCEPT ![b].polls = TRUE]) = Len(bs)
  <1> DEFINE p == [bs EXCEPT ![b].polls = TRUE]
  <1>1. CASE b \in 1..Len(bs)
    <2> DEFINE r == [bs[b] EXCEPT !.polls = TRUE]
    <2>1. bs[b] \in BlockRec  BY <1>1
    <2>2. r \in BlockRec /\ r.to = bs[b].to  BY <2>1 DEF BlockRec
    <2> HIDE DEF r
    <2>3. p = [bs EXCEPT ![b] = r]  BY DEF r
    <2> HIDE DEF p
    <2>4. Grows(bs, p) /\ Len(p) = Len(bs)  BY <1>1, <2>2, <2>3 DEF Grows
    <2> QED  BY <2>4 DEF p
  <1>2. CASE b \notin 1..Len(bs)
    <2>1. p = bs  BY <1>2
    <2>2. Grows(bs, bs)  BY DEF Grows
    <2> HIDE DEF p
    <2>3. Grows(bs, p) /\ Len(p) = Len(bs)  BY <2>1, <2>2
    <2> QED  BY <2>3 DEF p
  <1> QED  BY <1>1, <1>2

LEMMA WhileBodyInv == Inv /\ WhileBody => Inv'
  <1> SUFFICES ASSUME Inv, WhileBody PROVE Inv'  OBVIOUS
  <1>1. status = "unit" /\ Top.kind = "while" /\ Top.hole = "body"  BY DEF WhileBody, At
  <1>2. BkAfter \in 1..Len(blocks) /\ Top.base \in Nat  BY <1>1, TestParts
  <1> DEFINE bs == Instr(blocks, Cur)
             ps == [bs EXCEPT ![PollBlock].polls = TRUE]
             cs == Term(ps, Cur, {Top.base})
  <1>3. blocks \in Seq(BlockRec) /\ Len(blocks) \in Nat  BY <1>1, Context
  <1>4. Grows(blocks, bs) /\ Len(bs) = Len(blocks)  BY <1>3, InstrGrows
  <1>5. bs \in Seq(BlockRec)  BY <1>4 DEF Grows
  <1>6. blocks' = Instr(cs, BkAfter)  BY DEF WhileBody
  <1> HIDE DEF bs
  <1>a. Grows(bs, ps) /\ Len(ps) = Len(blocks)  BY <1>4, <1>5, PollGrows
  <1>b. ps \in Seq(BlockRec)  BY <1>a DEF Grows
  <1> HIDE DEF ps
  <1>7. Grows(ps, cs) /\ Len(cs) = Len(blocks)
    <2>1. {Top.base} \in SUBSET Nat  BY <1>2
    <2> QED  BY <1>a, <1>b, <2>1, TermGrows
  <1>8. cs \in Seq(BlockRec)  BY <1>7 DEF Grows
  <1> HIDE DEF cs
  <1>9. Grows(cs, blocks') /\ Len(blocks') = Len(blocks)  BY <1>6, <1>7, <1>8, InstrGrows
  <1>10. Grows(blocks, blocks')
    <2>1. Grows(ps, blocks')  BY <1>b, <1>7, <1>9, GrowsTrans
    <2>2. Grows(bs, blocks')  BY <1>5, <1>a, <2>1, GrowsTrans
    <2> QED  BY <1>3, <1>4, <2>2, GrowsTrans
  <1>11. HasBuilder(Top) /\ ~InBody(Top)  BY <1>1 DEF HasBuilder, InBody
  <1>12. BuildersFit(builder', Len(builder) - 1, Len(blocks'))
    BY <1>1, <1>2, <1>9, <1>10, <1>11, StacksAfter DEF WhileBody
  <1>13. MethodsFit(methods', Len(methods) - 0, Len(blocks'))
    <2>1. Len(methods) - 0 = Len(methods)  BY <1>1, Heights DEF Inv
    <2> QED  BY <1>1, <1>10, <2>1, StacksAfter DEF WhileBody
  <1>14. UNCHANGED <<serial, landingpad, status, causes, calls>> /\ open' = Closed
    BY DEF WhileBody
  <1> QED  BY <1>1, <1>10, <1>11, <1>12, <1>13, <1>14, PopStep

\* The statement's own pad, or none, is active in the body.
LEMMA OpenBeginInv == ASSUME NEW r \in BOOLEAN PROVE Inv /\ OpenBegin(r) => Inv'
  <1> SUFFICES ASSUME Inv, OpenBegin(r) PROVE Inv'  OBVIOUS
  <1>1. status = "unit"  BY DEF OpenBegin, AtStatement
  <1> DEFINE bs  == Alloca(blocks)
             pad == IF r THEN Fresh ELSE NoBlock
             f   == Frame("begin", "body", pad)
             new == [NewBlock(Method.fn) EXCEPT !.pad = TRUE]
  <1>2. /\ blocks \in Seq(BlockRec) /\ Len(blocks) \in Nat
        /\ Fresh \in Nat /\ Fresh = Len(blocks) + 1 /\ Method.fn \in Fns
    BY <1>1, Context
  <1>3. Grows(blocks, bs) /\ Len(bs) = Len(blocks)  BY <1>2, SlotGrows
  <1>4. bs \in Seq(BlockRec)  BY <1>3 DEF Grows
  <1>5. /\ blocks' = IF r THEN Append(bs, new) ELSE bs
        /\ landingpad' = pad /\ open' = Append(open, f)
    BY DEF OpenBegin, Opened
  <1>6. new \in BlockRec
    <2>1. NewBlock(Method.fn) \in BlockRec  BY <1>2, NewBlockType
    <2> QED  BY <2>1 DEF BlockRec
  <1> HIDE DEF bs, new
  <1>7. Grows(bs, blocks') /\ Len(blocks') = IF r THEN Len(blocks) + 1 ELSE Len(blocks)
    BY <1>2, <1>3, <1>4, <1>5, <1>6 DEF Grows
  <1>8. Grows(blocks, blocks')  BY <1>2, <1>3, <1>7, GrowsTrans
  <1>9. pad \in Nat /\ pad <= Len(blocks')  BY <1>2, <1>7 DEF NoBlock
  <1> HIDE DEF pad
  <1>10. /\ f \in FrameRec /\ f.kind = "begin" /\ f.hole = "body" /\ f.base = pad
         /\ f.last_landingpad = landingpad
    BY <1>9, FrameType DEF Inv, Kinds, Holes
  <1> HIDE DEF f
  <1>11. FrameFits(f, Len(blocks'))  BY <1>9, <1>10 DEF FrameFits
  <1>12. ~HasBuilder(f) /\ InBody(f) /\ f.kind # "def" /\ f.kind # "unit"
    BY <1>10 DEF HasBuilder, InBody
  <1>13. /\ BuildersFit(builder', Len(builder) + 0, Len(blocks'))
         /\ MethodsFit(methods', Len(methods) + 0, Len(blocks'))
    <2>1. Len(methods) + 0 = Len(methods) /\ Len(builder) + 0 = Len(builder)
      BY <1>1, Heights DEF Inv
    <2> QED  BY <1>1, <1>8, <2>1, StacksAfter DEF OpenBegin
  <1>14. causes' \in [Fns -> CauseSets]  BY CauseTypes, BlameType DEF Inv, OpenBegin, CauseSets
  <1>15. UNCHANGED <<status, calls>> /\ serial' \in 0..MaxMethods
    BY DEF OpenBegin, Inv, TypeInv
  <1> QED  BY <1>1, <1>5, <1>8, <1>10, <1>11, <1>12, <1>13, <1>14, <1>15, PushStep

\* After the body the pad around the statement is active again.
LEMMA BeginBodyInv == Inv /\ BeginBody => Inv'
  <1> SUFFICES ASSUME Inv, BeginBody PROVE Inv'  OBVIOUS
  <1>1. status = "unit" /\ Top.kind = "begin" /\ Top.hole = "body" /\ Top.base # NoBlock
    BY DEF BeginBody, At
  <1>2. /\ blocks \in Seq(BlockRec) /\ Len(blocks) \in Nat /\ Top \in FrameRec /\ Cur \in Nat
    BY <1>1, Context
  <1> DEFINE bs == Instr(blocks, Cur)
             f  == [Top EXCEPT !.hole = "clauses", !.begin_block = Cur]
  <1>3. Grows(blocks, bs) /\ Len(bs) = Len(blocks)  BY <1>2, InstrGrows
  <1>4. bs \in Seq(BlockRec)  BY <1>3 DEF Grows
  <1>5. blocks' = Instr(bs, Top.base)  BY DEF BeginBody
  <1> HIDE DEF bs
  <1>6. Grows(bs, blocks') /\ Len(blocks') = Len(blocks)  BY <1>3, <1>4, <1>5, InstrGrows
  <1>7. Grows(blocks, blocks')  BY <1>2, <1>3, <1>6, GrowsTrans
  <1>8. /\ f \in FrameRec /\ f.kind = Top.kind /\ f.base = Top.base /\ f.hole = "clauses"
        /\ f.last_landingpad = Top.last_landingpad
    BY <1>2 DEF FrameRec, Holes
  <1>9. open' = [open EXCEPT ![Len(open)] = f]  BY DEF BeginBody, Top
  <1> HIDE DEF f
  <1>10. FrameFits(Top, Len(blocks))  BY <1>1, Heights DEF Inv, PartsInv, Top
  <1>11. FrameFits(f, Len(blocks'))  BY <1>1, <1>6, <1>8, <1>10 DEF FrameFits
  <1>12. HasBuilder(f) /\ ~HasBuilder(Top) /\ ~InBody(f) /\ InBody(Top)
    BY <1>1, <1>8 DEF HasBuilder, InBody
  <1>13. Top.base \in 1..Len(blocks')
    BY <1>1, <1>2, <1>6, <1>10 DEF FrameFits, FrameRec, NoBlock
  <1>14. /\ BuildersFit(builder', Len(builder) + 1, Len(blocks'))
         /\ MethodsFit(methods', Len(methods), Len(blocks'))
    BY <1>1, <1>7, <1>13, StacksAfter DEF BeginBody
  <1>15. /\ UNCHANGED <<serial, status, calls>> /\ causes' \in [Fns -> CauseSets]
         /\ landingpad' = Top.last_landingpad
    BY DEF BeginBody, EhEnd, Inv, TypeInv, CauseSets
  <1> QED  BY <1>1, <1>7, <1>8, <1>9, <1>11, <1>12, <1>14, <1>15, TopStep

LEMMA RescueTypeInv == Inv /\ RescueType => Inv'
  <1> SUFFICES ASSUME Inv, RescueType PROVE Inv'  OBVIOUS
  <1>1. status = "unit" /\ Top.kind = "begin" /\ Top.hole \in {"clauses", "tested"}
    BY DEF RescueType, At
  <1> DEFINE f == [Top EXCEPT !.hole = "type"]
  <1>2. Grows(blocks, blocks') /\ blocks' = blocks  BY DEF RescueType, Inv, TypeInv, Grows
  <1>3. /\ f \in FrameRec /\ open' = [open EXCEPT ![Len(open)] = f] /\ f.hole = "type"
        /\ f.kind = Top.kind /\ f.base = Top.base /\ f.last_landingpad = Top.last_landingpad
    <2>1. "type" \in Holes  BY DEF Holes
    <2> QED  BY <1>1, <2>1, InHoleType DEF Inv, RescueType
  <1> HIDE DEF f
  <1>4. FrameFits(Top, Len(blocks))  BY <1>1, Heights DEF Inv, PartsInv, Top
  <1>5. FrameFits(f, Len(blocks'))  BY <1>1, <1>2, <1>3, <1>4 DEF FrameFits
  <1>6. HasBuilder(f) /\ HasBuilder(Top) /\ ~InBody(f) /\ ~InBody(Top)
    BY <1>1, <1>3 DEF HasBuilder, InBody
  <1>7. /\ BuildersFit(builder', Len(builder), Len(blocks'))
        /\ MethodsFit(methods', Len(methods), Len(blocks'))
    BY <1>1, <1>2, StacksAfter DEF RescueType
  <1>8. UNCHANGED <<serial, status, calls, landingpad>> /\ causes' \in [Fns -> CauseSets]
    BY DEF RescueType, Inv, TypeInv, CauseSets
  <1> QED  BY <1>1, <1>2, <1>3, <1>5, <1>6, <1>7, <1>8, TopStep

LEMMA TypeTestInv == Inv /\ TypeTest => Inv'
  <1> SUFFICES ASSUME Inv, TypeTest PROVE Inv'  OBVIOUS
  <1>1. status = "unit" /\ Top.kind = "begin" /\ Top.hole = "type"  BY DEF TypeTest, At
  <1>2. /\ blocks \in Seq(BlockRec) /\ Len(blocks) \in Nat /\ Top \in FrameRec /\ Cur \in Nat
        /\ Fresh \in Nat /\ Fresh = Len(blocks) + 1 /\ Method.fn \in Fns
    BY <1>1, Context
  <1> DEFINE bs == Instr(blocks, Cur)
             old == Top.type_tests
             new == [b \in DOMAIN old \cup {Cur} |-> IF b = Cur THEN Fresh ELSE old[b]]
             f  == [Top EXCEPT !.hole = "tested", !.type_tests = new]
  <1>3. Grows(blocks, bs) /\ Len(bs) = Len(blocks)  BY <1>2, InstrGrows
  <1>4. bs \in Seq(BlockRec)  BY <1>3 DEF Grows
  <1>5. blocks' = AppendBlocks(bs, 1)  BY DEF TypeTest
  <1> HIDE DEF bs
  <1>6. Grows(bs, blocks') /\ Len(blocks') = Len(blocks) + 1
    BY <1>2, <1>3, <1>4, <1>5, AppendBlocksGrows
  <1>7. Grows(blocks, blocks')  BY <1>2, <1>3, <1>6, GrowsTrans
  <1>8. new \in Tests
    <2>1. old \in Tests  BY <1>2 DEF FrameRec
    <2>2. PICK S \in SUBSET Nat : old \in [S -> Nat]  BY <2>1 DEF Tests
    <2> HIDE DEF old
    <2>3. DOMAIN old \cup {Cur} \in SUBSET Nat /\ new \in [DOMAIN old \cup {Cur} -> Nat]
      BY <1>2, <2>2
    <2> HIDE DEF new
    <2> QED  BY <2>3, TestsType
  <1>9. open' = [open EXCEPT ![Len(open)] = f]  BY DEF TypeTest, Top
  <1> HIDE DEF new
  <1>10. /\ f \in FrameRec /\ f.kind = Top.kind /\ f.base = Top.base /\ f.hole = "tested"
         /\ f.last_landingpad = Top.last_landingpad
    BY <1>2, <1>8 DEF FrameRec, Holes
  <1> HIDE DEF f
  <1>11. FrameFits(Top, Len(blocks)) /\ Top.base \in Nat
    BY <1>1, Heights DEF Inv, PartsInv, Top, FrameRec
  <1>12. FrameFits(f, Len(blocks'))  BY <1>1, <1>2, <1>6, <1>10, <1>11 DEF FrameFits
  <1>13. HasBuilder(f) /\ HasBuilder(Top) /\ ~InBody(f) /\ ~InBody(Top)
    BY <1>1, <1>10 DEF HasBuilder, InBody
  <1>14. Fresh \in 1..Len(blocks')  BY <1>2, <1>6
  <1>15. /\ BuildersFit(builder', Len(builder), Len(blocks'))
         /\ MethodsFit(methods', Len(methods), Len(blocks'))
    BY <1>1, <1>7, <1>14, StacksAfter DEF TypeTest
  <1>16. UNCHANGED <<serial, status, calls, landingpad>> /\ causes' \in [Fns -> CauseSets]
    BY DEF TypeTest, Inv, TypeInv, CauseSets
  <1> QED  BY <1>1, <1>7, <1>9, <1>10, <1>12, <1>13, <1>15, <1>16, TopStep

LEMMA RescueClauseInv ==
  ASSUME NEW xs \in SUBSET Locals PROVE Inv /\ RescueClause(xs) => Inv'
  <1> SUFFICES ASSUME Inv, RescueClause(xs) PROVE Inv'  OBVIOUS
  <1>1. status = "unit" /\ Top.kind = "begin" /\ Top.hole = "tested"  BY DEF RescueClause, At
  <1>2. /\ blocks \in Seq(BlockRec) /\ Len(blocks) \in Nat /\ Top \in FrameRec
        /\ Cur \in Nat /\ Cur \in 1..Len(blocks)
        /\ Fresh \in Nat /\ Fresh = Len(blocks) + 1 /\ Method.fn \in Fns
    BY <1>1, Context
  <1> DEFINE to == [b \in DOMAIN Top.type_tests |-> {Fresh, Top.type_tests[b]}]
             ts == TermAll(blocks, to)
             bs == AppendBlocks(ts, 1)
             f  == [Top EXCEPT !.hole = "clause", !.next_rescue_block = Cur, !.bkrescue = Fresh,
                               !.rescue_impls = @ \cup {Fresh}]
  <1>3. \A b \in DOMAIN to : to[b] \in SUBSET Nat
    <2>1. Top.type_tests \in Tests  BY <1>2 DEF FrameRec
    <2>2. PICK S \in SUBSET Nat : Top.type_tests \in [S -> Nat]  BY <2>1 DEF Tests
    <2> QED  BY <1>2, <2>2
  <1>4. blocks' = CreateLocal(bs, xs)  BY DEF RescueClause
  <1> HIDE DEF to
  <1>5. Grows(blocks, ts) /\ Len(ts) = Len(blocks)  BY <1>2, <1>3, TermAllGrows
  <1>6. ts \in Seq(BlockRec)  BY <1>5 DEF Grows
  <1> HIDE DEF ts
  <1>7. Grows(ts, bs) /\ Len(bs) = Len(blocks) + 1  BY <1>2, <1>5, <1>6, AppendBlocksGrows
  <1>8. bs \in Seq(BlockRec)  BY <1>7 DEF Grows
  <1> HIDE DEF bs
  <1>9. Grows(bs, blocks') /\ Len(blocks') = Len(blocks) + 1  BY <1>4, <1>7, <1>8, SlotGrows
  <1>10. Grows(blocks, blocks')
    <2>1. Grows(ts, blocks')  BY <1>6, <1>7, <1>9, GrowsTrans
    <2> QED  BY <1>2, <1>5, <2>1, GrowsTrans
  <1>11. open' = [open EXCEPT ![Len(open)] = f]  BY DEF RescueClause, Top
  <1>12. /\ f \in FrameRec /\ f.kind = Top.kind /\ f.base = Top.base /\ f.hole = "clause"
         /\ f.last_landingpad = Top.last_landingpad /\ f.next_rescue_block = Cur
    BY <1>2 DEF FrameRec, Holes
  <1> HIDE DEF f
  <1>13. FrameFits(Top, Len(blocks)) /\ Top.base \in Nat
    BY <1>1, Heights DEF Inv, PartsInv, Top, FrameRec
  <1>14. FrameFits(f, Len(blocks'))  BY <1>1, <1>2, <1>9, <1>12, <1>13 DEF FrameFits
  <1>15. HasBuilder(f) /\ HasBuilder(Top) /\ ~InBody(f) /\ ~InBody(Top)
    BY <1>1, <1>12 DEF HasBuilder, InBody
  <1>16. Fresh \in 1..Len(blocks')  BY <1>2, <1>9
  <1>17. /\ BuildersFit(builder', Len(builder), Len(blocks'))
         /\ MethodsFit(methods', Len(methods), Len(blocks'))
    BY <1>1, <1>10, <1>16, StacksAfter DEF RescueClause
  <1>18. causes' \in [Fns -> CauseSets]
    BY CauseTypes, BlameType DEF Inv, RescueClause, CauseSets
  <1>19. UNCHANGED <<serial, status, calls, landingpad>>  BY DEF RescueClause
  <1> QED  BY <1>1, <1>10, <1>11, <1>12, <1>14, <1>15, <1>17, <1>18, <1>19, TopStep

LEMMA RescueClauseEndInv == Inv /\ RescueClauseEnd => Inv'
  <1> SUFFICES ASSUME Inv, RescueClauseEnd PROVE Inv'  OBVIOUS
  <1>1. status = "unit" /\ Top.kind = "begin" /\ Top.hole = "clause"
    BY DEF RescueClauseEnd, At
  <1>2. blocks \in Seq(BlockRec) /\ Len(blocks) \in Nat /\ Top \in FrameRec  BY <1>1, Context
  <1> DEFINE none == [b \in {} |-> NoBlock]
             f == [Top EXCEPT !.hole = "clauses", !.type_tests = none]
  <1>3. Grows(blocks, blocks') /\ Len(blocks') = Len(blocks)
    BY <1>2, InstrGrows DEF RescueClauseEnd
  <1>4. none \in [{} -> Nat]  BY DEF NoBlock
  <1>5. none \in Tests  BY <1>4, TestsType
  <1>6. open' = [open EXCEPT ![Len(open)] = f]  BY DEF RescueClauseEnd, Top
  <1> HIDE DEF none
  <1>7. /\ f \in FrameRec /\ f.kind = Top.kind /\ f.base = Top.base /\ f.hole = "clauses"
        /\ f.last_landingpad = Top.last_landingpad
    BY <1>2, <1>5 DEF FrameRec, Holes
  <1> HIDE DEF f
  <1>8. FrameFits(Top, Len(blocks))  BY <1>1, Heights DEF Inv, PartsInv, Top
  <1>9. FrameFits(f, Len(blocks'))  BY <1>1, <1>3, <1>7, <1>8 DEF FrameFits
  <1>10. HasBuilder(f) /\ HasBuilder(Top) /\ ~InBody(f) /\ ~InBody(Top)
    BY <1>1, <1>7 DEF HasBuilder, InBody
  <1>11. Top.next_rescue_block \in 1..Len(blocks')  BY <1>1, <1>3, <1>8 DEF FrameFits
  <1>12. /\ BuildersFit(builder', Len(builder), Len(blocks'))
         /\ MethodsFit(methods', Len(methods), Len(blocks'))
    BY <1>1, <1>3, <1>11, StacksAfter DEF RescueClauseEnd
  <1>13. causes' \in [Fns -> CauseSets]
    <2> DEFINE w == IF Cur = Top.bkrescue THEN {} ELSE {"clause"}
    <2>1. w \in SUBSET {"alloca", "clause", "pad"}  OBVIOUS
    <2>2. Blame(w)  BY DEF RescueClauseEnd
    <2> HIDE DEF w
    <2> QED  BY <2>1, <2>2, BlameType DEF Inv, CauseSets
  <1>14. UNCHANGED <<serial, status, calls, landingpad>>  BY DEF RescueClauseEnd
  <1> QED  BY <1>1, <1>3, <1>6, <1>7, <1>9, <1>10, <1>12, <1>13, <1>14, TopStep

LEMMA BeginEndInv == Inv /\ BeginEnd => Inv'
  <1> SUFFICES ASSUME Inv, BeginEnd PROVE Inv'  OBVIOUS
  <1>1. status = "unit" /\ Top.kind = "begin" /\ Top.hole = "clauses"  BY DEF BeginEnd, At
  <1>2. /\ blocks \in Seq(BlockRec) /\ Len(blocks) \in Nat
        /\ Fresh \in Nat /\ Fresh = Len(blocks) + 1 /\ Method.fn \in Fns
    BY <1>1, Context
  <1> DEFINE as0 == Instr(blocks, Cur)
             bs == Term(as0, Cur, {})
             cs == AppendBlocks(bs, 1)
             to == [b \in BranchOut |-> {Fresh}]
             ds == TermAll(cs, to)
  <1>3. blocks' = Instr(ds, Fresh)  BY DEF BeginEnd
  <1>4. Grows(blocks, as0) /\ Len(as0) = Len(blocks)  BY <1>2, InstrGrows
  <1>5. as0 \in Seq(BlockRec)  BY <1>4 DEF Grows
  <1> HIDE DEF as0
  <1>6. Grows(as0, bs) /\ Len(bs) = Len(blocks)
    <2>1. {} \in SUBSET Nat  OBVIOUS
    <2> QED  BY <1>4, <1>5, <2>1, TermGrows
  <1>7. bs \in Seq(BlockRec)  BY <1>6 DEF Grows
  <1> HIDE DEF bs
  <1>8. Grows(bs, cs) /\ Len(cs) = Len(blocks) + 1  BY <1>2, <1>6, <1>7, AppendBlocksGrows
  <1>9. cs \in Seq(BlockRec)  BY <1>8 DEF Grows
  <1> HIDE DEF cs
  <1>10. \A b \in DOMAIN to : to[b] \in SUBSET Nat  BY <1>2
  <1> HIDE DEF to
  <1>11. Grows(cs, ds) /\ Len(ds) = Len(blocks) + 1  BY <1>8, <1>9, <1>10, TermAllGrows
  <1>12. ds \in Seq(BlockRec)  BY <1>11 DEF Grows
  <1> HIDE DEF ds
  <1>13. Grows(ds, blocks') /\ Len(blocks') = Len(blocks) + 1
    BY <1>3, <1>11, <1>12, InstrGrows
  <1>14. Grows(blocks, blocks')
    <2>1. Grows(cs, blocks')  BY <1>9, <1>11, <1>13, GrowsTrans
    <2>2. Grows(bs, blocks')  BY <1>7, <1>8, <2>1, GrowsTrans
    <2>3. Grows(as0, blocks')  BY <1>5, <1>6, <2>2, GrowsTrans
    <2> QED  BY <1>2, <1>4, <2>3, GrowsTrans
  <1>15. HasBuilder(Top) /\ ~InBody(Top) /\ Fresh \in 1..Len(blocks')
    BY <1>1, <1>2, <1>13 DEF HasBuilder, InBody
  <1>16. BuildersFit(builder', Len(builder) - 1, Len(blocks'))
    BY <1>1, <1>14, <1>15, StacksAfter DEF BeginEnd
  <1>17. MethodsFit(methods', Len(methods) - 0, Len(blocks'))
    <2>1. Len(methods) - 0 = Len(methods)  BY <1>1, Heights DEF Inv
    <2> QED  BY <1>1, <1>14, <2>1, StacksAfter DEF BeginEnd
  <1>18. UNCHANGED <<serial, landingpad, status, causes, calls>> /\ open' = Closed
    BY DEF BeginEnd
  <1> QED  BY <1>1, <1>14, <1>15, <1>16, <1>17, <1>18, PopStep

LEMMA OpenClassInv == Inv /\ OpenClass => Inv'
  <1> SUFFICES ASSUME Inv, OpenClass PROVE Inv'  OBVIOUS
  <1>1. status = "unit"  BY DEF OpenClass, AtStatement
  <1> DEFINE f == Frame("class", "body", NoBlock)
  <1>2. blocks \in Seq(BlockRec)  BY <1>1, Context
  <1>3. Grows(blocks, blocks')  BY <1>2, InstrGrows DEF OpenClass
  <1>4. /\ f \in FrameRec /\ f.kind = "class" /\ f.last_landingpad = landingpad
    <2>1. NoBlock \in Nat  BY DEF NoBlock
    <2> QED  BY <2>1, FrameType DEF Inv, Kinds, Holes
  <1>5. open' = Append(open, f)  BY DEF OpenClass, Opened
  <1> HIDE DEF f
  <1>6. FrameFits(f, Len(blocks'))  BY <1>4 DEF FrameFits
  <1>7. ~HasBuilder(f) /\ ~InBody(f) /\ f.kind # "def" /\ f.kind # "unit"
    BY <1>4 DEF HasBuilder, InBody
  <1>8. /\ BuildersFit(builder', Len(builder) + 0, Len(blocks'))
        /\ MethodsFit(methods', Len(methods) + 0, Len(blocks'))
    <2>1. Len(methods) + 0 = Len(methods) /\ Len(builder) + 0 = Len(builder)
      BY <1>1, Heights DEF Inv
    <2> QED  BY <1>1, <1>3, <2>1, StacksAfter DEF OpenClass
  <1>9. /\ UNCHANGED <<status, calls, landingpad>> /\ serial' \in 0..MaxMethods
        /\ causes' \in [Fns -> CauseSets]
    BY DEF OpenClass, Inv, TypeInv, CauseSets
  <1> QED  BY <1>1, <1>3, <1>4, <1>5, <1>6, <1>7, <1>8, <1>9, PushStep

LEMMA CloseClassInv == Inv /\ CloseClass => Inv'
  <1> SUFFICES ASSUME Inv, CloseClass PROVE Inv'  OBVIOUS
  <1>1. status = "unit" /\ Top.kind = "class"  BY DEF CloseClass, At
  <1>2. Grows(blocks, blocks')  BY DEF CloseClass, Inv, TypeInv, Grows
  <1>3. ~HasBuilder(Top) /\ ~InBody(Top)  BY <1>1 DEF HasBuilder, InBody
  <1>4. /\ BuildersFit(builder', Len(builder) - 0, Len(blocks'))
        /\ MethodsFit(methods', Len(methods) - 0, Len(blocks'))
    <2>1. Len(methods) - 0 = Len(methods) /\ Len(builder) - 0 = Len(builder)
      BY <1>1, Heights DEF Inv
    <2> QED  BY <1>1, <1>2, <2>1, StacksAfter DEF CloseClass
  <1>5. UNCHANGED <<serial, landingpad, status, causes, calls>> /\ open' = Closed
    BY DEF CloseClass
  <1> QED  BY <1>1, <1>2, <1>3, <1>4, <1>5, PopStep

LEMMA OpenDefInv == ASSUME NEW xs \in SUBSET Locals PROVE Inv /\ OpenDef(xs) => Inv'
  <1> SUFFICES ASSUME Inv, OpenDef(xs) PROVE Inv'  OBVIOUS
  <1>1. status = "unit"  BY DEF OpenDef, AtStatement
  <1> DEFINE f == Frame("def", "body", Fresh)
             r == [fn |-> serial + 1, first |-> Fresh, locals |-> xs, left |-> FALSE]
  <1>2. /\ blocks \in Seq(BlockRec) /\ Len(blocks) \in Nat
        /\ Fresh \in Nat /\ Fresh = Len(blocks) + 1
    BY <1>1, Context
  <1>3. serial + 1 \in 1..MaxMethods /\ serial' = serial + 1
    BY BoundsAssumption DEF OpenDef, Inv, TypeInv
  <1>4. serial + 1 \in Fns /\ serial' \in 0..MaxMethods  BY <1>3, FnFacts, BoundsAssumption
  <1>5. NewBlock(serial + 1) \in BlockRec  BY <1>4, NewBlockType
  <1>6. blocks' = Append(blocks, NewBlock(serial + 1))  BY DEF OpenDef
  <1>7. Grows(blocks, blocks') /\ Len(blocks') = Len(blocks) + 1  BY <1>2, <1>5, <1>6 DEF Grows
  <1>8. r \in MethodRec /\ r.first = Fresh  BY <1>2, <1>4 DEF MethodRec
  <1>9. methods' = Append(methods, r)  BY DEF OpenDef
  <1> HIDE DEF r
  <1>10. /\ f \in FrameRec /\ f.kind = "def" /\ f.last_landingpad = landingpad
    BY <1>2, FrameType DEF Inv, Kinds, Holes
  <1>11. open' = Append(open, f)  BY DEF OpenDef, Opened
  <1> HIDE DEF f
  <1>12. FrameFits(f, Len(blocks'))  BY <1>10 DEF FrameFits
  <1>13. HasBuilder(f) /\ ~InBody(f) /\ f.kind # "unit"  BY <1>10 DEF HasBuilder, InBody
  <1>14. Fresh \in 1..Len(blocks')  BY <1>2, <1>7
  <1>15. BuildersFit(builder', Len(builder) + 1, Len(blocks'))
    BY <1>1, <1>7, <1>14, StacksAfter DEF OpenDef
  <1>16. MethodsFit(methods', Len(methods) + 1, Len(blocks'))
    BY <1>1, <1>7, <1>8, <1>9, <1>14, StacksAfter
  <1>17. UNCHANGED <<status, calls, landingpad>> /\ causes' \in [Fns -> CauseSets]
    BY DEF OpenDef, Inv, TypeInv, CauseSets
  <1> QED  BY <1>1, <1>4, <1>7, <1>10, <1>11, <1>12, <1>13, <1>15, <1>16, <1>17, PushStep

LEMMA CloseDefInv == Inv /\ CloseDef => Inv'
  <1> SUFFICES ASSUME Inv, CloseDef PROVE Inv'  OBVIOUS
  <1>1. status = "unit" /\ Top.kind = "def"  BY DEF CloseDef, At
  <1> DEFINE bs == Term(blocks, Cur, {})
  <1>2. blocks \in Seq(BlockRec) /\ Len(blocks) \in Nat /\ Cur \in 1..Len(blocks)
    BY <1>1, Context
  <1>3. Grows(blocks, bs) /\ Len(bs) = Len(blocks)
    <2>1. {} \in SUBSET Nat  OBVIOUS
    <2> QED  BY <1>2, <2>1, TermGrows
  <1>4. bs \in Seq(BlockRec)  BY <1>3 DEF Grows
  <1>5. blocks' = Instr(bs, builder[Len(builder) - 1])  BY DEF CloseDef
  <1> HIDE DEF bs
  <1>6. Grows(bs, blocks') /\ Len(blocks') = Len(blocks)  BY <1>3, <1>4, <1>5, InstrGrows
  <1>7. Grows(blocks, blocks')  BY <1>2, <1>3, <1>6, GrowsTrans
  <1>8. HasBuilder(Top) /\ ~InBody(Top)  BY <1>1 DEF HasBuilder, InBody
  <1>9. Cur \in 1..Len(blocks')  BY <1>2, <1>6
  <1>10. BuildersFit(builder', Len(builder) - 1, Len(blocks'))
    BY <1>1, <1>7, <1>8, <1>9, StacksAfter DEF CloseDef
  <1>11. MethodsFit(methods', Len(methods) - 1, Len(blocks'))
    BY <1>1, <1>7, StacksAfter DEF CloseDef
  <1>12. UNCHANGED <<serial, landingpad, status, causes, calls>> /\ open' = Closed
    BY DEF CloseDef
  <1> QED  BY <1>1, <1>7, <1>8, <1>10, <1>11, <1>12, PopStep

LEMMA CloseUnitInv == Inv /\ CloseUnit => Inv'
  <1> SUFFICES ASSUME Inv, CloseUnit PROVE Inv'  OBVIOUS
  <1>1. status = "unit"  BY DEF CloseUnit, At
  <1> DEFINE bs == Term(blocks, Cur, {})
  <1>2. blocks \in Seq(BlockRec) /\ Top \in FrameRec  BY <1>1, Context
  <1>3. Grows(blocks, bs)
    <2>1. {} \in SUBSET Nat  OBVIOUS
    <2> QED  BY <1>2, <2>1, TermGrows
  <1>4. bs \in Seq(BlockRec)  BY <1>3 DEF Grows
  <1>5. blocks' = Term(bs, Method.first, {Top.base})  BY DEF CloseUnit
  <1> HIDE DEF bs
  <1>6. Grows(bs, blocks')
    <2>1. {Top.base} \in SUBSET Nat  BY <1>2 DEF FrameRec
    <2> QED  BY <1>4, <1>5, <2>1, TermGrows
  <1>7. Grows(blocks, blocks')  BY <1>2, <1>3, <1>6, GrowsTrans
  <1>8. /\ builder' = <<>> /\ methods' = <<>> /\ open' = <<>> /\ status' = "main"
        /\ UNCHANGED <<serial, landingpad, causes, calls>>
    BY DEF CloseUnit
  <1> QED  BY <1>7, <1>8, LastStep

LEMMA BuildMainInv == Inv /\ BuildMain => Inv'
  <1> SUFFICES ASSUME Inv, BuildMain PROVE Inv'  OBVIOUS
  <1> DEFINE new == [i \in 1..3 |-> NewBlock(CMain)]
             bs == blocks \o new
             to == [b \in {Fresh, Fresh + 1, Fresh + 2} |->
                      CASE b = Fresh -> {Fresh + 2, Fresh + 1}
                        [] b = Fresh + 1 -> {Fresh + 2}
                        [] b = Fresh + 2 -> {}]
  <1>1. blocks \in Seq(BlockRec) /\ Fresh \in Nat  BY DEF Inv, TypeInv, Fresh
  <1>2. new \in Seq(BlockRec)
    <2>1. NewBlock(CMain) \in BlockRec  BY FnFacts, NewBlockType
    <2> QED  BY <2>1
  <1>3. blocks' = TermAll(bs, to)  BY DEF BuildMain
  <1> HIDE DEF new
  <1>4. Grows(blocks, bs)  BY <1>1, <1>2, ConcatGrows
  <1>5. bs \in Seq(BlockRec)  BY <1>4 DEF Grows
  <1> HIDE DEF bs
  <1>6. \A b \in DOMAIN to : to[b] \in SUBSET Nat  BY <1>1
  <1> HIDE DEF to
  <1>7. Grows(bs, blocks')  BY <1>3, <1>5, <1>6, TermAllGrows
  <1>8. Grows(blocks, blocks')  BY <1>1, <1>4, <1>7, GrowsTrans
  <1>9. /\ builder' = builder /\ methods' = methods /\ open' = open /\ status' = "done"
        /\ UNCHANGED <<serial, landingpad, causes, calls>>
    BY DEF BuildMain
  <1> QED  BY <1>8, <1>9, LastStep

LEMMA InvNext == Inv /\ [Next]_vars => Inv'
  <1> SUFFICES ASSUME Inv, [Next]_vars PROVE Inv'  OBVIOUS
  <1>1. \A xs \in OneName : xs \in SUBSET Locals  BY DEF OneName
  <1>2. CASE Expression
    BY <1>2, SimpleInv, AssignLocalInv, CallInv, InvokeInv DEF Expression
  <1>3. CASE Begin
    <2>1. ASSUME NEW r \in BOOLEAN, OpenBegin(r) PROVE Inv'  BY <2>1, OpenBeginInv
    <2>2. ASSUME NEW xs \in OneName, RescueClause(xs) PROVE Inv'
      BY <1>1, <2>2, RescueClauseInv
    <2> QED
      BY <1>3, <2>1, <2>2, FailInv, BeginBodyInv, RescueTypeInv, TypeTestInv,
         RescueClauseEndInv, BeginEndInv
      DEF Begin
  <1>4. CASE OpenIf \/ IfCond \/ IfThen \/ IfThenWithoutElse \/ IfElse
    BY <1>4, OpenIfInv, IfCondInv, IfThenInv, FailInv, IfElseInv
  <1>5. CASE OpenWhile \/ WhileCond \/ WhileBody
    BY <1>5, OpenWhileInv, WhileCondInv, WhileBodyInv
  <1>6. CASE OpenClass \/ ClassNotImplemented \/ CloseClass
    BY <1>6, OpenClassInv, FailInv, CloseClassInv
  <1>7. ASSUME NEW xs \in OneName, OpenDef(xs) PROVE Inv'  BY <1>1, <1>7, OpenDefInv
  <1>8. CASE CloseDef \/ CloseUnit \/ BuildMain
    BY <1>8, CloseDefInv, CloseUnitInv, BuildMainInv
  <1>9. CASE UNCHANGED vars
    <2>1. TypeInv'  BY <1>9 DEF vars, Inv, TypeInv
    <2>2. StacksInv' /\ PartsInv'  BY <1>9 DEF vars, Inv, StacksInv, PartsInv
    <2>3. PadInv'  BY <1>9, PadKeep DEF vars, Inv
    <2>4. CallsInv'  BY <1>9 DEF vars, Inv, CallsInv
    <2> QED  BY <2>1, <2>2, <2>3, <2>4 DEF Inv
  <1> QED  BY <1>2, <1>3, <1>4, <1>5, <1>6, <1>7, <1>8, <1>9 DEF Next

-----------------------------------------------------------------------------
(* Which programs compile to well-formed code.  Three more things have to   *)
(* be known of the walk: which block each open statement will go on in,     *)
(* which blocks still wait for a terminator, and by which statement each of *)
(* them will be given one.                                                  *)

\* The builder and the method of the k-th open statement are at these places of
\* the stacks.
Height(o, k) == 1 + Cardinality({j \in 1..k : HasBuilder(o[j])})
Level(o, k)  == 1 + Cardinality({j \in 1..k : o[j].kind = "def"})

\* The block its code goes on in, its function, and the function's first block.
CodeAt(k)  == builder[Height(open, k)]
FnAt(k)    == methods[Level(open, k)].fn
FirstAt(k) == methods[Level(open, k)].first

\* A begin statement whose rescue clauses are being generated.
Handling(f) == f.kind = "begin" /\ f.hole # "body"

\* The blocks that a statement has appended and still refers to.
Owned(f, b) ==
  \/ f.kind = "unit" /\ b = f.base
  \/ f.kind = "if" /\ b \in f.base..f.base + 3
  \/ f.kind = "while" /\ b \in f.base..f.base + 2
  \/ /\ f.kind = "begin"
     /\ \/ b = f.base /\ b # NoBlock
        \/ b \in f.rescue_impls
        \/ b \in DOMAIN f.type_tests
        \/ \E x \in DOMAIN f.type_tests : b = f.type_tests[x]
        \/ f.hole = "clause" /\ (b = f.next_rescue_block \/ b = f.bkrescue)

\* Those that wait for a terminator.
Waits(f, b) ==
  \/ f.kind = "unit" /\ b = 1
  \/ f.kind = "if" /\ f.hole = "cond" /\ b \in f.base + 1..f.base + 3
  \/ f.kind = "if" /\ f.hole = "then" /\ b \in f.base + 2..f.base + 3
  \/ f.kind = "if" /\ f.hole = "else" /\ b = f.base + 3
  \/ f.kind = "while" /\ f.hole = "cond" /\ b \in f.base + 1..f.base + 2
  \/ f.kind = "while" /\ f.hole = "body" /\ b = f.base + 2
  \/ InBody(f) /\ b = f.base /\ b # NoBlock
  \/ Handling(f) /\ f.hole # "clause" /\ b \in DOMAIN f.type_tests
  \/ Handling(f) /\ f.hole = "clause" /\ b = f.next_rescue_block

\* The first blocks of the clauses that are complete.
Done(f) == IF f.hole = "clause" THEN f.rescue_impls \ {f.bkrescue} ELSE f.rescue_impls

\* Block b waits for the k-th statement.  A def and the clauses of a begin also
\* keep the block in which the code around them goes on.
Pend(k, b) ==
  \/ Waits(open[k], b)
  \/ (open[k].kind = "def" \/ Handling(open[k])) /\ b = CodeAt(k - 1)
  \/ Handling(open[k]) /\ b \in Done(open[k]) /\ ~blocks[b].closed

\* Functions have numbers of their own, and pup_main's first block is the first.
FnInv ==
  /\ Len(methods) > 0 => methods[1].first = 1
  /\ \A i \in 1..Len(methods) : methods[i].fn <= serial
  /\ \A i, j \in 1..Len(methods) : methods[i].fn = methods[j].fn => i = j

\* Code is put into blocks of its function.
OwnAt(k) ==
  /\ CodeAt(k) \in Blocks /\ blocks[CodeAt(k)].fn = FnAt(k)
  /\ \A b : Owned(open[k], b) => b \in Blocks /\ blocks[b].fn = FnAt(k)
OwnInv ==
  /\ Len(open) = 0 => Len(methods) = 0
  /\ \A i \in 1..Len(methods) :
       methods[i].first \in Blocks /\ blocks[methods[i].first].fn = methods[i].fn
  /\ \A k \in 1..Len(open) : OwnAt(k)

\* No block waits for two statements, or is in use and waits, and all blocks
\* that wait are open.
WaitInv ==
  Len(open) > 0 =>
    /\ ~blocks[Cur].closed
    /\ \A k \in 1..Len(open) : \A b : Pend(k, b) =>
         /\ ~blocks[b].closed /\ b # Cur
         /\ \A j \in 1..Len(open) : Pend(j, b) => j = k

\* A block without a terminator is in use or waits for a statement, unless a
\* rescue clause has left it behind.
UnclosedInv ==
  \A b \in Blocks : ~blocks[b].closed /\ "clause" \notin causes[blocks[b].fn] =>
    Len(open) > 0 /\ (b = Cur \/ \E k \in 1..Len(open) : Pend(k, b))

\* The code around an if, while or begin: it has branched to the test, or its
\* block is the one in begin_block.  The code of a clause is in its first block
\* as long as that is open, and a clause that ended elsewhere is a cause.  The
\* blocks that wait for the begin are different ones.
ClauseAt(k) ==
  /\ open[k].kind \in {"if", "while"} => blocks[CodeAt(k - 1)].closed
  /\ InBody(open[k]) => open[k].rescue_impls = {} /\ DOMAIN open[k].type_tests = {}
  /\ Handling(open[k]) /\ open[k].hole = "clauses" => DOMAIN open[k].type_tests = {}
  /\ Handling(open[k]) =>
       /\ open[k].base # NoBlock
       /\ open[k].begin_block = CodeAt(k - 1)
       /\ open[k].hole = "clause" =>
            /\ open[k].bkrescue \in open[k].rescue_impls
            /\ open[k].bkrescue = CodeAt(k) \/ blocks[open[k].bkrescue].closed
       /\ \A b \in Done(open[k]) : /\ b # CodeAt(k - 1)
                                   /\ blocks[b].closed => "clause" \in causes[FnAt(k)]
       /\ \A b : Waits(open[k], b) => b # CodeAt(k - 1) /\ b \notin Done(open[k])
ClauseInv == \A k \in 1..Len(open) : ClauseAt(k)

\* left says exactly that a method's first block has its terminator.  The blocks
\* of statements come after it.
AfterFirst(k) ==
  /\ open[k].kind \in {"if", "while"} \/ Handling(open[k]) => CodeAt(k) > FirstAt(k)
  /\ \A b : Owned(open[k], b) => b > FirstAt(k)
FirstInv ==
  /\ \A i \in 1..Len(methods) : methods[i].left <=> blocks[methods[i].first].closed
  /\ \A k \in 1..Len(open) : AfterFirst(k)

\* The active landing pad is a block of the function exactly if a begin of the
\* function encloses the code, otherwise of a function around it.
Covered(o, k) == \E i \in 1..k : InBody(o[i]) /\ \A j \in i..k : o[j].kind # "def"
PadFnAt(k) ==
  PadAt(k) # NoBlock =>
    /\ PadAt(k) \in Blocks
    /\ \E i \in 1..Level(open, k) :
         blocks[PadAt(k)].fn = methods[i].fn /\ (Covered(open, k) <=> i = Level(open, k))
PadFnInv == \A k \in 1..Len(open) : PadFnAt(k)

\* Branches out of a function and instructions after a terminator have causes ...
TargetInv ==
  \A b \in Blocks : "pad" \notin causes[blocks[b].fn] =>
    \A c \in blocks[b].to : c \in Blocks /\ blocks[c].fn = blocks[b].fn
LateInv == \A b \in Blocks : blocks[b].late => causes[blocks[b].fn] # {}

\* ... and a cause shows: at once, or when the begin statement is closed.
EvidenceInv ==
  \A f \in Fns :
    /\ "alloca" \in causes[f] => \E b \in Blocks : blocks[b].fn = f /\ blocks[b].late
    /\ "pad" \in causes[f] =>
         \E b \in Blocks : /\ blocks[b].fn = f
                           /\ \E c \in blocks[b].to : c \in Blocks /\ blocks[c].fn # f
    /\ "clause" \in causes[f] =>
         \/ \E b \in Blocks : blocks[b].fn = f /\ blocks[b].late
         \/ \E k \in 1..Len(open) : /\ Handling(open[k]) /\ FnAt(k) = f
                                    /\ \E b \in open[k].rescue_impls : blocks[b].closed

Flow ==
  /\ FnInv /\ OwnInv /\ WaitInv /\ UnclosedInv /\ ClauseInv /\ FirstInv /\ PadFnInv
  /\ TargetInv /\ LateInv /\ EvidenceInv

-----------------------------------------------------------------------------
(* Places on the stacks.                                                   *)

LEMMA IndexZero ==
  ASSUME NEW o
  PROVE  Height(o, 0) = 1 /\ Level(o, 0) = 1
  <1>1. {j \in 1..0 : HasBuilder(o[j])} = {} /\ {j \in 1..0 : o[j].kind = "def"} = {}  OBVIOUS
  <1>2. Cardinality({}) = 0  BY FS_EmptySet
  <1> QED  BY <1>1, <1>2 DEF Height, Level

LEMMA IndexStep ==
  ASSUME NEW o, NEW n \in Nat
  PROVE  /\ Height(o, n) \in Nat /\ Height(o, n) >= 1
         /\ Level(o, n) \in Nat /\ Level(o, n) >= 1
         /\ Height(o, n + 1) = Height(o, n) + (IF HasBuilder(o[n + 1]) THEN 1 ELSE 0)
         /\ Level(o, n + 1) = Level(o, n) + (IF o[n + 1].kind = "def" THEN 1 ELSE 0)
  <1> DEFINE S(x) == {j \in 1..x : HasBuilder(o[j])}
             T(x) == {j \in 1..x : o[j].kind = "def"}
  <1>1. \A j \in 1..n : j \in 1..n + 1  OBVIOUS
  <1>2. /\ S(n + 1) \subseteq 1..n + 1 /\ S(n + 1) \cap (1..n) = S(n)
        /\ T(n + 1) \subseteq 1..n + 1 /\ T(n + 1) \cap (1..n) = T(n)
    BY <1>1
  <1>3. n + 1 \in S(n + 1) <=> HasBuilder(o[n + 1])  OBVIOUS
  <1>4. n + 1 \in T(n + 1) <=> o[n + 1].kind = "def"  OBVIOUS
  <1>5. Height(o, n) = 1 + Cardinality(S(n)) /\ Height(o, n + 1) = 1 + Cardinality(S(n + 1))
    BY DEF Height
  <1>6. Level(o, n) = 1 + Cardinality(T(n)) /\ Level(o, n + 1) = 1 + Cardinality(T(n + 1))
    BY DEF Level
  <1> HIDE DEF S, T
  <1>7. /\ Cardinality(S(n)) \in Nat
        /\ Cardinality(S(n + 1)) = Cardinality(S(n)) + (IF n + 1 \in S(n + 1) THEN 1 ELSE 0)
    BY <1>2, CountLast
  <1>8. /\ Cardinality(T(n)) \in Nat
        /\ Cardinality(T(n + 1)) = Cardinality(T(n)) + (IF n + 1 \in T(n + 1) THEN 1 ELSE 0)
    BY <1>2, CountLast
  <1>9. /\ Height(o, n) \in Nat /\ Height(o, n) >= 1
        /\ Height(o, n + 1) = Height(o, n) + (IF HasBuilder(o[n + 1]) THEN 1 ELSE 0)
    BY <1>3, <1>5, <1>7
  <1>10. /\ Level(o, n) \in Nat /\ Level(o, n) >= 1
         /\ Level(o, n + 1) = Level(o, n) + (IF o[n + 1].kind = "def" THEN 1 ELSE 0)
    <2>1. (n + 1 \in T(n + 1)) = (o[n + 1].kind = "def")  BY <1>4
    <2> QED  BY <1>6, <1>8, <2>1
  <1> QED  BY <1>9, <1>10

\* Two statements share a builder if none between them has pushed one, and then
\* they are in the same method.
LEMMA IndexOrder ==
  ASSUME NEW o, NEW n \in Nat, NEW k \in Nat, k <= n
  PROVE  /\ Height(o, k) <= Height(o, n) /\ Level(o, k) <= Level(o, n)
         /\ Height(o, k) = Height(o, n) => Level(o, k) = Level(o, n)
         /\ (\E j \in k + 1..n : HasBuilder(o[j])) => Height(o, k) < Height(o, n)
         /\ (\A j \in k + 1..n : o[j].kind # "def") => Level(o, k) = Level(o, n)
         /\ (\E j \in k + 1..n : o[j].kind = "def") => Level(o, k) < Level(o, n)
  <1> DEFINE S(x) == {j \in 1..x : HasBuilder(o[j])}
             T(x) == {j \in 1..x : o[j].kind = "def"}
  <1>1. IsFiniteSet(1..n)  BY FS_Interval
  <1>2. IsFiniteSet(S(n)) /\ IsFiniteSet(T(n))  BY <1>1, FS_Subset
  <1>3. \A j \in 1..k : j \in 1..n  OBVIOUS
  <1>4. S(k) \subseteq S(n) /\ T(k) \subseteq T(n)  BY <1>3
  <1>5. \A j \in 1..n : j \in 1..k \/ j \in k + 1..n  OBVIOUS
  <1>6. \A j \in k + 1..n : j \in 1..n /\ j \notin 1..k  OBVIOUS
  <1>7. /\ (\E j \in k + 1..n : HasBuilder(o[j])) => S(k) # S(n)
        /\ (\E j \in k + 1..n : o[j].kind = "def") => T(k) # T(n)
    <2>1. ASSUME NEW j \in k + 1..n, HasBuilder(o[j]) PROVE S(k) # S(n)  BY <1>6, <2>1
    <2>2. ASSUME NEW j \in k + 1..n, o[j].kind = "def" PROVE T(k) # T(n)  BY <1>6, <2>2
    <2> QED  BY <2>1, <2>2
  <1>8. S(k) = S(n) => T(k) = T(n)
    <2> SUFFICES ASSUME S(k) = S(n), NEW j \in T(n) PROVE j \in T(k)  BY <1>4
    <2>1. j \in S(n)  BY DEF HasBuilder
    <2>2. j \in 1..k  BY <2>1
    <2> QED  BY <2>2
  <1>9. (\A j \in k + 1..n : o[j].kind # "def") => T(k) = T(n)
    <2> SUFFICES ASSUME \A j \in k + 1..n : o[j].kind # "def", NEW j \in T(n) PROVE j \in T(k)
      BY <1>4
    <2>1. j \in 1..k  BY <1>5
    <2> QED  BY <2>1
  <1>10. /\ Height(o, n) = 1 + Cardinality(S(n)) /\ Height(o, k) = 1 + Cardinality(S(k))
         /\ Level(o, n) = 1 + Cardinality(T(n)) /\ Level(o, k) = 1 + Cardinality(T(k))
    BY DEF Height, Level
  <1> HIDE DEF S, T
  <1>11. /\ Cardinality(S(k)) \in Nat /\ Cardinality(S(n)) \in Nat
         /\ Cardinality(S(k)) <= Cardinality(S(n))
         /\ Cardinality(S(k)) = Cardinality(S(n)) => S(k) = S(n)
    <2>1. IsFiniteSet(S(k))  BY <1>2, <1>4, FS_Subset
    <2> QED  BY <1>2, <1>4, <2>1, FS_Subset, FS_CardinalityType
  <1>12. /\ Cardinality(T(k)) \in Nat /\ Cardinality(T(n)) \in Nat
         /\ Cardinality(T(k)) <= Cardinality(T(n))
         /\ Cardinality(T(k)) = Cardinality(T(n)) => T(k) = T(n)
    <2>1. IsFiniteSet(T(k))  BY <1>2, <1>4, FS_Subset
    <2> QED  BY <1>2, <1>4, <2>1, FS_Subset, FS_CardinalityType
  <1>13. Height(o, k) <= Height(o, n) /\ Level(o, k) <= Level(o, n)  BY <1>10, <1>11, <1>12
  <1>14. Height(o, k) = Height(o, n) => S(k) = S(n)  BY <1>10, <1>11
  <1>15. Level(o, k) = Level(o, n) => T(k) = T(n)  BY <1>10, <1>12
  <1>16. (\E j \in k + 1..n : HasBuilder(o[j])) => Height(o, k) < Height(o, n)
    <2>1. Height(o, k) # Height(o, n) => Height(o, k) < Height(o, n)  BY <1>10, <1>11
    <2> QED  BY <1>7, <1>14, <2>1
  <1>17. (\E j \in k + 1..n : o[j].kind = "def") => Level(o, k) < Level(o, n)
    <2>1. Level(o, k) # Level(o, n) => Level(o, k) < Level(o, n)  BY <1>10, <1>12
    <2> QED  BY <1>7, <1>15, <2>1
  <1> QED  BY <1>8, <1>9, <1>10, <1>13, <1>14, <1>16, <1>17

\* The places depend on the statements up to the k-th.
LEMMA IndexKept ==
  ASSUME NEW o, NEW p, NEW k \in Nat, \A j \in 1..k : o[j] = p[j]
  PROVE  Height(o, k) = Height(p, k) /\ Level(o, k) = Level(p, k)
  <1>1. {j \in 1..k : HasBuilder(o[j])} = {j \in 1..k : HasBuilder(p[j])}  OBVIOUS
  <1>2. {j \in 1..k : o[j].kind = "def"} = {j \in 1..k : p[j].kind = "def"}  OBVIOUS
  <1> QED  BY <1>1, <1>2 DEF Height, Level

\* The statement being generated has the top of both stacks.
LEMMA IndexTop ==
  ASSUME Inv, status = "unit"
  PROVE  /\ Height(open, Len(open)) = Len(builder) /\ Level(open, Len(open)) = Len(methods)
         /\ CodeAt(Len(open)) = Cur /\ FnAt(Len(open)) = Method.fn
         /\ FirstAt(Len(open)) = Method.first
  <1>1. /\ BuildersFit(builder, 1 + Cardinality(Building(open)), Len(blocks))
        /\ MethodsFit(methods, 1 + Cardinality(Defining(open)), Len(blocks))
    BY DEF Inv, StacksInv
  <1>2. Height(open, Len(open)) = Len(builder)  BY <1>1 DEF BuildersFit, Height, Building
  <1>3. Level(open, Len(open)) = Len(methods)  BY <1>1 DEF MethodsFit, Level, Defining
  <1> QED  BY <1>2, <1>3 DEF CodeAt, FnAt, FirstAt, Cur, Method

\* The same after a step.
LEMMA IndexTopNext ==
  ASSUME Inv', status' = "unit"
  PROVE  /\ Height(open', Len(open')) = Len(builder') /\ Level(open', Len(open')) = Len(methods')
         /\ CodeAt(Len(open))' = Cur' /\ FnAt(Len(open))' = Method'.fn
         /\ FirstAt(Len(open))' = Method'.first
  <1>1. /\ BuildersFit(builder, 1 + Cardinality(Building(open)), Len(blocks))'
        /\ MethodsFit(methods, 1 + Cardinality(Defining(open)), Len(blocks))'
    BY DEF Inv, StacksInv
  <1>2. Height(open', Len(open')) = Len(builder')  BY <1>1 DEF BuildersFit, Height, Building
  <1>3. Level(open', Len(open')) = Len(methods')  BY <1>1 DEF MethodsFit, Level, Defining
  <1> QED  BY <1>2, <1>3 DEF CodeAt, FnAt, FirstAt, Cur, Method

-----------------------------------------------------------------------------
(* Block by block, what an instruction, terminators and new blocks change. *)

LEMMA InstrAt ==
  ASSUME NEW bs \in Seq(BlockRec), NEW b
  PROVE  /\ Instr(bs, b) \in Seq(BlockRec) /\ Len(Instr(bs, b)) = Len(bs)
         /\ \A x \in 1..Len(bs) :
              /\ Instr(bs, b)[x].fn = bs[x].fn
              /\ Instr(bs, b)[x].closed = bs[x].closed
              /\ Instr(bs, b)[x].to = bs[x].to
              /\ Instr(bs, b)[x].polls = bs[x].polls
              /\ Instr(bs, b)[x].late <=> bs[x].late \/ (x = b /\ bs[x].closed)
  <1> DEFINE t == Instr(bs, b)
  <1>1. t \in Seq(BlockRec) /\ Len(t) = Len(bs)  BY InstrGrows DEF Grows
  <1> SUFFICES ASSUME NEW x \in 1..Len(bs)
               PROVE  /\ t[x].fn = bs[x].fn /\ t[x].closed = bs[x].closed /\ t[x].to = bs[x].to
                      /\ t[x].polls = bs[x].polls
                      /\ t[x].late <=> bs[x].late \/ (x = b /\ bs[x].closed)
    BY <1>1
  <1>2. bs[x] \in BlockRec  OBVIOUS
  <1>3. CASE x = b
    <2> DEFINE r == [bs[b] EXCEPT !.late = @ \/ bs[b].closed]
    <2>1. t[x] = r  BY <1>3 DEF Instr
    <2>2. r.fn = bs[b].fn /\ r.closed = bs[b].closed /\ r.to = bs[b].to /\ r.polls = bs[b].polls
          /\ r.late = (bs[b].late \/ bs[b].closed)
      BY <1>2, <1>3 DEF BlockRec
    <2> QED  BY <1>3, <2>1, <2>2
  <1>4. CASE x # b
    <2>1. t[x] = bs[x]  BY <1>4 DEF Instr
    <2> QED  BY <1>4, <2>1
  <1> QED  BY <1>3, <1>4

LEMMA TermAllAt ==
  ASSUME NEW bs \in Seq(BlockRec), NEW to, \A b \in DOMAIN to : to[b] \in SUBSET Nat
  PROVE  /\ TermAll(bs, to) \in Seq(BlockRec) /\ Len(TermAll(bs, to)) = Len(bs)
         /\ \A x \in 1..Len(bs) :
              /\ TermAll(bs, to)[x].fn = bs[x].fn
              /\ TermAll(bs, to)[x].polls = bs[x].polls
              /\ TermAll(bs, to)[x].closed <=> bs[x].closed \/ x \in DOMAIN to
              /\ TermAll(bs, to)[x].late <=> bs[x].late \/ (x \in DOMAIN to /\ bs[x].closed)
              /\ x \in DOMAIN to => TermAll(bs, to)[x].to = bs[x].to \cup to[x]
              /\ x \notin DOMAIN to => TermAll(bs, to)[x] = bs[x]
  <1> DEFINE t == TermAll(bs, to)
  <1>1. t \in Seq(BlockRec) /\ Len(t) = Len(bs)  BY TermAllGrows DEF Grows
  <1> SUFFICES ASSUME NEW x \in 1..Len(bs)
               PROVE  /\ t[x].fn = bs[x].fn /\ t[x].polls = bs[x].polls
                      /\ t[x].closed <=> bs[x].closed \/ x \in DOMAIN to
                      /\ t[x].late <=> bs[x].late \/ (x \in DOMAIN to /\ bs[x].closed)
                      /\ x \in DOMAIN to => t[x].to = bs[x].to \cup to[x]
                      /\ x \notin DOMAIN to => t[x] = bs[x]
    BY <1>1
  <1>2. bs[x] \in BlockRec /\ DOMAIN bs = 1..Len(bs)  OBVIOUS
  <1>3. CASE x \in DOMAIN to
    <2> DEFINE r == [bs[x] EXCEPT !.late = @ \/ bs[x].closed, !.closed = TRUE, !.to = @ \cup to[x]]
    <2>1. t[x] = r  BY <1>2, <1>3 DEF TermAll
    <2>2. r.fn = bs[x].fn /\ r.polls = bs[x].polls /\ r.closed = TRUE
          /\ r.late = (bs[x].late \/ bs[x].closed) /\ r.to = bs[x].to \cup to[x]
      BY <1>2 DEF BlockRec
    <2> QED  BY <1>3, <2>1, <2>2
  <1>4. CASE x \notin DOMAIN to
    <2>1. t[x] = bs[x]  BY <1>2, <1>4 DEF TermAll
    <2> QED  BY <1>4, <2>1
  <1> QED  BY <1>3, <1>4

LEMMA TermAt ==
  ASSUME NEW bs \in Seq(BlockRec), NEW b, NEW to \in SUBSET Nat
  PROVE  /\ Term(bs, b, to) \in Seq(BlockRec) /\ Len(Term(bs, b, to)) = Len(bs)
         /\ \A x \in 1..Len(bs) :
              /\ Term(bs, b, to)[x].fn = bs[x].fn
              /\ Term(bs, b, to)[x].polls = bs[x].polls
              /\ Term(bs, b, to)[x].closed <=> bs[x].closed \/ x = b
              /\ Term(bs, b, to)[x].late <=> bs[x].late \/ (x = b /\ bs[x].closed)
              /\ x = b => Term(bs, b, to)[x].to = bs[x].to \cup to
              /\ x # b => Term(bs, b, to)[x] = bs[x]
  <1> DEFINE f == [x \in {b} |-> to]
  <1>1. DOMAIN f = {b} /\ f[b] = to /\ \A x \in DOMAIN f : f[x] \in SUBSET Nat  OBVIOUS
  <1>2. Term(bs, b, to) = TermAll(bs, f)  BY DEF Term
  <1> HIDE DEF f
  <1>3. \A x : x \in DOMAIN f <=> x = b  BY <1>1
  <1> QED  BY <1>1, <1>2, <1>3, TermAllAt

\* A block that has just been appended.
Empty(r, fn) ==
  r.fn = fn /\ r.closed = FALSE /\ r.late = FALSE /\ r.to = {} /\ r.polls = FALSE

LEMMA NewBlockEmpty ==
  ASSUME NEW fn
  PROVE  Empty(NewBlock(fn), fn) /\ Empty([NewBlock(fn) EXCEPT !.pad = TRUE], fn)
  BY DEF NewBlock, Empty

LEMMA AppendAt ==
  ASSUME NEW bs \in Seq(BlockRec), NEW n \in Nat, Method.fn \in Fns
  PROVE  /\ AppendBlocks(bs, n) \in Seq(BlockRec) /\ Len(AppendBlocks(bs, n)) = Len(bs) + n
         /\ \A x \in 1..Len(bs) : AppendBlocks(bs, n)[x] = bs[x]
         /\ \A x \in Len(bs) + 1..Len(bs) + n : Empty(AppendBlocks(bs, n)[x], Method.fn)
  <1> DEFINE new == [i \in 1..n |-> NewBlock(Method.fn)]
             t == AppendBlocks(bs, n)
  <1>1. new \in Seq(BlockRec) /\ Len(new) = n  BY NewBlockType
  <1>2. \A i \in 1..n : new[i] = NewBlock(Method.fn)  OBVIOUS
  <1>3. t = bs \o new  BY DEF AppendBlocks
  <1> HIDE DEF new, t
  <1>4. /\ bs \o new \in Seq(BlockRec) /\ Len(bs \o new) = Len(bs) + Len(new)
        /\ \A x \in 1..Len(bs) : (bs \o new)[x] = bs[x]
        /\ \A i \in 1..Len(new) : (bs \o new)[Len(bs) + i] = new[i]
    BY <1>1
  <1>5. ASSUME NEW x \in Len(bs) + 1..Len(bs) + n
        PROVE  Empty(t[x], Method.fn)
    <2>1. x - Len(bs) \in 1..n /\ Len(bs) + (x - Len(bs)) = x  OBVIOUS
    <2>2. t[x] = NewBlock(Method.fn)  BY <1>1, <1>2, <1>3, <1>4, <2>1
    <2> QED  BY <2>2, NewBlockEmpty
  <1> QED  BY <1>1, <1>3, <1>4, <1>5 DEF t

-----------------------------------------------------------------------------
(* What a step of the walk does to the blocks and to the stacks.           *)

\* bs is the code with terminators in the blocks of C, with successors in R, with
\* instructions after the terminators of the blocks of L, and with new blocks of
\* function fn.
Written(bs, fn, C, L, R) ==
  /\ bs \in Seq(BlockRec) /\ Len(blocks) <= Len(bs)
  /\ \A b \in Blocks :
       /\ bs[b].fn = blocks[b].fn
       /\ bs[b].closed <=> blocks[b].closed \/ b \in C
       /\ bs[b].late <=> blocks[b].late \/ b \in L
       /\ blocks[b].to \subseteq bs[b].to
       /\ \A c \in bs[b].to : c \in blocks[b].to \/ (b \in C /\ c \in R)
  /\ \A b \in Len(blocks) + 1..Len(bs) : Empty(bs[b], fn)

\* What a step writes; new blocks belong to the method that it leads to.
Built(C, L, R) == Written(blocks', Method'.fn, C, L, R)

\* All open statements but the last, or all, stay as they are, and what is on
\* the stacks below the top.
Kept(m) ==
  /\ m \in Nat /\ m >= 1 /\ m <= Len(open) /\ Len(open) <= m + 1
  /\ m <= Len(open') /\ Len(open') <= m + 1
  /\ \A k \in 1..m : open'[k] = open[k]
  /\ \A i \in 1..Len(builder) : i < Len(builder') => builder'[i] = builder[i]
  /\ \A i \in 1..Len(methods) : i <= Len(methods') =>
       methods'[i].fn = methods[i].fn /\ methods'[i].first = methods[i].first

LEMMA KeptIndex ==
  ASSUME NEW m, Kept(m), NEW k \in 0..m
  PROVE  Height(open', k) = Height(open, k) /\ Level(open', k) = Level(open, k)
  <1>1. k \in Nat /\ \A j \in 1..k : open'[j] = open[j]  BY DEF Kept
  <1> QED  BY <1>1, IndexKept

\* Where the statements that stay are: in the same method, and their code goes on
\* where it was or, if they share the builder of the last statement, where that
\* now is.
LEMMA KeptPlaces ==
  ASSUME Inv, Inv', status = "unit", status' = "unit", NEW m, Kept(m), NEW k \in 1..m
  PROVE  /\ Level(open, k) \in 1..Len(methods) /\ Level(open, k) \in 1..Len(methods')
         /\ Height(open, k) \in 1..Len(builder) /\ Height(open, k) \in 1..Len(builder')
         /\ FnAt(k)' = FnAt(k) /\ FirstAt(k)' = FirstAt(k)
         /\ \/ CodeAt(k)' = CodeAt(k) /\ Height(open, k) < Len(builder')
            \/ /\ CodeAt(k)' = Cur' /\ Height(open, k) = Len(builder')
               /\ FnAt(k) = Method'.fn /\ FirstAt(k) = Method'.first
         /\ HasBuilder(open[k]) =>
              /\ Height(open, k - 1) \in Nat /\ Height(open, k - 1) = Height(open, k) - 1
              /\ CodeAt(k - 1)' = CodeAt(k - 1)
  <1> DEFINE n == Len(open)
             n1 == Len(open')
             h == Height(open, k)
             l == Level(open, k)
  <1>1. n \in Nat /\ n1 \in Nat /\ m \in Nat /\ m <= n /\ m <= n1  BY DEF Inv, TypeInv, Kept
  <1>2. k \in Nat /\ k >= 1 /\ k <= n /\ k <= n1  BY <1>1
  <1>3. Height(open', k) = h /\ Level(open', k) = l  BY <1>1, KeptIndex
  <1>4. /\ Height(open, n) = Len(builder) /\ Level(open, n) = Len(methods)  BY IndexTop
  <1>5. /\ Height(open', n1) = Len(builder') /\ Level(open', n1) = Len(methods')
    BY IndexTopNext
  <1>6. h \in Nat /\ h >= 1 /\ l \in Nat /\ l >= 1  BY <1>2, IndexStep
  <1>7. h <= Len(builder) /\ l <= Len(methods)
    <2>1. Height(open, k) <= Height(open, n) /\ Level(open, k) <= Level(open, n)
      BY <1>1, <1>2, IndexOrder
    <2> QED  BY <1>4, <2>1
  <1>8. /\ h <= Len(builder') /\ l <= Len(methods')
        /\ h = Len(builder') => l = Len(methods')
    <2>1. /\ Height(open', k) <= Height(open', n1) /\ Level(open', k) <= Level(open', n1)
          /\ Height(open', k) = Height(open', n1) => Level(open', k) = Level(open', n1)
      BY <1>1, <1>2, IndexOrder
    <2> QED  BY <1>3, <1>5, <2>1
  <1>9. Len(builder) \in Nat /\ Len(builder') \in Nat /\ Len(methods) \in Nat /\ Len(methods') \in Nat
    BY DEF Inv, TypeInv
  <1>10. /\ l \in 1..Len(methods) /\ l \in 1..Len(methods')
         /\ h \in 1..Len(builder) /\ h \in 1..Len(builder')
    BY <1>6, <1>7, <1>8, <1>9
  <1>11. methods'[l].fn = methods[l].fn /\ methods'[l].first = methods[l].first
    BY <1>8, <1>10 DEF Kept
  <1>12. FnAt(k)' = FnAt(k) /\ FirstAt(k)' = FirstAt(k)
    BY <1>3, <1>11 DEF FnAt, FirstAt
  <1>13. CodeAt(k)' = builder'[h] /\ CodeAt(k) = builder[h]  BY <1>3 DEF CodeAt
  <1>14. CASE h < Len(builder')
    <2>1. CodeAt(k)' = CodeAt(k)  BY <1>10, <1>13, <1>14 DEF Kept
    <2> QED
      <3>1. ASSUME HasBuilder(open[k])
            PROVE  /\ Height(open, k - 1) \in Nat /\ Height(open, k - 1) = h - 1
                   /\ CodeAt(k - 1)' = CodeAt(k - 1)
        <4>1. k - 1 \in Nat /\ (k - 1) + 1 = k /\ k - 1 \in 0..m  BY <1>1, <1>2
        <4>2. Height(open, k - 1) \in Nat /\ Height(open, k - 1) >= 1
              /\ Height(open, k) = Height(open, k - 1) + (IF HasBuilder(open[k]) THEN 1 ELSE 0)
          BY <4>1, IndexStep
        <4>3. Height(open, k - 1) = h - 1  BY <3>1, <4>2
        <4>4. Height(open', k - 1) = h - 1  BY <4>1, <4>3, KeptIndex
        <4>5. h - 1 \in 1..Len(builder) /\ h - 1 < Len(builder')  BY <1>9, <1>10, <4>2, <4>3
        <4>6. builder'[h - 1] = builder[h - 1]  BY <4>5 DEF Kept
        <4> QED  BY <4>2, <4>3, <4>4, <4>6 DEF CodeAt
      <3> QED  BY <1>10, <1>12, <1>14, <2>1, <3>1
  <1>15. CASE h = Len(builder')
    <2>1. l = Len(methods')  BY <1>8, <1>15
    <2>2. CodeAt(k)' = Cur'  BY <1>13, <1>15 DEF Cur
    <2>3. FnAt(k)' = Method'.fn /\ FirstAt(k)' = Method'.first
      BY <1>3, <2>1 DEF FnAt, FirstAt, Method
    <2>4. ASSUME HasBuilder(open[k])
          PROVE  /\ Height(open, k - 1) \in Nat /\ Height(open, k - 1) = h - 1
                 /\ CodeAt(k - 1)' = CodeAt(k - 1)
      <4>1. k - 1 \in Nat /\ (k - 1) + 1 = k /\ k - 1 \in 0..m  BY <1>1, <1>2
      <4>2. Height(open, k - 1) \in Nat /\ Height(open, k - 1) >= 1
            /\ Height(open, k) = Height(open, k - 1) + (IF HasBuilder(open[k]) THEN 1 ELSE 0)
        BY <4>1, IndexStep
      <4>3. Height(open, k - 1) = h - 1  BY <2>4, <4>2
      <4>4. Height(open', k - 1) = h - 1  BY <4>1, <4>3, KeptIndex
      <4>5. h - 1 \in 1..Len(builder) /\ h - 1 < Len(builder')  BY <1>9, <1>10, <4>2, <4>3
      <4>6. builder'[h - 1] = builder[h - 1]  BY <4>5 DEF Kept
      <4> QED  BY <4>2, <4>3, <4>4, <4>6 DEF CodeAt
    <2> QED  BY <1>10, <1>12, <1>15, <2>2, <2>3, <2>4
  <1>16. h < Len(builder') \/ h = Len(builder')  BY <1>9, <1>10
  <1> QED  BY <1>14, <1>15, <1>16

-----------------------------------------------------------------------------
(* A step of the walk takes blocks only from the last statement's: those    *)
(* that wait for statements around it are neither used nor terminated.      *)

\* Blocks that the step can have: new ones, the current one, and those that
\* wait for the last statement if that does not stay as it is.
Pool(m, b) ==
  b > Len(blocks) \/ b = Cur \/ (Len(open) = m + 1 /\ Pend(Len(open), b))

LEMMA WaitsOwned ==
  ASSUME NEW f \in FrameRec, f.kind # "unit", NEW b, Waits(f, b)
  PROVE  Owned(f, b)
  <1>1. f.base \in Nat  BY DEF FrameRec
  <1>2. CASE f.kind = "if"
    <2>1. b \in f.base..f.base + 3  BY <1>1, <1>2 DEF Waits, InBody, Handling
    <2> QED  BY <1>2, <2>1 DEF Owned
  <1>3. CASE f.kind = "while"
    <2>1. b \in f.base..f.base + 2  BY <1>1, <1>3 DEF Waits, InBody, Handling
    <2> QED  BY <1>3, <2>1 DEF Owned
  <1>4. CASE f.kind = "begin"  BY <1>4 DEF Waits, InBody, Handling, Owned
  <1> QED  BY <1>2, <1>3, <1>4 DEF Waits, InBody, Handling

LEMMA PendBlock ==
  ASSUME Inv, OwnInv, status = "unit", NEW k \in 1..Len(open), NEW b, Pend(k, b)
  PROVE  b \in Blocks
  <1>1. open[k] \in FrameRec /\ OwnAt(k)  BY DEF Inv, TypeInv, OwnInv
  <1>2. CASE open[k].kind = "unit" /\ b = 1
    <2>1. Cur \in 1..Len(blocks) /\ Len(blocks) \in Nat  BY Heights DEF Inv, TypeInv
    <2> QED  BY <1>2, <2>1 DEF Blocks
  <1>3. CASE Waits(open[k], b) /\ open[k].kind # "unit"
    <2>1. Owned(open[k], b)  BY <1>1, <1>3, WaitsOwned
    <2> QED  BY <1>1, <2>1 DEF OwnAt
  <1>4. CASE (open[k].kind = "def" \/ Handling(open[k])) /\ b = CodeAt(k - 1)
    <2>1. k # 1  BY <1>4 DEF Inv, StacksInv, Handling
    <2>2. k - 1 \in 1..Len(open)  BY <2>1 DEF Inv, TypeInv
    <2> QED  BY <1>4, <2>2 DEF OwnInv, OwnAt
  <1>5. CASE Handling(open[k]) /\ b \in Done(open[k])
    <2>1. Owned(open[k], b)  BY <1>5 DEF Handling, Done, Owned
    <2> QED  BY <1>1, <2>1 DEF OwnAt
  <1> QED  BY <1>2, <1>3, <1>4, <1>5 DEF Pend, Waits, InBody, Handling

LEMMA PoolApart ==
  ASSUME Inv, OwnInv, WaitInv, status = "unit",
         NEW m \in Nat, m <= Len(open), NEW k \in 1..m, NEW b, Pend(k, b)
  PROVE  b \in Blocks /\ ~blocks[b].closed /\ ~Pool(m, b)
  <1>1. Len(open) \in Nat /\ Len(blocks) \in Nat  BY DEF Inv, TypeInv
  <1>2. k \in 1..Len(open) /\ Len(open) > 0  BY <1>1
  <1>3. b \in Blocks  BY <1>2, PendBlock
  <1>4. /\ ~blocks[b].closed /\ b # Cur
        /\ \A j \in 1..Len(open) : Pend(j, b) => j = k
    BY <1>2 DEF WaitInv
  <1>5. ~(b > Len(blocks))  BY <1>1, <1>3 DEF Blocks
  <1>6. ~(Len(open) = m + 1 /\ Pend(Len(open), b))
    <2> SUFFICES ASSUME Len(open) = m + 1, Pend(Len(open), b) PROVE FALSE  OBVIOUS
    <2>1. Len(open) \in 1..Len(open)  BY <1>1, <1>2
    <2>2. Len(open) = k  BY <1>4, <2>1
    <2> QED  BY <2>2
  <1> QED  BY <1>3, <1>4, <1>5, <1>6 DEF Pool

LEMMA PendKept ==
  ASSUME Inv, Inv', OwnInv, status = "unit", status' = "unit", NEW m, Kept(m),
         NEW C, NEW L, NEW R, Built(C, L, R), NEW k \in 1..m, NEW b
  PROVE  /\ Pend(k, b)' => Pend(k, b)
         /\ Pend(k, b) /\ ~blocks'[b].closed => Pend(k, b)'
  <1>1. open'[k] = open[k]  BY DEF Kept
  <1>2. k \in 1..Len(open)  BY DEF Kept, Inv, TypeInv
  <1>3. (open[k].kind = "def" \/ Handling(open[k])) => CodeAt(k - 1)' = CodeAt(k - 1)
    <2>1. (open[k].kind = "def" \/ Handling(open[k])) => HasBuilder(open[k])
      BY DEF Handling, HasBuilder
    <2> QED  BY <2>1, KeptPlaces
  <1>4. ASSUME Handling(open[k]), b \in Done(open[k])
        PROVE  /\ blocks[b].closed => blocks'[b].closed
    <2>1. Owned(open[k], b)  BY <1>4 DEF Handling, Done, Owned
    <2>2. b \in Blocks  BY <1>2, <2>1 DEF OwnInv, OwnAt
    <2> QED  BY <2>2 DEF Built, Written
  <1>5. Waits(open'[k], b) = Waits(open[k], b) /\ Handling(open'[k]) = Handling(open[k])
        /\ open'[k].kind = open[k].kind /\ Done(open'[k]) = Done(open[k])
    BY <1>1
  <1>6. Pend(k, b)' <=> \/ Waits(open[k], b)
                        \/ (open[k].kind = "def" \/ Handling(open[k])) /\ b = CodeAt(k - 1)'
                        \/ Handling(open[k]) /\ b \in Done(open[k]) /\ ~blocks'[b].closed
    BY <1>1 DEF Pend
  <1>7. Pend(k, b) <=> \/ Waits(open[k], b)
                       \/ (open[k].kind = "def" \/ Handling(open[k])) /\ b = CodeAt(k - 1)
                       \/ Handling(open[k]) /\ b \in Done(open[k]) /\ ~blocks[b].closed
    BY DEF Pend
  <1> QED  BY <1>3, <1>4, <1>6, <1>7

\* Terminators go into blocks in hand, and the code goes on in one of them.  The
\* others still wait for a terminator, and wait for the last statement.
Hands(m, C) ==
  /\ \A b \in C : /\ b \in Blocks /\ blocks[b].fn = Method.fn
                  /\ blocks[b].closed \/ Pool(m, b)
  /\ ~blocks'[Cur'].closed /\ Pool(m, Cur')
  /\ Len(open') = m + 1 =>
       \A b : Pend(Len(open), b)' => ~blocks'[b].closed /\ b # Cur' /\ Pool(m, b)
  /\ \A b \in Blocks' :
       ~blocks'[b].closed /\ Pool(m, b) /\ "clause" \notin causes'[blocks'[b].fn] =>
         b = Cur' \/ (Len(open') = m + 1 /\ Pend(Len(open), b)')

LEMMA WaitStep ==
  ASSUME Inv, Inv', OwnInv, WaitInv, status = "unit", status' = "unit", NEW m, Kept(m),
         NEW C, NEW L, NEW R, Built(C, L, R), Hands(m, C)
  PROVE  WaitInv'
  <1>1. /\ Len(open) \in Nat /\ Len(open') \in Nat /\ m \in Nat /\ m >= 1
        /\ m <= Len(open) /\ m <= Len(open') /\ Len(open') <= m + 1
    BY DEF Inv, TypeInv, Kept
  <1>2. ASSUME NEW k \in 1..m, NEW b, Pend(k, b)'
        PROVE  Pend(k, b) /\ b \in Blocks /\ ~blocks[b].closed /\ ~Pool(m, b)
    <2>1. Pend(k, b)  BY <1>2, PendKept
    <2> QED  BY <1>1, <2>1, PoolApart
  <1>3. \A k \in 1..Len(open') : k \in 1..m \/ (k = Len(open') /\ Len(open') = m + 1)
    BY <1>1
  <1>4. ASSUME NEW k \in 1..m, NEW b, Pend(k, b)'
        PROVE  /\ ~blocks'[b].closed /\ b # Cur'
               /\ \A j \in 1..Len(open') : Pend(j, b)' => j = k
    <2>1. Pend(k, b) /\ b \in Blocks /\ ~blocks[b].closed /\ ~Pool(m, b)  BY <1>2, <1>4
    <2>2. b \notin C  BY <2>1 DEF Hands
    <2>3. ~blocks'[b].closed  BY <2>1, <2>2 DEF Built, Written
    <2>4. b # Cur'  BY <2>1 DEF Hands
    <2>5. ASSUME NEW j \in 1..Len(open'), Pend(j, b)' PROVE j = k
      <3>1. CASE j \in 1..m
        <4>1. Pend(j, b)  BY <2>5, <3>1, PendKept
        <4>2. j \in 1..Len(open) /\ k \in 1..Len(open) /\ Len(open) > 0  BY <1>1, <3>1
        <4> QED  BY <2>1, <4>1, <4>2 DEF WaitInv
      <3>2. CASE j = Len(open') /\ Len(open') = m + 1
        <4>1. Pool(m, b)  BY <2>5, <3>2 DEF Hands
        <4> QED  BY <2>1, <4>1
      <3> QED  BY <1>3, <3>1, <3>2
    <2> QED  BY <2>3, <2>4, <2>5
  <1>5. ASSUME NEW k, k = Len(open'), Len(open') = m + 1, NEW b, Pend(k, b)'
        PROVE  /\ ~blocks'[b].closed /\ b # Cur'
               /\ \A j \in 1..Len(open') : Pend(j, b)' => j = k
    <2>0. Pend(Len(open), b)'  BY <1>5
    <2>1. ~blocks'[b].closed /\ b # Cur' /\ Pool(m, b)  BY <1>5, <2>0 DEF Hands
    <2>2. ASSUME NEW j \in 1..Len(open'), Pend(j, b)' PROVE j = k
      <3>1. ~(j \in 1..m)  BY <1>2, <2>1, <2>2
      <3> QED  BY <1>3, <1>5, <3>1
    <2> QED  BY <2>1, <2>2
  <1>6. ~blocks'[Cur'].closed  BY DEF Hands
  <1> QED  BY <1>3, <1>4, <1>5, <1>6 DEF WaitInv

\* Causes are only added.
Blames == \A f \in Fns : causes[f] \subseteq causes'[f]

LEMMA UnclosedStep ==
  ASSUME Inv, Inv', OwnInv, WaitInv, UnclosedInv, status = "unit", status' = "unit",
         NEW m, Kept(m), NEW C, NEW L, NEW R, Built(C, L, R), Hands(m, C), Blames
  PROVE  UnclosedInv'
  <1>1. /\ Len(open) \in Nat /\ Len(open') \in Nat /\ m \in Nat /\ m >= 1
        /\ m <= Len(open) /\ m <= Len(open') /\ Len(open') <= m + 1 /\ Len(open) <= m + 1
        /\ Len(blocks) \in Nat /\ Len(blocks') \in Nat
    BY DEF Inv, TypeInv, Kept
  <1> SUFFICES ASSUME NEW b \in Blocks', ~blocks'[b].closed,
                      "clause" \notin causes'[blocks'[b].fn]
               PROVE  Len(open') > 0 /\ (b = Cur' \/ \E k \in 1..Len(open') : Pend(k, b)')
    BY DEF UnclosedInv
  <1>2. ASSUME Pool(m, b) PROVE b = Cur' \/ \E k \in 1..Len(open') : Pend(k, b)'
    <2>1. b = Cur' \/ (Len(open') = m + 1 /\ Pend(Len(open), b)')  BY <1>2 DEF Hands
    <2>2. Len(open') \in 1..Len(open')  BY <1>1
    <2> QED  BY <2>1, <2>2
  <1>3. CASE b \in Blocks
    <2>1. ~blocks[b].closed /\ blocks'[b].fn = blocks[b].fn  BY <1>3 DEF Built, Written
    <2>2. blocks[b].fn \in Fns
      <3>1. blocks[b] \in BlockRec  BY <1>3 DEF Inv, TypeInv, Blocks
      <3> QED  BY <3>1 DEF BlockRec
    <2>3. "clause" \notin causes[blocks[b].fn]  BY <2>1, <2>2 DEF Blames
    <2>4. b = Cur \/ \E k \in 1..Len(open) : Pend(k, b)  BY <1>3, <2>1, <2>3 DEF UnclosedInv
    <2>5. ASSUME NEW k \in 1..m, Pend(k, b) PROVE k \in 1..Len(open') /\ Pend(k, b)'
      <3>1. Pend(k, b) /\ ~blocks'[b].closed => Pend(k, b)'  BY PendKept
      <3> QED  BY <1>1, <2>5, <3>1
    <2>6. \A k \in 1..Len(open) : k \in 1..m \/ (k = Len(open) /\ Len(open) = m + 1)  BY <1>1
    <2>7. Pool(m, b) \/ \E k \in 1..m : Pend(k, b)  BY <2>4, <2>6 DEF Pool
    <2> QED  BY <1>1, <1>2, <2>5, <2>7
  <1>4. CASE b \notin Blocks
    <2>1. b > Len(blocks)  BY <1>1, <1>4 DEF Blocks
    <2> QED  BY <1>1, <1>2, <2>1 DEF Pool
  <1> QED  BY <1>3, <1>4

-----------------------------------------------------------------------------
(* What else a step has to keep.                                           *)

\* Methods are numbered as they are opened, and a method's first block is its own.
Numbers ==
  /\ blocks'[Cur'].fn = Method'.fn
  /\ \/ serial' = serial /\ Len(methods') <= Len(methods)
     \/ /\ serial' = serial + 1 /\ Len(methods') = Len(methods) + 1
        /\ Method'.fn = serial + 1 /\ blocks'[Method'.first].fn = Method'.fn

LEMMA FnStep ==
  ASSUME Inv, Inv', FnInv, status = "unit", status' = "unit", NEW m, Kept(m), Numbers
  PROVE  FnInv'
  <1>1. /\ Len(methods) \in Nat /\ Len(methods') \in Nat /\ serial \in Nat
        /\ \A i \in 1..Len(methods) : methods[i].fn \in Nat
    <2>1. \A i \in 1..Len(methods) : methods[i] \in MethodRec  BY DEF Inv, TypeInv
    <2>2. Fns \subseteq Nat  BY BoundsAssumption DEF Fns, PupMain, CMain
    <2>3. \A i \in 1..Len(methods) : methods[i].fn \in Nat  BY <2>1, <2>2 DEF MethodRec
    <2>4. Len(methods) \in Nat /\ Len(methods') \in Nat /\ serial \in Nat
      BY BoundsAssumption DEF Inv, TypeInv
    <2> QED  BY <2>3, <2>4
  <1>2. \A i \in 1..Len(methods') : i \in 1..Len(methods) => methods'[i].fn = methods[i].fn
    BY <1>1 DEF Kept
  <1>0. Len(methods') > 0 => methods'[1].first = 1
    <2> SUFFICES ASSUME Len(methods') > 0 PROVE methods'[1].first = 1  OBVIOUS
    <2>1. Len(methods) >= 1  BY Heights DEF Inv
    <2>2. 1 \in 1..Len(methods) /\ 1 <= Len(methods')  BY <1>1, <2>1
    <2> QED  BY <2>1, <2>2, <1>1 DEF Kept, FnInv
  <1>3. CASE serial' = serial /\ Len(methods') <= Len(methods)
    <2>1. \A i \in 1..Len(methods') : i \in 1..Len(methods)  BY <1>1, <1>3
    <2> QED  BY <1>0, <1>2, <1>3, <2>1 DEF FnInv
  <1>4. CASE /\ serial' = serial + 1 /\ Len(methods') = Len(methods) + 1
             /\ Method'.fn = serial + 1
    <2>1. \A i \in 1..Len(methods') : i \in 1..Len(methods) \/ i = Len(methods')  BY <1>1, <1>4
    <2>2. methods'[Len(methods')].fn = serial + 1  BY <1>4 DEF Method
    <2>3. \A i \in 1..Len(methods) : methods[i].fn <= serial /\ methods[i].fn # serial + 1
      BY <1>1 DEF FnInv
    <2>4. \A i \in 1..Len(methods') : methods'[i].fn <= serial'
      BY <1>1, <1>2, <1>4, <2>1, <2>2, <2>3
    <2>5. \A i, j \in 1..Len(methods') : methods'[i].fn = methods'[j].fn => i = j
      BY <1>2, <2>1, <2>2, <2>3 DEF FnInv
    <2> QED  BY <1>0, <2>4, <2>5 DEF FnInv
  <1> QED  BY <1>3, <1>4 DEF Numbers

LEMMA OwnStep ==
  ASSUME Inv, Inv', OwnInv, status = "unit", status' = "unit", NEW m, Kept(m),
         NEW C, NEW L, NEW R, Built(C, L, R), Numbers,
         Len(open') = m + 1 => \A b : Owned(open'[m + 1], b) =>
                                        b \in Blocks' /\ blocks'[b].fn = Method'.fn
  PROVE  OwnInv'
  <1>1. /\ Len(open) \in Nat /\ Len(open') \in Nat /\ m \in Nat /\ m >= 1
        /\ m <= Len(open) /\ m <= Len(open') /\ Len(open') <= m + 1
        /\ Len(methods) \in Nat /\ Len(methods') \in Nat
        /\ Len(blocks) \in Nat /\ Len(blocks') \in Nat /\ Len(blocks) <= Len(blocks')
    BY DEF Inv, TypeInv, Kept, Built, Written
  <1>2. Cur' \in Blocks' /\ Method'.first \in Blocks'
    <2>1. /\ Len(builder') \in Nat /\ Len(builder') >= 1 /\ Len(methods') >= 1
      <3>1. Len(open') \in Nat  BY <1>1
      <3>2. Height(open', Len(open')) >= 1 /\ Level(open', Len(open')) >= 1  BY <3>1, IndexStep
      <3> QED  BY <3>2, IndexTopNext DEF Inv, TypeInv
    <2>2. /\ BuildersFit(builder, 1 + Cardinality(Building(open)), Len(blocks))'
          /\ MethodsFit(methods, 1 + Cardinality(Defining(open)), Len(blocks))'
      BY DEF Inv, StacksInv
    <2>3. builder'[Len(builder')] \in 1..Len(blocks')  BY <2>1, <2>2 DEF BuildersFit
    <2>4. methods'[Len(methods')].first \in 1..Len(blocks')  BY <1>1, <2>1, <2>2 DEF MethodsFit
    <2> QED  BY <2>3, <2>4 DEF Cur, Method, Blocks
  <1>3. \A b \in Blocks : b \in Blocks' /\ blocks'[b].fn = blocks[b].fn
    BY <1>1 DEF Built, Written, Blocks
  <1>4. ASSUME NEW i \in 1..Len(methods')
        PROVE  methods'[i].first \in Blocks' /\ blocks'[methods'[i].first].fn = methods'[i].fn
    <2>1. CASE i \in 1..Len(methods)
      <3>1. methods'[i].first = methods[i].first /\ methods'[i].fn = methods[i].fn
        BY <1>1, <2>1 DEF Kept
      <3> QED  BY <1>3, <2>1, <3>1 DEF OwnInv
    <2>2. CASE i \notin 1..Len(methods)
      <3>1. Len(methods') = Len(methods) + 1 /\ blocks'[Method'.first].fn = Method'.fn
        BY <1>1, <2>2 DEF Numbers
      <3>2. i = Len(methods')  BY <1>1, <2>2, <3>1
      <3> QED  BY <1>2, <3>1, <3>2 DEF Method
    <2> QED  BY <2>1, <2>2
  <1>5. ASSUME NEW k \in 1..m PROVE OwnAt(k)'
    <2>1. /\ FnAt(k)' = FnAt(k)
          /\ CodeAt(k)' = CodeAt(k) \/ (CodeAt(k)' = Cur' /\ FnAt(k) = Method'.fn)
      BY KeptPlaces
    <2>2. OwnAt(k) /\ open'[k] = open[k]  BY <1>1 DEF OwnInv, Kept
    <2>3. CodeAt(k)' \in Blocks' /\ blocks'[CodeAt(k)'].fn = FnAt(k)
      BY <1>2, <1>3, <2>1, <2>2 DEF OwnAt, Numbers
    <2>4. \A b : Owned(open'[k], b) => b \in Blocks' /\ blocks'[b].fn = FnAt(k)
      BY <1>3, <2>2 DEF OwnAt
    <2> QED  BY <2>1, <2>3, <2>4 DEF OwnAt
  <1>6. ASSUME Len(open') = m + 1 PROVE OwnAt(Len(open))'
    <2>1. CodeAt(Len(open))' = Cur' /\ FnAt(Len(open))' = Method'.fn  BY IndexTopNext
    <2> QED  BY <1>2, <1>6, <2>1 DEF OwnAt, Numbers
  <1>7. \A k \in 1..Len(open') : k \in 1..m \/ (k = Len(open') /\ Len(open') = m + 1)
    BY <1>1
  <1>8. \A k \in 1..Len(open') : OwnAt(k)'  BY <1>5, <1>6, <1>7
  <1> QED  BY <1>1, <1>4, <1>8 DEF OwnInv

\* Where a statement's code goes on in another block, its old one is left.
Leaves(m) ==
  \A k \in 1..m : Height(open, k) = Len(builder') =>
    CodeAt(k) = Cur' \/ (blocks'[CodeAt(k)].closed /\ Cur' > Method'.first)

LEMMA ClauseStep ==
  ASSUME Inv, Inv', OwnInv, WaitInv, ClauseInv, status = "unit", status' = "unit",
         NEW m, Kept(m), NEW C, NEW L, NEW R, Built(C, L, R), Hands(m, C), Blames, Leaves(m),
         Len(open') = m + 1 => ClauseAt(Len(open))'
  PROVE  ClauseInv'
  <1>1. /\ Len(open) \in Nat /\ Len(open') \in Nat /\ m \in Nat /\ m >= 1
        /\ m <= Len(open) /\ m <= Len(open') /\ Len(open') <= m + 1
    BY DEF Inv, TypeInv, Kept
  <1>2. ASSUME NEW k \in 1..m PROVE ClauseAt(k)'
    <2>1. open'[k] = open[k] /\ k \in 1..Len(open) /\ ClauseAt(k)  BY <1>1 DEF Kept, ClauseInv
    <2>2. HasBuilder(open[k]) => CodeAt(k - 1)' = CodeAt(k - 1)  BY KeptPlaces
    <2>3. ASSUME open[k].kind \in {"if", "while"} PROVE blocks'[CodeAt(k - 1)'].closed
      <3>1. HasBuilder(open[k]) /\ k # 1  BY <2>1, <2>3 DEF HasBuilder, Inv, StacksInv
      <3>2. k - 1 \in 1..Len(open)  BY <1>1, <3>1
      <3>3. CodeAt(k - 1) \in Blocks  BY <3>2 DEF OwnInv, OwnAt
      <3>4. blocks[CodeAt(k - 1)].closed  BY <2>1, <2>3 DEF ClauseAt
      <3>5. blocks'[CodeAt(k - 1)].closed  BY <3>3, <3>4 DEF Built, Written
      <3> QED  BY <2>2, <3>1, <3>5
    <2>4. ASSUME Handling(open[k])
          PROVE  /\ open[k].begin_block = CodeAt(k - 1)' /\ CodeAt(k - 1)' = CodeAt(k - 1)
                 /\ open[k].hole = "clause" =>
                      open[k].bkrescue = CodeAt(k)' \/ blocks'[open[k].bkrescue].closed
                 /\ \A b \in Done(open[k]) :
                      blocks'[b].closed => "clause" \in causes'[FnAt(k)']
      <3>1. HasBuilder(open[k])  BY <2>4 DEF Handling, HasBuilder
      <3>2. open[k].begin_block = CodeAt(k - 1)'  BY <2>1, <2>2, <2>4, <3>1 DEF ClauseAt
      <3>3. ASSUME open[k].hole = "clause"
            PROVE  open[k].bkrescue = CodeAt(k)' \/ blocks'[open[k].bkrescue].closed
        <4>1. /\ open[k].bkrescue \in open[k].rescue_impls
              /\ open[k].bkrescue = CodeAt(k) \/ blocks[open[k].bkrescue].closed
          BY <2>1, <2>4, <3>3 DEF ClauseAt
        <4>2. Owned(open[k], open[k].bkrescue)  BY <2>4, <4>1 DEF Owned, Handling
        <4>3. open[k].bkrescue \in Blocks  BY <2>1, <4>2 DEF OwnInv, OwnAt
        <4>4. CASE blocks[open[k].bkrescue].closed  BY <4>3, <4>4 DEF Built, Written
        <4>5. CASE open[k].bkrescue = CodeAt(k)
          <5>1. \/ CodeAt(k)' = CodeAt(k)
                \/ CodeAt(k)' = Cur' /\ Height(open, k) = Len(builder')
            BY KeptPlaces
          <5> QED  BY <4>5, <5>1 DEF Leaves
        <4> QED  BY <4>1, <4>4, <4>5
      <3>4. ASSUME NEW b \in Done(open[k]), blocks'[b].closed
            PROVE  "clause" \in causes'[FnAt(k)']
        <4>1. Owned(open[k], b)  BY <2>4 DEF Owned, Handling, Done
        <4>2. b \in Blocks /\ blocks[b].fn = FnAt(k)  BY <2>1, <4>1 DEF OwnInv, OwnAt
        <4>3. blocks[b].closed
          <5> SUFFICES ASSUME ~blocks[b].closed PROVE FALSE  OBVIOUS
          <5>1. Pend(k, b)  BY <2>4 DEF Pend
          <5>2. ~Pool(m, b)  BY <1>1, <5>1, PoolApart
          <5>3. b \in C  BY <3>4, <4>2 DEF Built, Written
          <5> QED  BY <5>2, <5>3 DEF Hands
        <4>4. "clause" \in causes[FnAt(k)]  BY <2>1, <2>4, <4>3 DEF ClauseAt
        <4>5. FnAt(k) \in Fns
          <5>1. blocks[b] \in BlockRec  BY <4>2 DEF Inv, TypeInv, Blocks
          <5> QED  BY <4>2, <5>1 DEF BlockRec
        <4>6. FnAt(k)' = FnAt(k)  BY KeptPlaces
        <4> QED  BY <4>4, <4>5, <4>6 DEF Blames
      <3> QED  BY <2>2, <3>1, <3>2, <3>3, <3>4
    <2> QED  BY <2>1, <2>3, <2>4 DEF ClauseAt
  <1>3. \A k \in 1..Len(open') : k \in 1..m \/ (k = Len(open') /\ Len(open') = m + 1)
    BY <1>1
  <1>4. \A k \in 1..Len(open') : ClauseAt(k)'  BY <1>2, <1>3
  <1> QED  BY <1>4 DEF ClauseInv

\* A method is left as its first block gets its terminator; no other method is.
Lefts(C) ==
  /\ \A i \in 1..Len(methods') : i < Len(methods) => methods'[i].left = methods[i].left
  /\ Len(methods') >= Len(methods) =>
       (methods'[Len(methods)].left <=> Method.left \/ Method.first \in C)
  /\ Len(methods') > Len(methods) => ~Method'.left /\ ~blocks'[Method'.first].closed

LEMMA FirstStep ==
  ASSUME Inv, Inv', FnInv, OwnInv, FirstInv, status = "unit", status' = "unit",
         NEW m, Kept(m), NEW C, NEW L, NEW R, Built(C, L, R), Hands(m, C), Numbers,
         Lefts(C), Leaves(m), Len(open') = m + 1 => AfterFirst(Len(open))'
  PROVE  FirstInv'
  <1>1. /\ Len(open) \in Nat /\ Len(open') \in Nat /\ m \in Nat /\ m >= 1
        /\ m <= Len(open) /\ m <= Len(open') /\ Len(open') <= m + 1
        /\ Len(methods) \in Nat /\ Len(methods') \in Nat
    BY DEF Inv, TypeInv, Kept
  <1>2. ASSUME NEW i \in 1..Len(methods')
        PROVE  methods'[i].left <=> blocks'[methods'[i].first].closed
    <2>1. CASE i \in 1..Len(methods)
      <3>1. methods'[i].first = methods[i].first  BY <1>1, <2>1 DEF Kept
      <3>2. methods[i].first \in Blocks /\ blocks[methods[i].first].fn = methods[i].fn
        BY <2>1 DEF OwnInv
      <3>3. blocks'[methods[i].first].closed <=> blocks[methods[i].first].closed
                                                 \/ methods[i].first \in C
        BY <3>2 DEF Built, Written
      <3>4. methods[i].left <=> blocks[methods[i].first].closed  BY <2>1 DEF FirstInv
      <3>5. CASE i = Len(methods)
        <4>1. methods'[i].left <=> Method.left \/ Method.first \in C
          BY <1>1, <3>5 DEF Lefts
        <4>2. Method = methods[i]  BY <3>5 DEF Method
        <4> QED  BY <3>1, <3>3, <3>4, <4>1, <4>2
      <3>6. CASE i < Len(methods)
        <4>1. methods'[i].left = methods[i].left  BY <3>6 DEF Lefts
        <4>2. methods[i].first \notin C
          <5> SUFFICES ASSUME methods[i].first \in C PROVE FALSE  OBVIOUS
          <5>1. methods[i].fn = methods[Len(methods)].fn  BY <3>2 DEF Hands, Method
          <5>2. Len(methods) \in 1..Len(methods)  BY <1>1, <2>1
          <5>3. i = Len(methods)  BY <2>1, <5>1, <5>2 DEF FnInv
          <5> QED  BY <1>1, <3>6, <5>3
        <4> QED  BY <3>1, <3>3, <3>4, <4>1, <4>2
      <3> QED  BY <1>1, <2>1, <3>5, <3>6
    <2>2. CASE i \notin 1..Len(methods)
      <3>1. Len(methods') = Len(methods) + 1  BY <1>1, <2>2 DEF Numbers
      <3>2. i = Len(methods')  BY <1>1, <2>2, <3>1
      <3>3. ~Method'.left /\ ~blocks'[Method'.first].closed  BY <1>1, <3>1 DEF Lefts
      <3> QED  BY <3>2, <3>3 DEF Method
    <2> QED  BY <2>1, <2>2
  <1>3. ASSUME NEW k \in 1..m PROVE AfterFirst(k)'
    <2>1. open'[k] = open[k] /\ AfterFirst(k)  BY <1>1 DEF Kept, FirstInv
    <2>2. /\ FirstAt(k)' = FirstAt(k)
          /\ \/ CodeAt(k)' = CodeAt(k)
             \/ CodeAt(k)' = Cur' /\ Height(open, k) = Len(builder') /\ FirstAt(k) = Method'.first
      BY KeptPlaces
    <2>3. CodeAt(k)' = CodeAt(k) \/ CodeAt(k)' > FirstAt(k)  BY <2>2 DEF Leaves
    <2> QED  BY <2>1, <2>2, <2>3 DEF AfterFirst
  <1>4. \A k \in 1..Len(open') : k \in 1..m \/ (k = Len(open') /\ Len(open') = m + 1)
    BY <1>1
  <1>5. \A k \in 1..Len(open') : AfterFirst(k)'  BY <1>3, <1>4
  <1> QED  BY <1>2, <1>5 DEF FirstInv

\* The landing pad of a statement follows from the statements: it needs nothing
\* from the step.
LEMMA PadFnStep ==
  ASSUME Inv, Inv', OwnInv', PadFnInv, status = "unit", status' = "unit", NEW m, Kept(m),
         NEW C, NEW L, NEW R, Built(C, L, R)
  PROVE  PadFnInv'
  <1> DEFINE n1 == Len(open')
  <1>1. /\ Len(open) \in Nat /\ n1 \in Nat /\ m \in Nat /\ m >= 1
        /\ m <= Len(open) /\ m <= n1 /\ n1 <= m + 1
        /\ Len(blocks) \in Nat /\ Len(blocks') \in Nat /\ Len(blocks) <= Len(blocks')
    BY DEF Inv, TypeInv, Kept, Built, Written
  <1>2. ASSUME NEW k \in 1..m PROVE PadFnAt(k)'
    <2>1. open'[k] = open[k] /\ k \in 1..Len(open) /\ k \in 1..n1 /\ PadFnAt(k)
      BY <1>1 DEF Kept, PadFnInv
    <2>2. PadAt(k) = IF InBody(open[k]) THEN open[k].base ELSE open[k].last_landingpad
      BY <2>1 DEF Inv, PadInv
    <2>3. PadAt(k)' = IF InBody(open'[k]) THEN open'[k].base ELSE open'[k].last_landingpad
      BY <2>1 DEF Inv, PadInv
    <2>4. PadAt(k)' = PadAt(k)  BY <2>1, <2>2, <2>3
    <2>5. Level(open', k) = Level(open, k)  BY <1>1, KeptIndex
    <2>6. Level(open, k) \in 1..Len(methods) /\ Level(open, k) \in 1..Len(methods')
      BY KeptPlaces
    <2>7. \A i \in 1..Level(open, k) : methods'[i].fn = methods[i].fn
      <3>1. \A i \in 1..Level(open, k) : i \in 1..Len(methods) /\ i <= Len(methods')
        BY <2>6 DEF Inv, TypeInv
      <3> QED  BY <3>1 DEF Kept
    <2>8. Covered(open', k) <=> Covered(open, k)
      <3>1. \A j \in 1..k : open'[j] = open[j]  BY <1>1 DEF Kept
      <3>2. \A i \in 1..k : \A j \in i..k : j \in 1..k  OBVIOUS
      <3> QED  BY <3>1, <3>2 DEF Covered
    <2>9. \A b \in Blocks : b \in Blocks' /\ blocks'[b].fn = blocks[b].fn
      BY <1>1 DEF Built, Written, Blocks
    <2> QED  BY <2>1, <2>4, <2>5, <2>7, <2>8, <2>9 DEF PadFnAt
  <1>3. ASSUME n1 = m + 1 PROVE PadFnAt(Len(open))'
    <2> DEFINE f == open'[n1]
    <2>1. n1 \in 1..n1 /\ m \in 1..n1 /\ m \in 1..m /\ n1 # 1 /\ n1 - 1 = m  BY <1>1, <1>3
    <2>2. PadAt(Len(open))' = IF InBody(f) THEN f.base ELSE f.last_landingpad
      BY <2>1 DEF Inv, PadInv
    <2>3. PadAt(m)' = f.last_landingpad  BY <1>1, <1>3 DEF PadAt
    <2>4. PadFnAt(m)'  BY <1>2, <2>1
    <2>5. /\ Level(open', m) \in Nat /\ Level(open', m) >= 1
          /\ Level(open', n1) = Level(open', m) + (IF f.kind = "def" THEN 1 ELSE 0)
      <3>1. m \in Nat /\ n1 = m + 1  BY <1>1, <1>3
      <3>2. /\ Level(open', m) \in Nat /\ Level(open', m) >= 1
            /\ Level(open', m + 1) = Level(open', m) + (IF open'[m + 1].kind = "def" THEN 1 ELSE 0)
        BY <3>1, IndexStep
      <3> QED  BY <3>1, <3>2
    <2>6. CASE InBody(f)
      <3> SUFFICES ASSUME f.base # NoBlock
                   PROVE  /\ f.base \in Blocks'
                          /\ \E i \in 1..Level(open', n1) :
                               /\ blocks'[f.base].fn = methods'[i].fn
                               /\ Covered(open', n1) <=> i = Level(open', n1)
        BY <2>2, <2>6 DEF PadFnAt
      <3>1. Owned(f, f.base)  BY <2>6 DEF Owned, InBody
      <3>2. f.base \in Blocks' /\ blocks'[f.base].fn = FnAt(Len(open))'
        BY <2>1, <3>1 DEF OwnInv, OwnAt
      <3>3. FnAt(Len(open))' = methods'[Level(open', n1)].fn  BY DEF FnAt
      <3>4. Covered(open', n1)
        <4>1. \A j \in n1..n1 : j = n1  BY <1>1
        <4>2. f.kind # "def"  BY <2>6 DEF InBody
        <4> QED  BY <2>1, <2>6, <4>1, <4>2 DEF Covered
      <3>5. Level(open', n1) \in 1..Level(open', n1)  BY <2>5
      <3> QED  BY <3>2, <3>3, <3>4, <3>5
    <2>7. CASE ~InBody(f)
      <3> SUFFICES ASSUME f.last_landingpad # NoBlock
                   PROVE  /\ f.last_landingpad \in Blocks'
                          /\ \E i \in 1..Level(open', n1) :
                               /\ blocks'[f.last_landingpad].fn = methods'[i].fn
                               /\ Covered(open', n1) <=> i = Level(open', n1)
        BY <2>2, <2>7 DEF PadFnAt
      <3>1. /\ f.last_landingpad \in Blocks'
            /\ \E i \in 1..Level(open', m) :
                 /\ blocks'[f.last_landingpad].fn = methods'[i].fn
                 /\ Covered(open', m) <=> i = Level(open', m)
        BY <2>3, <2>4 DEF PadFnAt
      <3>2. CASE f.kind = "def"
        <4>1. ~Covered(open', n1)
          <5>1. \A i \in 1..n1 : n1 \in i..n1  BY <1>1
          <5> QED  BY <3>2, <5>1 DEF Covered
        <4>2. \A i \in 1..Level(open', m) : i \in 1..Level(open', n1) /\ i # Level(open', n1)
          BY <2>5, <3>2
        <4> QED  BY <3>1, <4>1, <4>2
      <3>3. CASE f.kind # "def"
        <4>1. Level(open', n1) = Level(open', m)  BY <2>5, <3>3
        <4>2. Covered(open', n1) <=> Covered(open', m)
          <5>1. ASSUME NEW i \in 1..n1, InBody(open'[i]), \A j \in i..n1 : open'[j].kind # "def"
                PROVE  Covered(open', m)
            <6>1. i \in 1..m  BY <1>1, <1>3, <2>7, <5>1
            <6>2. \A j \in i..m : j \in i..n1  BY <1>1, <1>3
            <6> QED  BY <5>1, <6>1, <6>2 DEF Covered
          <5>2. ASSUME NEW i \in 1..m, InBody(open'[i]), \A j \in i..m : open'[j].kind # "def"
                PROVE  Covered(open', n1)
            <6>1. i \in 1..n1 /\ \A j \in i..n1 : j \in i..m \/ j = n1  BY <1>1, <1>3
            <6> QED  BY <3>3, <5>2, <6>1 DEF Covered
          <5> QED  BY <5>1, <5>2 DEF Covered
        <4> QED  BY <3>1, <4>1, <4>2
      <3> QED  BY <3>2, <3>3
    <2> QED  BY <2>6, <2>7
  <1>4. \A k \in 1..n1 : k \in 1..m \/ (k = n1 /\ n1 = m + 1)  BY <1>1
  <1>5. \A k \in 1..n1 : PadFnAt(k)'  BY <1>2, <1>3, <1>4
  <1> QED  BY <1>5 DEF PadFnInv

\* A branch out of the function and an instruction after a terminator have a
\* cause, and a new cause shows.
Shows(m, L, R) ==
  /\ \A c \in R : "pad" \in causes'[Method.fn] \/ (c \in Blocks' /\ blocks'[c].fn = Method.fn)
  /\ \A b \in L : b \in Blocks /\ causes'[blocks[b].fn] # {}
  /\ \A f \in Fns :
       /\ "alloca" \in causes'[f] => \/ "alloca" \in causes[f]
                                     \/ \E b \in L : b \in Blocks /\ blocks[b].fn = f
       /\ "pad" \in causes'[f] =>
            \/ "pad" \in causes[f]
            \/ \E b \in Blocks : /\ blocks[b].fn = f
                                 /\ \E c \in blocks'[b].to : c \in Blocks' /\ blocks'[c].fn # f
       /\ "clause" \in causes'[f] =>
            \/ "clause" \in causes[f]
            \/ /\ Len(open') = m + 1 /\ Handling(open'[m + 1]) /\ Method'.fn = f
               /\ \E b \in open'[m + 1].rescue_impls : blocks'[b].closed
  /\ Len(open) = m + 1 /\ Handling(Top) =>
       \/ /\ Len(open') = m + 1 /\ Handling(open'[m + 1]) /\ Method'.fn = Method.fn
          /\ Top.rescue_impls \subseteq open'[m + 1].rescue_impls
       \/ \A b \in Top.rescue_impls : blocks[b].closed => b \in L

LEMMA CauseStep ==
  ASSUME Inv, Inv', OwnInv, TargetInv, LateInv, EvidenceInv, status = "unit",
         status' = "unit", NEW m, Kept(m), NEW C, NEW L, NEW R, Built(C, L, R), Hands(m, C),
         Blames, Shows(m, L, R)
  PROVE  TargetInv' /\ LateInv' /\ EvidenceInv'
  <1>1. /\ Len(open) \in Nat /\ Len(open') \in Nat /\ m \in Nat /\ m >= 1
        /\ m <= Len(open) /\ Len(open) <= m + 1 /\ m <= Len(open') /\ Len(open') <= m + 1
        /\ Len(blocks) \in Nat /\ Len(blocks') \in Nat /\ Len(blocks) <= Len(blocks')
    BY DEF Inv, TypeInv, Kept, Built, Written
  <1>2. \A b \in Blocks : /\ b \in Blocks' /\ blocks'[b].fn = blocks[b].fn
                          /\ blocks[b].closed => blocks'[b].closed
                          /\ blocks[b].late => blocks'[b].late
                          /\ blocks[b].to \subseteq blocks'[b].to
    BY <1>1 DEF Built, Written, Blocks
  <1>3. \A b \in Blocks : blocks[b].fn \in Fns
    <2>1. \A b \in Blocks : blocks[b] \in BlockRec  BY DEF Inv, TypeInv, Blocks
    <2> QED  BY <2>1 DEF BlockRec
  <1>4. \A b \in Blocks' : b \in Blocks \/ b \in Len(blocks) + 1..Len(blocks')
    BY <1>1 DEF Blocks
  <1>5. TargetInv'
    <2> SUFFICES ASSUME NEW b \in Blocks', "pad" \notin causes'[blocks'[b].fn],
                        NEW c \in blocks'[b].to
                 PROVE  c \in Blocks' /\ blocks'[c].fn = blocks'[b].fn
      BY DEF TargetInv
    <2>1. CASE b \in Len(blocks) + 1..Len(blocks')
      <3>1. blocks'[b].to = {}  BY <2>1 DEF Built, Written, Empty
      <3> QED  BY <3>1
    <2>2. CASE b \in Blocks
      <3>1. blocks'[b].fn = blocks[b].fn /\ "pad" \notin causes[blocks[b].fn]
        BY <1>2, <1>3, <2>2 DEF Blames
      <3>2. CASE c \in blocks[b].to
        <4>1. c \in Blocks /\ blocks[c].fn = blocks[b].fn  BY <2>2, <3>1, <3>2 DEF TargetInv
        <4> QED  BY <1>2, <3>1, <4>1
      <3>3. CASE b \in C /\ c \in R
        <4>1. blocks[b].fn = Method.fn  BY <3>3 DEF Hands
        <4>2. "pad" \notin causes'[Method.fn]  BY <3>1, <4>1
        <4> QED  BY <3>1, <3>3, <4>1, <4>2 DEF Shows
      <3> QED  BY <2>2, <3>2, <3>3 DEF Built, Written
    <2> QED  BY <1>4, <2>1, <2>2
  <1>6. LateInv'
    <2> SUFFICES ASSUME NEW b \in Blocks', blocks'[b].late
                 PROVE  causes'[blocks'[b].fn] # {}
      BY DEF LateInv
    <2>1. b \in Blocks  BY <1>4 DEF Built, Written, Empty
    <2>2. blocks'[b].fn = blocks[b].fn /\ causes[blocks[b].fn] \subseteq causes'[blocks[b].fn]
      BY <1>2, <1>3, <2>1 DEF Blames
    <2>3. CASE blocks[b].late
      <3>1. causes[blocks[b].fn] # {}  BY <2>1, <2>3 DEF LateInv
      <3> QED  BY <2>2, <3>1
    <2>4. CASE b \in L  BY <2>2, <2>4 DEF Shows
    <2> QED  BY <2>1, <2>3, <2>4 DEF Built, Written
  <1>7. ASSUME NEW f \in Fns, \E b \in Blocks : blocks[b].fn = f /\ (blocks[b].late \/ b \in L)
        PROVE  \E b \in Blocks' : blocks'[b].fn = f /\ blocks'[b].late
    <2>1. PICK b \in Blocks : blocks[b].fn = f /\ (blocks[b].late \/ b \in L)  BY <1>7
    <2>2. b \in Blocks' /\ blocks'[b].fn = f /\ blocks'[b].late  BY <1>2, <2>1 DEF Built, Written
    <2> QED  BY <2>2
  <1>8. ASSUME NEW f \in Fns, "alloca" \in causes'[f]
        PROVE  \E b \in Blocks' : blocks'[b].fn = f /\ blocks'[b].late
    <2>1. \E b \in Blocks : blocks[b].fn = f /\ (blocks[b].late \/ b \in L)
      BY <1>8 DEF Shows, EvidenceInv
    <2> QED  BY <1>7, <2>1
  <1>9. ASSUME NEW f \in Fns, "pad" \in causes'[f]
        PROVE  \E b \in Blocks' : /\ blocks'[b].fn = f
                                  /\ \E c \in blocks'[b].to : c \in Blocks' /\ blocks'[c].fn # f
    <2>1. CASE "pad" \in causes[f]
      <3>1. PICK b \in Blocks : /\ blocks[b].fn = f
                                /\ \E c \in blocks[b].to : c \in Blocks /\ blocks[c].fn # f
        BY <2>1 DEF EvidenceInv
      <3>2. PICK c \in blocks[b].to : c \in Blocks /\ blocks[c].fn # f  BY <3>1
      <3>3. b \in Blocks' /\ blocks'[b].fn = f /\ c \in blocks'[b].to  BY <1>2, <3>1
      <3>4. c \in Blocks' /\ blocks'[c].fn # f  BY <1>2, <3>2
      <3> QED  BY <3>3, <3>4
    <2>2. CASE "pad" \notin causes[f]
      <3>1. PICK b \in Blocks : /\ blocks[b].fn = f
                                /\ \E c \in blocks'[b].to : c \in Blocks' /\ blocks'[c].fn # f
        BY <1>9, <2>2 DEF Shows
      <3>2. b \in Blocks' /\ blocks'[b].fn = f  BY <1>2, <3>1
      <3> QED  BY <3>1, <3>2
    <2> QED  BY <2>1, <2>2
  <1>10. ASSUME NEW f \in Fns, "clause" \in causes'[f]
         PROVE  \/ \E b \in Blocks' : blocks'[b].fn = f /\ blocks'[b].late
                \/ \E k \in 1..Len(open') : /\ Handling(open'[k]) /\ FnAt(k)' = f
                                            /\ \E b \in open'[k].rescue_impls : blocks'[b].closed
    <2> DEFINE Top1 == /\ Len(open') = m + 1 /\ Handling(open'[m + 1]) /\ Method'.fn = f
                       /\ \E b \in open'[m + 1].rescue_impls : blocks'[b].closed
    <2>1. ASSUME Top1
          PROVE  \E k \in 1..Len(open') : /\ Handling(open'[k]) /\ FnAt(k)' = f
                                          /\ \E b \in open'[k].rescue_impls : blocks'[b].closed
      <3>1. m + 1 \in 1..Len(open') /\ FnAt(m + 1)' = f
        <4>1. FnAt(Len(open))' = Method'.fn  BY IndexTopNext
        <4>2. m + 1 = Len(open')  BY <2>1
        <4> QED  BY <1>1, <2>1, <4>1, <4>2
      <3> QED  BY <2>1, <3>1
    <2>2. CASE "clause" \notin causes[f]
      <3>1. Top1  BY <1>10, <2>2 DEF Shows
      <3> QED  BY <2>1, <3>1
    <2>3. CASE \E b \in Blocks : blocks[b].fn = f /\ blocks[b].late
      BY <1>7, <2>3
    <2>4. ASSUME NEW k \in 1..Len(open), Handling(open[k]), FnAt(k) = f,
                 NEW b \in open[k].rescue_impls, blocks[b].closed
          PROVE  \/ \E x \in Blocks' : blocks'[x].fn = f /\ blocks'[x].late
                 \/ \E x \in 1..Len(open') : /\ Handling(open'[x]) /\ FnAt(x)' = f
                                             /\ \E y \in open'[x].rescue_impls : blocks'[y].closed
      <3>1. Owned(open[k], b)  BY <2>4 DEF Handling, Owned
      <3>2. b \in Blocks /\ blocks[b].fn = f /\ blocks'[b].closed
        BY <1>2, <2>4, <3>1 DEF OwnInv, OwnAt
      <3>3. CASE k \in 1..m
        <4>1. open'[k] = open[k] /\ FnAt(k)' = f /\ k \in 1..Len(open')
          <5>1. FnAt(k)' = FnAt(k)  BY <3>3, KeptPlaces
          <5> QED  BY <1>1, <2>4, <3>3, <5>1 DEF Kept
        <4> QED  BY <2>4, <3>2, <4>1
      <3>4. CASE k = Len(open) /\ Len(open) = m + 1
        <4>1. Top = open[k] /\ Method.fn = f  BY <2>4, <3>4, IndexTop DEF Top
        <4>2. CASE b \in L  BY <1>7, <3>2, <4>2
        <4>3. CASE b \notin L
          <5>1. /\ Len(open') = m + 1 /\ Handling(open'[m + 1]) /\ Method'.fn = Method.fn
                /\ Top.rescue_impls \subseteq open'[m + 1].rescue_impls
            BY <2>4, <3>4, <4>1, <4>3 DEF Shows
          <5>2. Top1  BY <2>4, <3>2, <4>1, <5>1
          <5> QED  BY <2>1, <5>2
        <4> QED  BY <4>2, <4>3
      <3> QED  BY <1>1, <3>3, <3>4
    <2> HIDE DEF Top1
    <2> QED  BY <2>2, <2>3, <2>4 DEF EvidenceInv
  <1>11. EvidenceInv'  BY <1>8, <1>9, <1>10 DEF EvidenceInv
  <1> QED  BY <1>5, <1>6, <1>11

-----------------------------------------------------------------------------
(* A step that does all this keeps the invariant.                          *)

Moves(m, C, L, R) ==
  /\ Kept(m) /\ Built(C, L, R) /\ Hands(m, C) /\ Numbers /\ Blames /\ Leaves(m) /\ Lefts(C)
  /\ Shows(m, L, R)
  /\ Len(open') = m + 1 =>
       /\ \A b : Owned(open'[m + 1], b) => b \in Blocks' /\ blocks'[b].fn = Method'.fn
       /\ ClauseAt(Len(open))' /\ AfterFirst(Len(open))'

LEMMA FlowStep ==
  ASSUME Inv, Inv', Flow, status = "unit", status' = "unit",
         NEW m, NEW C, NEW L, NEW R, Moves(m, C, L, R)
  PROVE  Flow'
  <1>1. /\ Kept(m) /\ Built(C, L, R) /\ Hands(m, C) /\ Numbers /\ Blames /\ Leaves(m)
        /\ Lefts(C) /\ Shows(m, L, R)
    BY DEF Moves
  <1>2. Len(open') = m + 1 =>
          /\ \A b : Owned(open'[m + 1], b) => b \in Blocks' /\ blocks'[b].fn = Method'.fn
          /\ ClauseAt(Len(open))' /\ AfterFirst(Len(open))'
    BY DEF Moves
  <1>3. /\ FnInv /\ OwnInv /\ WaitInv /\ UnclosedInv /\ ClauseInv /\ FirstInv /\ PadFnInv
        /\ TargetInv /\ LateInv /\ EvidenceInv
    BY DEF Flow
  <1>4. FnInv'  BY <1>1, <1>3, FnStep
  <1>5. OwnInv'  BY <1>1, <1>2, <1>3, OwnStep
  <1>6. WaitInv'  BY <1>1, <1>3, WaitStep
  <1>7. UnclosedInv'  BY <1>1, <1>3, UnclosedStep
  <1>8. ClauseInv'  BY <1>1, <1>2, <1>3, ClauseStep
  <1>9. FirstInv'  BY <1>1, <1>2, <1>3, FirstStep
  <1>10. PadFnInv'  BY <1>1, <1>3, <1>5, PadFnStep
  <1>11. TargetInv' /\ LateInv' /\ EvidenceInv'  BY <1>1, <1>3, CauseStep
  <1> QED  BY <1>4, <1>5, <1>6, <1>7, <1>8, <1>9, <1>10, <1>11 DEF Flow

-----------------------------------------------------------------------------
(* The parts of an action: the blocks it writes, ...                       *)

LEMMA WrittenStart ==
  ASSUME Inv, NEW fn
  PROVE  Written(blocks, fn, {}, {}, {})
  <1>1. blocks \in Seq(BlockRec) /\ Len(blocks) \in Nat  BY DEF Inv, TypeInv
  <1> QED  BY <1>1 DEF Written, Blocks

LEMMA WrittenBlock ==
  ASSUME Inv, NEW bs, NEW fn, NEW C, NEW L, NEW R, Written(bs, fn, C, L, R)
  PROVE  /\ bs \in Seq(BlockRec) /\ Len(bs) \in Nat /\ Len(blocks) \in Nat
         /\ \A x \in Blocks : x \in 1..Len(bs)
         /\ \A x \in 1..Len(bs) : x \in Blocks \/ x \in Len(blocks) + 1..Len(bs)
         /\ \A x \in Len(blocks) + 1..Len(bs) : x \in 1..Len(bs) /\ x \notin Blocks
  <1>1. bs \in Seq(BlockRec) /\ Len(blocks) \in Nat /\ Len(blocks) <= Len(bs)
    BY DEF Inv, TypeInv, Written
  <1> QED  BY <1>1 DEF Blocks

\* An instruction in a block that is open, ...
LEMMA WrittenInstr ==
  ASSUME Inv, NEW bs, NEW fn, NEW C, NEW L, NEW R, Written(bs, fn, C, L, R),
         NEW b \in 1..Len(bs), ~bs[b].closed
  PROVE  Written(Instr(bs, b), fn, C, L, R) /\ Len(Instr(bs, b)) = Len(bs)
  <1> DEFINE t == Instr(bs, b)
  <1>1. /\ bs \in Seq(BlockRec) /\ Len(bs) \in Nat /\ Len(blocks) \in Nat
        /\ \A x \in Blocks : x \in 1..Len(bs)
        /\ \A x \in Len(blocks) + 1..Len(bs) : x \in 1..Len(bs)
    BY WrittenBlock
  <1>2. /\ t \in Seq(BlockRec) /\ Len(t) = Len(bs)
        /\ \A x \in 1..Len(bs) :
             /\ t[x].fn = bs[x].fn /\ t[x].closed = bs[x].closed /\ t[x].to = bs[x].to
             /\ t[x].polls = bs[x].polls /\ (t[x].late <=> bs[x].late)
    BY <1>1, InstrAt
  <1> HIDE DEF t
  <1>3. ASSUME NEW x \in Len(blocks) + 1..Len(bs) PROVE Empty(t[x], fn)
    <2>1. Empty(bs[x], fn) /\ x \in 1..Len(bs)  BY <1>1 DEF Written
    <2>2. t[x] \in BlockRec  BY <1>2, <2>1
    <2>3. t[x].late \in BOOLEAN  BY <2>2 DEF BlockRec
    <2> QED  BY <1>2, <2>1, <2>3 DEF Empty
  <1>4. \A x \in Blocks :
          /\ t[x].fn = blocks[x].fn
          /\ t[x].closed <=> blocks[x].closed \/ x \in C
          /\ t[x].late <=> blocks[x].late \/ x \in L
          /\ blocks[x].to \subseteq t[x].to
          /\ \A c \in t[x].to : c \in blocks[x].to \/ (x \in C /\ c \in R)
    BY <1>1, <1>2 DEF Written
  <1>5. Len(blocks) <= Len(t)  BY <1>2 DEF Written
  <1> QED  BY <1>2, <1>3, <1>4, <1>5 DEF Written, t

\* ... or, if the method has left its first block, in that one, ...
SlotLate(need) == {b \in {Method.first} : need /\ Method.left}

LEMMA WrittenAlloca ==
  ASSUME Inv, Flow, status = "unit", NEW need \in BOOLEAN, NEW bs, NEW fn, NEW C, NEW R,
         Written(bs, fn, C, {}, R), Method.first \notin C
  PROVE  LET t == IF need THEN Alloca(bs) ELSE bs
         IN  Written(t, fn, C, SlotLate(need), R) /\ Len(t) = Len(bs)
  <1>1. /\ bs \in Seq(BlockRec) /\ Len(bs) \in Nat /\ Len(blocks) \in Nat
        /\ \A x \in Blocks : x \in 1..Len(bs)
        /\ \A x \in Len(blocks) + 1..Len(bs) : x \in 1..Len(bs) /\ x \notin Blocks
    BY WrittenBlock
  <1>2. /\ Len(methods) \in 1..Len(methods) /\ Method = methods[Len(methods)]
    BY Heights DEF Inv, Method
  <1>3. Method.first \in Blocks /\ (Method.left <=> blocks[Method.first].closed)
    BY <1>2 DEF Flow, OwnInv, FirstInv
  <1>4. Method.left <=> bs[Method.first].closed  BY <1>3 DEF Written
  <1>5. CASE ~need
    <2>1. SlotLate(need) = {}  BY <1>5 DEF SlotLate
    <2> QED  BY <1>5, <2>1
  <1>6. CASE need
    <2> DEFINE t == Alloca(bs)
    <2>1. /\ t \in Seq(BlockRec) /\ Len(t) = Len(bs)
          /\ \A x \in 1..Len(bs) :
               /\ t[x].fn = bs[x].fn /\ t[x].closed = bs[x].closed
               /\ t[x].to = bs[x].to /\ t[x].polls = bs[x].polls
               /\ t[x].late <=> bs[x].late \/ (x = Method.first /\ bs[x].closed)
      BY <1>1, InstrAt DEF Alloca
    <2> HIDE DEF t
    <2>2. \A x : x \in SlotLate(need) <=> x = Method.first /\ Method.left
      BY <1>6 DEF SlotLate
    <2>3. ASSUME NEW x \in Len(blocks) + 1..Len(bs) PROVE Empty(t[x], fn)
      <3>1. Empty(bs[x], fn) /\ x \in 1..Len(bs)  BY <1>1 DEF Written
      <3>2. t[x] \in BlockRec  BY <2>1, <3>1
      <3>3. t[x].late \in BOOLEAN  BY <3>2 DEF BlockRec
      <3> QED  BY <2>1, <3>1, <3>3 DEF Empty
    <2>4. \A x \in Blocks :
            /\ t[x].fn = blocks[x].fn
            /\ t[x].closed <=> blocks[x].closed \/ x \in C
            /\ t[x].late <=> blocks[x].late \/ x \in SlotLate(need)
            /\ blocks[x].to \subseteq t[x].to
            /\ \A c \in t[x].to : c \in blocks[x].to \/ (x \in C /\ c \in R)
      BY <1>1, <1>3, <1>4, <2>1, <2>2 DEF Written
    <2>5. Len(blocks) <= Len(t)  BY <2>1 DEF Written
    <2>6. Written(t, fn, C, SlotLate(need), R)  BY <2>1, <2>3, <2>4, <2>5 DEF Written
    <2> QED  BY <1>6, <2>1, <2>6 DEF t
  <1> QED  BY <1>5, <1>6

LEMMA WrittenSlot ==
  ASSUME Inv, Flow, status = "unit", NEW need \in BOOLEAN, NEW fn
  PROVE  LET bs == IF need THEN Alloca(blocks) ELSE blocks
         IN  Written(bs, fn, {}, SlotLate(need), {}) /\ Len(bs) = Len(blocks)
  <1>1. Written(blocks, fn, {}, {}, {})  BY WrittenStart
  <1> QED  BY <1>1, WrittenAlloca

\* ... terminators, ...
LEMMA WrittenTermAll ==
  ASSUME Inv, NEW bs, NEW fn, NEW C, NEW L, NEW R, Written(bs, fn, C, L, R),
         NEW to, DOMAIN to \subseteq Blocks, NEW S \in SUBSET Nat,
         \A b \in DOMAIN to : to[b] \subseteq S
  PROVE  LET t == TermAll(bs, to)
         IN  /\ Written(t, fn, C \cup DOMAIN to,
                        L \cup {b \in DOMAIN to : blocks[b].closed \/ b \in C}, R \cup S)
             /\ Len(t) = Len(bs)
  <1> DEFINE t == TermAll(bs, to)
             D == DOMAIN to
             K == {b \in D : blocks[b].closed \/ b \in C}
  <1>1. /\ bs \in Seq(BlockRec) /\ Len(bs) \in Nat /\ Len(blocks) \in Nat
        /\ \A x \in Blocks : x \in 1..Len(bs)
        /\ \A x \in Len(blocks) + 1..Len(bs) : x \in 1..Len(bs) /\ x \notin Blocks
    BY WrittenBlock
  <1>2. /\ t \in Seq(BlockRec) /\ Len(t) = Len(bs)
        /\ \A x \in 1..Len(bs) :
             /\ t[x].fn = bs[x].fn
             /\ t[x].closed <=> bs[x].closed \/ x \in D
             /\ t[x].late <=> bs[x].late \/ (x \in D /\ bs[x].closed)
             /\ x \in D => t[x].to = bs[x].to \cup to[x]
             /\ x \notin D => t[x] = bs[x]
    <2>1. \A b \in DOMAIN to : to[b] \in SUBSET Nat  OBVIOUS
    <2> QED  BY <1>1, <2>1, TermAllAt
  <1> HIDE DEF t
  <1>3. \A x \in Len(blocks) + 1..Len(bs) : Empty(t[x], fn)  BY <1>1, <1>2 DEF Written
  <1>4. ASSUME NEW x \in Blocks
        PROVE  /\ t[x].fn = blocks[x].fn
               /\ t[x].closed <=> blocks[x].closed \/ x \in C \cup D
               /\ t[x].late <=> blocks[x].late \/ x \in L \cup K
               /\ blocks[x].to \subseteq t[x].to
               /\ \A c \in t[x].to : c \in blocks[x].to \/ (x \in C \cup D /\ c \in R \cup S)
    <2>1. /\ bs[x].fn = blocks[x].fn
          /\ bs[x].closed <=> blocks[x].closed \/ x \in C
          /\ bs[x].late <=> blocks[x].late \/ x \in L
          /\ blocks[x].to \subseteq bs[x].to
          /\ \A c \in bs[x].to : c \in blocks[x].to \/ (x \in C /\ c \in R)
      BY DEF Written
    <2>2. x \in 1..Len(bs)  BY <1>1
    <2>3. CASE x \in D
      <3>1. t[x].fn = bs[x].fn /\ t[x].closed /\ (t[x].late <=> bs[x].late \/ bs[x].closed)
            /\ t[x].to = bs[x].to \cup to[x]
        BY <1>2, <2>2, <2>3
      <3> QED  BY <2>1, <2>3, <3>1
    <2>4. CASE x \notin D
      <3>1. t[x] = bs[x]  BY <1>2, <2>2, <2>4
      <3> QED  BY <2>1, <2>4, <3>1
    <2> QED  BY <2>3, <2>4
  <1>5. Len(blocks) <= Len(t)  BY <1>2 DEF Written
  <1>6. Written(t, fn, C \cup D, L \cup K, R \cup S)  BY <1>2, <1>3, <1>4, <1>5 DEF Written
  <1> QED  BY <1>2, <1>6 DEF t

LEMMA WrittenTerm ==
  ASSUME Inv, NEW bs, NEW fn, NEW L, Written(bs, fn, {}, L, {}),
         NEW b \in Blocks, ~blocks[b].closed, NEW to \in SUBSET Nat
  PROVE  Written(Term(bs, b, to), fn, {b}, L, to) /\ Len(Term(bs, b, to)) = Len(bs)
  <1> DEFINE f == [x \in {b} |-> to]
             t == TermAll(bs, f)
  <1>1. DOMAIN f = {b} /\ f[b] = to  OBVIOUS
  <1>2. Term(bs, b, to) = t  BY DEF Term
  <1> HIDE DEF f
  <1>3. /\ DOMAIN f \subseteq Blocks /\ \A x \in DOMAIN f : f[x] \subseteq to  BY <1>1
  <1>4. /\ Written(t, fn, {} \cup DOMAIN f,
                   L \cup {x \in DOMAIN f : blocks[x].closed \/ x \in {}}, {} \cup to)
        /\ Len(t) = Len(bs)
    BY <1>3, WrittenTermAll
  <1>5. /\ {} \cup DOMAIN f = {b} /\ {} \cup to = to
        /\ L \cup {x \in DOMAIN f : blocks[x].closed \/ x \in {}} = L
    BY <1>1
  <1> HIDE DEF t
  <1>6. Written(t, fn, {b}, L, to)  BY <1>4, <1>5
  <1> QED  BY <1>2, <1>4, <1>6

\* ... and new blocks.
LEMMA WrittenAppend ==
  ASSUME Inv, status = "unit", NEW bs, NEW C, NEW L, NEW R, Written(bs, Method.fn, C, L, R),
         NEW n \in Nat
  PROVE  /\ Written(AppendBlocks(bs, n), Method.fn, C, L, R)
         /\ Len(AppendBlocks(bs, n)) = Len(bs) + n
  <1> DEFINE t == AppendBlocks(bs, n)
  <1>1. /\ bs \in Seq(BlockRec) /\ Len(bs) \in Nat /\ Len(blocks) \in Nat
        /\ \A x \in Blocks : x \in 1..Len(bs)
        /\ \A x \in Len(blocks) + 1..Len(bs) : x \in 1..Len(bs)
    BY WrittenBlock
  <1>0. Method.fn \in Fns /\ Len(blocks) <= Len(bs)  BY Context DEF Written
  <1>2. /\ t \in Seq(BlockRec) /\ Len(t) = Len(bs) + n
        /\ \A x \in 1..Len(bs) : t[x] = bs[x]
        /\ \A x \in Len(bs) + 1..Len(bs) + n : Empty(t[x], Method.fn)
    BY <1>0, <1>1, AppendAt
  <1> HIDE DEF t
  <1>3. \A x \in Len(blocks) + 1..Len(t) :
          x \in Len(blocks) + 1..Len(bs) \/ x \in Len(bs) + 1..Len(bs) + n
    BY <1>0, <1>1, <1>2
  <1>4. \A x \in Len(blocks) + 1..Len(t) : Empty(t[x], Method.fn)
    BY <1>1, <1>2, <1>3 DEF Written
  <1>5. \A x \in Blocks : t[x] = bs[x]  BY <1>1, <1>2
  <1>6. Len(blocks) <= Len(t)  BY <1>0, <1>1, <1>2
  <1>7. Written(t, Method.fn, C, L, R)  BY <1>2, <1>4, <1>5, <1>6 DEF Written
  <1> QED  BY <1>2, <1>7 DEF t

-----------------------------------------------------------------------------
(* ... and what it does to the stacks.                                     *)

\* Where the walk stands.
LEMMA Where ==
  ASSUME Inv, Flow, status = "unit"
  PROVE  /\ Len(open) \in Nat /\ Len(open) >= 1 /\ Len(open) \in 1..Len(open)
         /\ Top \in FrameRec /\ (Top.kind # "unit" <=> Len(open) >= 2)
         /\ Len(blocks) \in Nat /\ Method.fn \in Fns
         /\ Cur \in Blocks /\ Cur \in Nat /\ blocks[Cur].fn = Method.fn /\ ~blocks[Cur].closed
         /\ Method.first \in Blocks /\ blocks[Method.first].fn = Method.fn
         /\ Method.left <=> blocks[Method.first].closed
         /\ \A b : Owned(Top, b) => b \in Blocks /\ blocks[b].fn = Method.fn /\ b > Method.first
         /\ (Top.kind \in {"if", "while"} \/ Handling(Top)) => Cur > Method.first
         /\ \A b : Pend(Len(open), b) => b \in Blocks /\ ~blocks[b].closed /\ b # Cur
  <1> DEFINE n == Len(open)
  <1>1. n \in Nat /\ n >= 1 /\ n \in 1..n /\ Top \in FrameRec  BY Heights DEF Inv
  <1>2. Top.kind # "unit" <=> n >= 2  BY <1>1 DEF Inv, StacksInv, Top
  <1>3. Len(blocks) \in Nat /\ Method.fn \in Fns /\ Cur \in Nat /\ Cur \in Blocks
    BY Context DEF Blocks
  <1>4. CodeAt(n) = Cur /\ FnAt(n) = Method.fn /\ FirstAt(n) = Method.first  BY IndexTop
  <1>5. OwnAt(n) /\ AfterFirst(n) /\ Top = open[n]  BY <1>1 DEF Flow, OwnInv, FirstInv, Top
  <1>6. blocks[Cur].fn = Method.fn  BY <1>4, <1>5 DEF OwnAt
  <1>7. Len(methods) \in 1..Len(methods) /\ Method = methods[Len(methods)]
    BY Heights DEF Inv, Method
  <1>8. /\ Method.first \in Blocks /\ blocks[Method.first].fn = Method.fn
        /\ Method.left <=> blocks[Method.first].closed
    BY <1>7 DEF Flow, OwnInv, FirstInv
  <1>9. \A b : Owned(Top, b) => b \in Blocks /\ blocks[b].fn = Method.fn /\ b > Method.first
    BY <1>4, <1>5 DEF OwnAt, AfterFirst
  <1>10. (Top.kind \in {"if", "while"} \/ Handling(Top)) => Cur > Method.first
    BY <1>4, <1>5 DEF AfterFirst
  <1>11. ~blocks[Cur].closed  BY <1>1 DEF Flow, WaitInv
  <1>12. ASSUME NEW b, Pend(n, b) PROVE b \in Blocks /\ ~blocks[b].closed /\ b # Cur
    <2>1. b \in Blocks  BY <1>1, <1>12, PendBlock DEF Flow
    <2>2. ~blocks[b].closed /\ b # Cur  BY <1>1, <1>12 DEF Flow, WaitInv
    <2> QED  BY <2>1, <2>2
  <1> QED  BY <1>1, <1>2, <1>3, <1>6, <1>8, <1>9, <1>10, <1>11, <1>12

Below(bl) == \A i \in 1..Len(builder) : i < Len(bl) => bl[i] = builder[i]
Same(ms) ==
  \A i \in 1..Len(methods) : i <= Len(ms) =>
    ms[i].fn = methods[i].fn /\ ms[i].first = methods[i].first

LEMMA BuilderAt ==
  ASSUME Inv, status = "unit", NEW b
  PROVE  /\ Len(builder) \in Nat /\ Len(builder) >= 1 /\ builder[Len(builder)] = Cur
         /\ Below(builder)
         /\ Below(Position(b)) /\ Len(Position(b)) = Len(builder)
         /\ Position(b)[Len(builder)] = b
         /\ Below(PushBuilder(b)) /\ Len(PushBuilder(b)) = Len(builder) + 1
         /\ PushBuilder(b)[Len(builder) + 1] = b /\ PushBuilder(b)[Len(builder)] = Cur
         /\ HasBuilder(Top) =>
              /\ Len(builder) - 1 \in Nat /\ Len(builder) - 1 >= 1
              /\ Below(PopBuilder) /\ Len(PopBuilder) = Len(builder) - 1
              /\ PopBuilder[Len(builder) - 1] = builder[Len(builder) - 1]
              /\ Below(PopTo(b)) /\ Len(PopTo(b)) = Len(builder) - 1
              /\ PopTo(b)[Len(builder) - 1] = b
  <1> DEFINE h == Len(builder)
  <1>1. /\ builder \in Seq(Nat) /\ h \in Nat /\ h >= 1 /\ (HasBuilder(Top) => h >= 2)
        /\ builder[h] = Cur
    BY Heights DEF Inv, TypeInv, Cur
  <1>2. Below(builder)  BY DEF Below
  <1>3. Below(Position(b)) /\ Len(Position(b)) = h /\ Position(b)[h] = b
    BY <1>1 DEF Below, Position
  <1>4. /\ Below(PushBuilder(b)) /\ Len(PushBuilder(b)) = h + 1
        /\ PushBuilder(b)[h + 1] = b /\ PushBuilder(b)[h] = Cur
    BY <1>1 DEF Below, PushBuilder
  <1>5. ASSUME HasBuilder(Top)
        PROVE  /\ h - 1 \in Nat /\ h - 1 >= 1
               /\ Below(PopBuilder) /\ Len(PopBuilder) = h - 1
               /\ PopBuilder[h - 1] = builder[h - 1]
               /\ Below(PopTo(b)) /\ Len(PopTo(b)) = h - 1 /\ PopTo(b)[h - 1] = b
    <2>1. h >= 2  BY <1>1, <1>5
    <2>2. /\ PopBuilder \in Seq(Nat) /\ Len(PopBuilder) = h - 1
          /\ \A i \in 1..h - 1 : PopBuilder[i] = builder[i]
      BY <1>1, <2>1 DEF PopBuilder
    <2>3. PopTo(b) = [PopBuilder EXCEPT ![h - 1] = b]  BY DEF PopTo
    <2>4. /\ Len(PopTo(b)) = h - 1 /\ PopTo(b)[h - 1] = b
          /\ \A i \in 1..h - 1 : i # h - 1 => PopTo(b)[i] = builder[i]
      BY <1>1, <2>1, <2>2, <2>3
    <2>5. \A i \in 1..h : i < h - 1 => i \in 1..h - 1 /\ i # h - 1  BY <1>1, <2>1
    <2>6. Below(PopBuilder)  BY <2>2, <2>5 DEF Below
    <2>7. Below(PopTo(b))  BY <2>4, <2>5 DEF Below
    <2>8. h - 1 \in Nat /\ h - 1 >= 1 /\ h - 1 \in 1..h - 1  BY <1>1, <2>1
    <2> QED  BY <2>2, <2>4, <2>6, <2>7, <2>8
  <1> QED  BY <1>1, <1>2, <1>3, <1>4, <1>5

LEMMA MethodAt ==
  ASSUME Inv, status = "unit"
  PROVE  /\ Len(methods) \in Nat /\ Len(methods) >= 1 /\ methods[Len(methods)] = Method
         /\ Same(methods)
         /\ \A b : /\ Same(Leaving(b)) /\ Len(Leaving(b)) = Len(methods)
                   /\ Leaving(b)[Len(methods)].fn = Method.fn
                   /\ Leaving(b)[Len(methods)].first = Method.first
                   /\ Leaving(b)[Len(methods)].left <=> Method.left \/ b = Method.first
                   /\ \A i \in 1..Len(methods) : i < Len(methods) => Leaving(b)[i] = methods[i]
         /\ \A xs : /\ Same(WithLocals(xs)) /\ Len(WithLocals(xs)) = Len(methods)
                    /\ WithLocals(xs)[Len(methods)].fn = Method.fn
                    /\ WithLocals(xs)[Len(methods)].first = Method.first
                    /\ WithLocals(xs)[Len(methods)].left = Method.left
                    /\ \A i \in 1..Len(methods) : i < Len(methods) => WithLocals(xs)[i] = methods[i]
         /\ \A r : /\ Same(Append(methods, r)) /\ Len(Append(methods, r)) = Len(methods) + 1
                   /\ Append(methods, r)[Len(methods) + 1] = r
                   /\ \A i \in 1..Len(methods) : Append(methods, r)[i] = methods[i]
         /\ Top.kind = "def" =>
              LET ms == SubSeq(methods, 1, Len(methods) - 1)
              IN  /\ Len(methods) - 1 >= 1 /\ Same(ms) /\ Len(ms) = Len(methods) - 1
                  /\ \A i \in 1..Len(methods) - 1 : ms[i] = methods[i]
  <1> DEFINE l == Len(methods)
  <1>1. /\ methods \in Seq(MethodRec) /\ l \in Nat /\ l >= 1 /\ (Top.kind = "def" => l >= 2)
        /\ methods[l] = Method
    BY Heights DEF Inv, TypeInv, Method
  <1>2. methods[l] \in MethodRec  BY <1>1
  <1>3. Same(methods)  BY DEF Same
  <1>4. ASSUME NEW r, r.fn = methods[l].fn, r.first = methods[l].first
        PROVE  /\ Same([methods EXCEPT ![l] = r]) /\ Len([methods EXCEPT ![l] = r]) = l
               /\ [methods EXCEPT ![l] = r][l] = r
               /\ \A i \in 1..l : i < l => [methods EXCEPT ![l] = r][i] = methods[i]
    BY <1>1, <1>4 DEF Same
  <1>5. ASSUME NEW b
        PROVE  /\ Same(Leaving(b)) /\ Len(Leaving(b)) = l
               /\ Leaving(b)[l].fn = Method.fn /\ Leaving(b)[l].first = Method.first
               /\ Leaving(b)[l].left <=> Method.left \/ b = Method.first
               /\ \A i \in 1..l : i < l => Leaving(b)[i] = methods[i]
    <2> DEFINE r == [methods[l] EXCEPT !.left = @ \/ b = Method.first]
    <2>1. r.fn = methods[l].fn /\ r.first = methods[l].first
          /\ r.left = (methods[l].left \/ b = Method.first)
      BY <1>2 DEF MethodRec
    <2>2. Leaving(b) = [methods EXCEPT ![l] = r]  BY DEF Leaving
    <2> HIDE DEF r
    <2> DEFINE ms == [methods EXCEPT ![l] = r]
    <2>3. Same(ms) /\ Len(ms) = l /\ ms[l] = r /\ \A i \in 1..l : i < l => ms[i] = methods[i]
      BY <1>4, <2>1
    <2> HIDE DEF ms
    <2> QED  BY <1>1, <2>1, <2>2, <2>3 DEF ms
  <1>6. ASSUME NEW xs
        PROVE  /\ Same(WithLocals(xs)) /\ Len(WithLocals(xs)) = l
               /\ WithLocals(xs)[l].fn = Method.fn /\ WithLocals(xs)[l].first = Method.first
               /\ WithLocals(xs)[l].left = Method.left
               /\ \A i \in 1..l : i < l => WithLocals(xs)[i] = methods[i]
    <2> DEFINE r == [methods[l] EXCEPT !.locals = @ \cup xs]
    <2>1. r.fn = methods[l].fn /\ r.first = methods[l].first /\ r.left = methods[l].left
      BY <1>2 DEF MethodRec
    <2>2. WithLocals(xs) = [methods EXCEPT ![l] = r]  BY DEF WithLocals
    <2> HIDE DEF r
    <2> DEFINE ms == [methods EXCEPT ![l] = r]
    <2>3. Same(ms) /\ Len(ms) = l /\ ms[l] = r /\ \A i \in 1..l : i < l => ms[i] = methods[i]
      BY <1>4, <2>1
    <2> HIDE DEF ms
    <2> QED  BY <1>1, <2>1, <2>2, <2>3 DEF ms
  <1>7. ASSUME NEW r
        PROVE  /\ Same(Append(methods, r)) /\ Len(Append(methods, r)) = l + 1
               /\ Append(methods, r)[l + 1] = r
               /\ \A i \in 1..l : Append(methods, r)[i] = methods[i]
    BY <1>1 DEF Same
  <1>8. ASSUME Top.kind = "def"
        PROVE  LET ms == SubSeq(methods, 1, l - 1)
               IN  /\ l - 1 >= 1 /\ Same(ms) /\ Len(ms) = l - 1
                   /\ \A i \in 1..l - 1 : ms[i] = methods[i]
    BY <1>1, <1>8 DEF Same
  <1> QED  BY <1>1, <1>3, <1>5, <1>6, <1>7, <1>8

\* The four kinds of steps.
LEMMA KeptAll ==
  ASSUME Inv, Flow, status = "unit", Below(builder'), Same(methods')
  PROVE  /\ open' = open => Kept(Len(open)) /\ Len(open') = Len(open)
         /\ \A f : open' = Append(open, f) =>
              /\ Kept(Len(open)) /\ Len(open') = Len(open) + 1 /\ open'[Len(open) + 1] = f
         /\ Top.kind # "unit" =>
              /\ \A f : open' = [open EXCEPT ![Len(open)] = f] =>
                   /\ Kept(Len(open) - 1) /\ Len(open') = Len(open) - 1 + 1
                   /\ Len(open') = Len(open) /\ open'[Len(open) - 1 + 1] = f /\ open'[Len(open)] = f
              /\ open' = Closed => Kept(Len(open) - 1) /\ Len(open') = Len(open) - 1
  <1>1. /\ open \in Seq(FrameRec) /\ Len(open) \in Nat /\ Len(open) >= 1
        /\ (Top.kind # "unit" <=> Len(open) >= 2)
    BY Where DEF Inv, TypeInv
  <1>2. open' = open => Kept(Len(open)) /\ Len(open') = Len(open)  BY <1>1 DEF Kept, Below, Same
  <1>3. ASSUME NEW f, open' = Append(open, f)
        PROVE  Kept(Len(open)) /\ Len(open') = Len(open) + 1 /\ open'[Len(open) + 1] = f
    <2>1. Len(open') = Len(open) + 1 /\ open'[Len(open) + 1] = f
          /\ \A k \in 1..Len(open) : open'[k] = open[k]
      BY <1>1, <1>3
    <2> QED  BY <1>1, <2>1 DEF Kept, Below, Same
  <1>4. ASSUME Top.kind # "unit", NEW f, open' = [open EXCEPT ![Len(open)] = f]
        PROVE  /\ Kept(Len(open) - 1) /\ Len(open') = Len(open) - 1 + 1
               /\ Len(open') = Len(open) /\ open'[Len(open) - 1 + 1] = f /\ open'[Len(open)] = f
    <2>1. Len(open') = Len(open) /\ open'[Len(open)] = f
          /\ \A k \in 1..Len(open) - 1 : open'[k] = open[k]
      BY <1>1, <1>4
    <2>2. Len(open) - 1 \in Nat /\ Len(open) - 1 >= 1 /\ Len(open) - 1 + 1 = Len(open)
      BY <1>1, <1>4
    <2> QED  BY <1>1, <2>1, <2>2 DEF Kept, Below, Same
  <1>5. ASSUME Top.kind # "unit", open' = Closed
        PROVE  Kept(Len(open) - 1) /\ Len(open') = Len(open) - 1
    <2>1. Len(open') = Len(open) - 1 /\ \A k \in 1..Len(open) - 1 : open'[k] = open[k]
      BY <1>1, <1>5 DEF Closed
    <2>2. Len(open) - 1 \in Nat /\ Len(open) - 1 >= 1 /\ Len(open) - 1 + 1 = Len(open)
      BY <1>1, <1>5
    <2> QED  BY <1>1, <2>1, <2>2 DEF Kept, Below, Same
  <1> QED  BY <1>2, <1>3, <1>4, <1>5

\* The block in which the code around the last statement goes on.
LEMMA CodeAround ==
  ASSUME Inv, status = "unit", Len(open) >= 2
  PROVE  /\ HasBuilder(Top) => /\ CodeAt(Len(open) - 1) = builder[Len(builder) - 1]
                               /\ Height(open, Len(open) - 1) = Len(builder) - 1
         /\ ~HasBuilder(Top) => /\ CodeAt(Len(open) - 1) = Cur
                                /\ Height(open, Len(open) - 1) = Len(builder)
         /\ Top.kind # "def" => Level(open, Len(open) - 1) = Len(methods)
         /\ Top.kind = "def" => Level(open, Len(open) - 1) = Len(methods) - 1
  <1> DEFINE k == Len(open) - 1
  <1>1. Len(open) \in Nat  BY DEF Inv, TypeInv
  <1>2. k \in Nat /\ k + 1 = Len(open)  BY <1>1
  <1> HIDE DEF k
  <1>3. /\ Height(open, k) \in Nat /\ Level(open, k) \in Nat
        /\ Height(open, k + 1) = Height(open, k) + (IF HasBuilder(open[k + 1]) THEN 1 ELSE 0)
        /\ Level(open, k + 1) = Level(open, k) + (IF open[k + 1].kind = "def" THEN 1 ELSE 0)
    BY <1>2, IndexStep
  <1>4. open[k + 1] = Top /\ Height(open, k + 1) = Len(builder) /\ Level(open, k + 1) = Len(methods)
    BY <1>2, IndexTop DEF Top
  <1>5. CodeAt(k) = builder[Height(open, k)]  BY DEF CodeAt
  <1> QED  BY <1>3, <1>4, <1>5 DEF k, Cur

LEMMA CodeAroundNext ==
  ASSUME Inv', status' = "unit", Len(open') >= 2, HasBuilder(open'[Len(open')])
  PROVE  CodeAt(Len(open) - 1)' = builder'[Len(builder') - 1]
  <1> DEFINE k == Len(open') - 1
  <1>1. Len(open') \in Nat  BY DEF Inv, TypeInv
  <1>2. k \in Nat /\ k + 1 = Len(open')  BY <1>1
  <1>5. CodeAt(Len(open) - 1)' = builder'[Height(open', k)]  BY DEF CodeAt
  <1> HIDE DEF k
  <1>3. /\ Height(open', k) \in Nat
        /\ Height(open', k + 1) = Height(open', k) + (IF HasBuilder(open'[k + 1]) THEN 1 ELSE 0)
    BY <1>2, IndexStep
  <1>4. Height(open', k + 1) = Len(builder')  BY <1>2, IndexTopNext
  <1>6. Height(open', k) = Len(builder') - 1  BY <1>2, <1>3, <1>4
  <1> QED  BY <1>5, <1>6

\* Where no code goes on in another block ...
LEMMA LeavesNone ==
  ASSUME Inv, status = "unit", NEW m \in Nat, m <= Len(open),
         \/ Len(builder') > Len(builder)
         \/ Len(builder') = Len(builder) /\ HasBuilder(Top) /\ m < Len(open)
  PROVE  Leaves(m)
  <1> SUFFICES ASSUME NEW k \in 1..m PROVE Height(open, k) # Len(builder')  BY DEF Leaves
  <1>1. Len(open) \in Nat /\ k \in Nat /\ k <= Len(open) /\ Len(builder) \in Nat
    BY DEF Inv, TypeInv
  <1>2. /\ Height(open, k) \in Nat /\ Height(open, k) <= Len(builder)
        /\ (\E j \in k + 1..Len(open) : HasBuilder(open[j])) => Height(open, k) < Len(builder)
    <2>1. /\ Height(open, k) <= Height(open, Len(open))
          /\ (\E j \in k + 1..Len(open) : HasBuilder(open[j])) =>
               Height(open, k) < Height(open, Len(open))
      BY <1>1, IndexOrder
    <2>2. Height(open, Len(open)) = Len(builder)  BY IndexTop
    <2>3. Height(open, k) \in Nat  BY <1>1, IndexStep
    <2> QED  BY <2>1, <2>2, <2>3
  <1>3. CASE Len(builder') > Len(builder)  BY <1>1, <1>2, <1>3
  <1>4. CASE Len(builder') = Len(builder) /\ HasBuilder(Top) /\ m < Len(open)
    <2>1. Len(open) \in k + 1..Len(open)  BY <1>1, <1>4
    <2>2. Height(open, k) < Len(builder)  BY <1>2, <1>4, <2>1 DEF Top
    <2> QED  BY <1>1, <1>2, <1>4, <2>2
  <1> QED  BY <1>3, <1>4

\* ... or it goes on in the current block now.
LEMMA LeavesOne ==
  ASSUME NEW m, \/ Cur' = builder[Len(builder')]
                \/ blocks'[builder[Len(builder')]].closed /\ Cur' > Method'.first
  PROVE  Leaves(m)
  BY DEF Leaves, CodeAt

\* Causes.
LEMMA BlameAt ==
  ASSUME Inv, status = "unit", NEW what, Blame(what) \/ (what = {} /\ causes' = causes)
  PROVE  /\ Blames
         /\ \A f \in Fns : \A c : c \in causes'[f] <=> c \in causes[f] \/ (f = Method.fn /\ c \in what)
  <1>1. causes \in [Fns -> SUBSET {"alloca", "clause", "pad"}] /\ Method.fn \in Fns
    BY Context DEF Inv, TypeInv
  <1>2. \A f \in Fns : causes'[f] = causes[f] \cup (IF f = Method.fn THEN what ELSE {})
    BY <1>1 DEF Blame
  <1>3. \A f \in Fns : \A c : c \in causes'[f] <=> c \in causes[f] \/ (f = Method.fn /\ c \in what)
    BY <1>2
  <1> QED  BY <1>3 DEF Blames

\* A slot that comes too late is one of the causes.
SlotCause(need) == {c \in {"alloca"} : need /\ Method.left}

LEMMA ShowsSlot ==
  ASSUME Inv, Flow, status = "unit", NEW need, NEW more, "alloca" \notin more,
         Blame(SlotCause(need) \cup more)
  PROVE  /\ \A b \in SlotLate(need) : b \in Blocks /\ causes'[blocks[b].fn] # {}
         /\ \A f \in Fns : "alloca" \in causes'[f] =>
              "alloca" \in causes[f] \/ \E b \in SlotLate(need) : b \in Blocks /\ blocks[b].fn = f
  <1>1. /\ Method.fn \in Fns /\ Method.first \in Blocks /\ blocks[Method.first].fn = Method.fn
    BY Where
  <1>2. \A f \in Fns : \A c : c \in causes'[f] <=>
          c \in causes[f] \/ (f = Method.fn /\ c \in SlotCause(need) \cup more)
    BY BlameAt
  <1>3. ASSUME NEW b \in SlotLate(need) PROVE b \in Blocks /\ causes'[blocks[b].fn] # {}
    <2>1. b = Method.first /\ "alloca" \in SlotCause(need)  BY DEF SlotLate, SlotCause
    <2> QED  BY <1>1, <1>2, <2>1
  <1>4. ASSUME NEW f \in Fns, "alloca" \in causes'[f], "alloca" \notin causes[f]
        PROVE  \E b \in SlotLate(need) : b \in Blocks /\ blocks[b].fn = f
    <2>1. f = Method.fn /\ "alloca" \in SlotCause(need)  BY <1>2, <1>4
    <2>2. Method.first \in SlotLate(need)  BY <2>1 DEF SlotLate, SlotCause
    <2> QED  BY <1>1, <2>1, <2>2
  <1> QED  BY <1>3, <1>4

-----------------------------------------------------------------------------
(* The actions.                                                            *)

\* The method stays, and is left if its first block gets a terminator.
SameMethod(C) ==
  /\ Same(methods') /\ Len(methods') = Len(methods)
  /\ \A i \in 1..Len(methods) : i < Len(methods) => methods'[i] = methods[i]
  /\ methods'[Len(methods)].left <=> Method.left \/ Method.first \in C

LEMMA SameMethodBy ==
  ASSUME Inv, status = "unit", NEW C,
         \/ methods' = methods /\ Method.first \notin C
         \/ \E xs : methods' = WithLocals(xs) /\ Method.first \notin C
         \/ \E b : methods' = Leaving(b) /\ (Method.first \in C <=> b = Method.first)
  PROVE  SameMethod(C)
  <1>1. CASE methods' = methods /\ Method.first \notin C
    BY <1>1, MethodAt DEF SameMethod
  <1>2. ASSUME NEW xs, methods' = WithLocals(xs) /\ Method.first \notin C PROVE SameMethod(C)
    BY <1>2, MethodAt DEF SameMethod
  <1>3. ASSUME NEW b, methods' = Leaving(b) /\ (Method.first \in C <=> b = Method.first)
        PROVE  SameMethod(C)
    BY <1>3, MethodAt DEF SameMethod
  <1> QED  BY <1>1, <1>2, <1>3

LEMMA SameMethodFacts ==
  ASSUME Inv, status = "unit", NEW C, SameMethod(C)
  PROVE  /\ Method'.fn = Method.fn /\ Method'.first = Method.first /\ Same(methods') /\ Lefts(C)
         /\ serial' = serial /\ blocks'[Cur'].fn = Method.fn => Numbers
  <1>1. Len(methods) \in Nat /\ Len(methods) >= 1 /\ methods[Len(methods)] = Method  BY MethodAt
  <1>2. Method' = methods'[Len(methods)] /\ Len(methods) \in 1..Len(methods)
    BY <1>1 DEF SameMethod, Method
  <1>3. Method'.fn = Method.fn /\ Method'.first = Method.first
    BY <1>1, <1>2 DEF SameMethod, Same
  <1>4. Lefts(C)  BY <1>1 DEF SameMethod, Lefts
  <1>5. serial' = serial /\ blocks'[Cur'].fn = Method.fn => Numbers
    BY <1>1, <1>3 DEF SameMethod, Numbers
  <1> QED  BY <1>3, <1>4, <1>5 DEF SameMethod

\* Code that stays in its block.
LEMMA QuietFlow ==
  ASSUME Inv, Inv', Flow, status = "unit", UNCHANGED <<builder, serial, open, status>>,
         NEW need, Written(blocks', Method.fn, {}, SlotLate(need), {}),
         Len(blocks') = Len(blocks), SameMethod({}), Blame(SlotCause(need) \cup {})
  PROVE  Flow'
  <1> DEFINE n == Len(open)
  <1>1. /\ n \in Nat /\ Len(blocks) \in Nat /\ Cur \in Blocks /\ ~blocks[Cur].closed
        /\ blocks[Cur].fn = Method.fn
    BY Where
  <1>2. Method'.fn = Method.fn /\ Same(methods') /\ Lefts({})
        /\ (serial' = serial /\ blocks'[Cur'].fn = Method.fn => Numbers)
    BY SameMethodFacts
  <1>3. Cur' = Cur /\ Len(builder') = Len(builder)  BY DEF Cur
  <1>4. Built({}, SlotLate(need), {})  BY <1>2 DEF Built
  <1>5. Kept(n) /\ Len(open') = n
    <2>1. Below(builder')  BY DEF Below
    <2> QED  BY <1>2, <2>1, KeptAll
  <1>6. ~blocks'[Cur'].closed /\ blocks'[Cur'].fn = Method.fn  BY <1>1, <1>3 DEF Written
  <1>7. Hands(n, {})
    <2>1. Len(open') # n + 1  BY <1>1, <1>5
    <2>2. \A b \in Blocks' : Pool(n, b) => b = Cur'
      <3>1. ~(Len(open) = n + 1)  BY <1>1
      <3>2. \A b \in Blocks' : ~(b > Len(blocks))  BY <1>1 DEF Blocks
      <3> QED  BY <1>3, <3>1, <3>2 DEF Pool
    <2>3. Pool(n, Cur')  BY <1>3 DEF Pool
    <2> QED  BY <1>6, <2>1, <2>2, <2>3 DEF Hands
  <1>8. Numbers  BY <1>2, <1>6
  <1>9. Leaves(n)
    <2>1. Cur' = builder[Len(builder')]  BY DEF Cur
    <2> QED  BY <2>1, LeavesOne
  <1>10. /\ Blames
         /\ \A f \in Fns : \A c : c \in causes'[f] <=>
              c \in causes[f] \/ (f = Method.fn /\ c \in SlotCause(need) \cup {})
    BY BlameAt
  <1>11. Shows(n, SlotLate(need), {})
    <2>1. /\ \A b \in SlotLate(need) : b \in Blocks /\ causes'[blocks[b].fn] # {}
          /\ \A f \in Fns : "alloca" \in causes'[f] =>
               \/ "alloca" \in causes[f]
               \/ \E b \in SlotLate(need) : b \in Blocks /\ blocks[b].fn = f
      BY ShowsSlot
    <2>2. \A f \in Fns : /\ "pad" \in causes'[f] => "pad" \in causes[f]
                         /\ "clause" \in causes'[f] => "clause" \in causes[f]
      BY <1>10 DEF SlotCause
    <2>3. Len(open) # n + 1  BY <1>1
    <2> QED  BY <2>1, <2>2, <2>3 DEF Shows
  <1>12. Len(open') # n + 1  BY <1>1, <1>5
  <1>13. Moves(n, {}, SlotLate(need), {})
    BY <1>2, <1>4, <1>5, <1>7, <1>8, <1>9, <1>10, <1>11, <1>12 DEF Moves
  <1> HIDE DEF n
  <1> QED  BY <1>13, FlowStep

\* An instruction in the current block, after a slot has been made if it needs one.
LEMMA WrittenCode ==
  ASSUME Inv, Flow, status = "unit", NEW need \in BOOLEAN
  PROVE  LET bs == Instr(IF need THEN Alloca(blocks) ELSE blocks, Cur)
         IN  Written(bs, Method.fn, {}, SlotLate(need), {}) /\ Len(bs) = Len(blocks)
  <1> DEFINE s == IF need THEN Alloca(blocks) ELSE blocks
  <1>1. Written(s, Method.fn, {}, SlotLate(need), {}) /\ Len(s) = Len(blocks)  BY WrittenSlot
  <1> HIDE DEF s
  <1>2. Cur \in Blocks /\ ~blocks[Cur].closed  BY Where
  <1>3. Cur \in 1..Len(s) /\ ~s[Cur].closed  BY <1>1, <1>2 DEF Written, Blocks
  <1>4. Written(Instr(s, Cur), Method.fn, {}, SlotLate(need), {}) /\ Len(Instr(s, Cur)) = Len(s)
    BY <1>1, <1>3, WrittenInstr
  <1> QED  BY <1>1, <1>4 DEF s

LEMMA SimpleFlow == ASSUME Inv, Inv', Flow, Simple PROVE Flow'
  <1>1. status = "unit" /\ UNCHANGED <<builder, serial, open, status, methods, causes>>
    BY DEF Simple, AtExpression
  <1> DEFINE s == IF FALSE THEN Alloca(blocks) ELSE blocks
  <1>2. blocks' = Instr(s, Cur)  BY DEF Simple
  <1>3. Written(blocks', Method.fn, {}, SlotLate(FALSE), {}) /\ Len(blocks') = Len(blocks)
    <2>1. FALSE \in BOOLEAN  OBVIOUS
    <2> QED  BY <1>1, <1>2, <2>1, WrittenCode
  <1>4. SameMethod({})  BY <1>1, SameMethodBy
  <1>5. Blame(SlotCause(FALSE) \cup {})
    <2>1. SlotCause(FALSE) \cup {} = {}  BY DEF SlotCause
    <2>2. causes \in [Fns -> SUBSET {"alloca", "clause", "pad"}] /\ Method.fn \in Fns
      BY <1>1, Context DEF Inv, TypeInv
    <2>3. causes' = [causes EXCEPT ![Method.fn] = @ \cup {}]  BY <1>1, <2>2
    <2> QED  BY <2>1, <2>3 DEF Blame
  <1> QED  BY <1>1, <1>3, <1>4, <1>5, QuietFlow

LEMMA SlotCauseAt ==
  ASSUME NEW need \in BOOLEAN
  PROVE  (IF need THEN AllocaCause ELSE {}) = SlotCause(need)
  BY DEF AllocaCause, SlotCause

LEMMA AssignLocalFlow ==
  ASSUME NEW x \in Locals, Inv, Inv', Flow, AssignLocal(x) PROVE Flow'
  <1>1. status = "unit" /\ UNCHANGED <<builder, serial, open, status>>
    BY DEF AssignLocal, AtExpression
  <1> DEFINE need == NeedsSlot({x})
             s == IF need THEN Alloca(blocks) ELSE blocks
  <1>2. need \in BOOLEAN  BY DEF NeedsSlot
  <1>3. blocks' = Instr(s, Cur)  BY DEF AssignLocal, CreateLocal
  <1>4. methods' = WithLocals({x}) /\ Blame(IF need THEN AllocaCause ELSE {})
    BY DEF AssignLocal, LocalCause
  <1> HIDE DEF need
  <1>5. Written(blocks', Method.fn, {}, SlotLate(need), {}) /\ Len(blocks') = Len(blocks)
    BY <1>1, <1>2, <1>3, WrittenCode
  <1>6. SameMethod({})  BY <1>1, <1>4, SameMethodBy
  <1>7. Blame(SlotCause(need) \cup {})
    <2>1. SlotCause(need) \cup {} = (IF need THEN AllocaCause ELSE {})
      BY <1>2, SlotCauseAt
    <2> QED  BY <1>4, <2>1
  <1> QED  BY <1>1, <1>5, <1>6, <1>7, QuietFlow

LEMMA CallFlow ==
  ASSUME NEW need \in BOOLEAN, Inv, Inv', Flow, Call(need) PROVE Flow'
  <1>1. status = "unit" /\ UNCHANGED <<builder, serial, open, status, methods>>
    BY DEF Call, AtExpression
  <1> DEFINE s == IF need THEN Alloca(blocks) ELSE blocks
  <1>3. blocks' = Instr(s, Cur)  BY DEF Call, PassArgs
  <1>4. Blame(IF need THEN AllocaCause ELSE {})  BY DEF Call, ArgsCause
  <1>5. Written(blocks', Method.fn, {}, SlotLate(need), {}) /\ Len(blocks') = Len(blocks)
    BY <1>1, <1>3, WrittenCode
  <1>6. SameMethod({})  BY <1>1, SameMethodBy
  <1>7. Blame(SlotCause(need) \cup {})
    <2>1. SlotCause(need) \cup {} = (IF need THEN AllocaCause ELSE {})  BY SlotCauseAt
    <2> QED  BY <1>4, <2>1
  <1> QED  BY <1>1, <1>5, <1>6, <1>7, QuietFlow

\* The active landing pad is one of the function's own exactly if the code is in
\* the body of a begin of this function.
LEMMA PadWhere ==
  ASSUME Inv, Flow, status = "unit", landingpad # NoBlock
  PROVE  landingpad \in Blocks /\ (WrittenIn # NoBlock <=> blocks[landingpad].fn = Method.fn)
  <1> DEFINE n == Len(open)
  <1>1. n \in Nat /\ n >= 1 /\ n \in 1..n  BY Where
  <1>2. PadAt(n) = landingpad  BY DEF PadAt
  <1>3. Level(open, n) = Len(methods)  BY IndexTop
  <1>4. /\ landingpad \in Blocks
        /\ \E i \in 1..Len(methods) :
             blocks[landingpad].fn = methods[i].fn /\ (Covered(open, n) <=> i = Len(methods))
    BY <1>1, <1>2, <1>3 DEF Flow, PadFnInv, PadFnAt
  <1>5. PICK i \in 1..Len(methods) :
          blocks[landingpad].fn = methods[i].fn /\ (Covered(open, n) <=> i = Len(methods))
    BY <1>4
  <1>6. Covered(open, n) <=> EnclosingBegins # {}  BY DEF Covered, EnclosingBegins, InBody
  <1>7. EnclosingBegins # {} <=> WrittenIn # NoBlock
    <2>1. EnclosingBegins # {} => WrittenIn = landingpad  BY WrittenInIsActive DEF Inv
    <2>2. EnclosingBegins = {} => WrittenIn = NoBlock  BY DEF WrittenIn
    <2> QED  BY <2>1, <2>2
  <1>8. Len(methods) \in 1..Len(methods) /\ Method = methods[Len(methods)]
    BY Heights DEF Inv, Method
  <1>9. methods[i].fn = Method.fn <=> i = Len(methods)  BY <1>8 DEF Flow, FnInv
  <1> QED  BY <1>4, <1>5, <1>6, <1>7, <1>9

LEMMA InvokeFlow ==
  ASSUME NEW need \in BOOLEAN, Inv, Inv', Flow, Invoke(need) PROVE Flow'
  <1> DEFINE n == Len(open)
             C == {Cur}
             L == SlotLate(need)
             R == {Fresh, landingpad}
             more == IF WrittenIn = NoBlock THEN {"pad"} ELSE {}
             s == Instr(IF need THEN Alloca(blocks) ELSE blocks, Cur)
             t == Term(s, Cur, R)
  <1>1. status = "unit" /\ UNCHANGED <<serial, open, status>> /\ landingpad # NoBlock
    BY DEF Invoke, AtExpression
  <1>2. builder' = Position(Fresh) /\ methods' = Leaving(Cur) /\ blocks' = AppendBlocks(t, 1)
    BY DEF Invoke, PassArgs
  <1>3. /\ n \in Nat /\ Len(blocks) \in Nat /\ Cur \in Blocks /\ ~blocks[Cur].closed
        /\ blocks[Cur].fn = Method.fn /\ Method.fn \in Fns /\ Method.first \in Blocks
    BY <1>1, Where
  <1>4. Fresh = Len(blocks) + 1 /\ Fresh \in Nat /\ landingpad \in Nat  BY <1>1, Context
  <1>5. Written(s, Method.fn, {}, L, {}) /\ Len(s) = Len(blocks)  BY <1>1, WrittenCode
  <1> HIDE DEF s, L, n
  <1>6. Written(t, Method.fn, C, L, R) /\ Len(t) = Len(blocks)
    <2>1. R \in SUBSET Nat  BY <1>4
    <2> QED  BY <1>3, <1>5, <2>1, WrittenTerm
  <1> HIDE DEF t, C, R
  <1>7. Written(blocks', Method.fn, C, L, R) /\ Len(blocks') = Len(blocks) + 1
    BY <1>1, <1>2, <1>6, WrittenAppend
  <1>8. SameMethod(C)
    <2>1. Method.first \in C <=> Cur = Method.first  BY DEF C
    <2> QED  BY <1>1, <1>2, <2>1, SameMethodBy
  <1>9. /\ Method'.fn = Method.fn /\ Method'.first = Method.first /\ Same(methods') /\ Lefts(C)
        /\ (serial' = serial /\ blocks'[Cur'].fn = Method.fn => Numbers)
    BY <1>1, <1>8, SameMethodFacts
  <1>10. Built(C, L, R)  BY <1>7, <1>9 DEF Built
  <1>11. /\ Len(builder') = Len(builder) /\ Cur' = Fresh /\ Below(builder')
         /\ builder[Len(builder')] = Cur
    BY <1>1, <1>2, BuilderAt DEF Cur
  <1>12. Kept(n) /\ Len(open') = n  BY <1>1, <1>9, <1>11, KeptAll DEF n
  <1>13. Fresh \in Blocks' /\ blocks'[Fresh].fn = Method.fn /\ ~blocks'[Fresh].closed
         /\ blocks'[Cur].closed
    <2>1. Fresh \in Len(blocks) + 1..Len(blocks')  BY <1>3, <1>4, <1>7
    <2>2. Empty(blocks'[Fresh], Method.fn)  BY <1>7, <2>1 DEF Written
    <2>3. blocks'[Cur].closed  BY <1>3, <1>7 DEF Written, C
    <2>4. Fresh \in Blocks'  BY <1>3, <1>4, <1>7 DEF Blocks
    <2> QED  BY <2>2, <2>3, <2>4 DEF Empty
  <1>14. Hands(n, C)
    <2>1. Len(open') # n + 1 /\ Len(open) # n + 1  BY <1>3, <1>12 DEF n
    <2>2. \A b \in Blocks' : Pool(n, b) => b = Fresh \/ b = Cur
      <3>1. \A b \in Blocks' : b > Len(blocks) => b = Fresh  BY <1>3, <1>4, <1>7 DEF Blocks
      <3> QED  BY <2>1, <3>1 DEF Pool
    <2>3. Pool(n, Cur) /\ Pool(n, Fresh)  BY <1>3, <1>4 DEF Pool
    <2>4. \A b \in C : b = Cur  BY DEF C
    <2> QED  BY <1>3, <1>11, <1>13, <2>1, <2>2, <2>3, <2>4 DEF Hands
  <1>15. Numbers  BY <1>1, <1>9, <1>11, <1>13
  <1>16. Leaves(n)
    <2>1. Fresh > Method.first  BY <1>3, <1>4 DEF Blocks
    <2> QED  BY <1>9, <1>11, <1>13, <2>1, LeavesOne
  <1>17. Blame(SlotCause(need) \cup more)
    <2>1. (IF need THEN AllocaCause ELSE {}) = SlotCause(need)  BY SlotCauseAt
    <2> QED  BY <2>1 DEF Invoke, ArgsCause
  <1>18. /\ Blames
         /\ \A f \in Fns : \A c : c \in causes'[f] <=>
              c \in causes[f] \/ (f = Method.fn /\ c \in SlotCause(need) \cup more)
    BY <1>1, <1>17, BlameAt
  <1>19. landingpad \in Blocks /\ (WrittenIn # NoBlock <=> blocks[landingpad].fn = Method.fn)
    BY <1>1, PadWhere
  <1>20. landingpad \in Blocks' /\ blocks'[landingpad].fn = blocks[landingpad].fn
    BY <1>3, <1>7, <1>19 DEF Written, Blocks
  <1>21. "alloca" \notin more /\ "clause" \notin more /\ ("pad" \in more <=> WrittenIn = NoBlock)
    OBVIOUS
  <1> HIDE DEF more
  <1>22. Shows(n, L, R)
    <2>1. /\ \A b \in L : b \in Blocks /\ causes'[blocks[b].fn] # {}
          /\ \A f \in Fns : "alloca" \in causes'[f] =>
               "alloca" \in causes[f] \/ \E b \in L : b \in Blocks /\ blocks[b].fn = f
      BY <1>1, <1>17, <1>21, ShowsSlot DEF L
    <2>2. \A f \in Fns : "clause" \in causes'[f] => "clause" \in causes[f]
      BY <1>18, <1>21 DEF SlotCause
    <2>3. \A c \in R : "pad" \in causes'[Method.fn] \/ (c \in Blocks' /\ blocks'[c].fn = Method.fn)
      <3>1. CASE WrittenIn = NoBlock  BY <1>3, <1>18, <1>21, <3>1
      <3>2. CASE WrittenIn # NoBlock  BY <1>13, <1>19, <1>20, <3>2 DEF R
      <3> QED  BY <3>1, <3>2
    <2>4. ASSUME NEW f \in Fns, "pad" \in causes'[f], "pad" \notin causes[f]
          PROVE  \E b \in Blocks : /\ blocks[b].fn = f
                                   /\ \E c \in blocks'[b].to : c \in Blocks' /\ blocks'[c].fn # f
      <3>1. f = Method.fn /\ WrittenIn = NoBlock  BY <1>18, <1>21, <2>4 DEF SlotCause
      <3>2. landingpad \in blocks'[Cur].to
        <4>1. t[Cur].to = s[Cur].to \cup R /\ Cur \in 1..Len(t) /\ t \in Seq(BlockRec)
          <5>1. s \in Seq(BlockRec) /\ Cur \in 1..Len(s)  BY <1>3, <1>5 DEF Written, Blocks
          <5>2. R \in SUBSET Nat  BY <1>4 DEF R
          <5>3. Term(s, Cur, R)[Cur].to = s[Cur].to \cup R  BY <5>1, <5>2, TermAt
          <5> QED  BY <1>5, <1>6, <5>1, <5>3 DEF t, Written
        <4>2. blocks'[Cur] = t[Cur]
          <5>1. 1 \in Nat  OBVIOUS
          <5> QED  BY <1>2, <1>3, <4>1, <5>1, AppendAt
        <4> QED  BY <4>1, <4>2 DEF R
      <3> QED  BY <1>3, <1>19, <1>20, <3>1, <3>2
    <2>5. Len(open) # n + 1  BY <1>3 DEF n
    <2> QED  BY <2>1, <2>2, <2>3, <2>4, <2>5 DEF Shows
  <1>23. Len(open') # n + 1  BY <1>3, <1>12
  <1>24. Moves(n, C, L, R)
    BY <1>9, <1>10, <1>12, <1>14, <1>15, <1>16, <1>18, <1>22, <1>23 DEF Moves
  <1>25. status' = "unit"  BY <1>1
  <1> QED  BY <1>1, <1>24, <1>25, FlowStep

LEMMA WrittenPush ==
  ASSUME Inv, NEW bs, NEW fn, NEW C, NEW L, NEW R, Written(bs, fn, C, L, R),
         NEW r \in BlockRec, Empty(r, fn)
  PROVE  Written(Append(bs, r), fn, C, L, R) /\ Len(Append(bs, r)) = Len(bs) + 1
  <1> DEFINE t == Append(bs, r)
  <1>1. /\ bs \in Seq(BlockRec) /\ Len(bs) \in Nat /\ Len(blocks) \in Nat
        /\ \A x \in Blocks : x \in 1..Len(bs)
        /\ \A x \in Len(blocks) + 1..Len(bs) : x \in 1..Len(bs)
    BY WrittenBlock
  <1>0. Len(blocks) <= Len(bs)  BY DEF Written
  <1>2. /\ t \in Seq(BlockRec) /\ Len(t) = Len(bs) + 1 /\ t[Len(bs) + 1] = r
        /\ \A x \in 1..Len(bs) : t[x] = bs[x]
    BY <1>1
  <1> HIDE DEF t
  <1>3. \A x \in Len(blocks) + 1..Len(t) : x \in Len(blocks) + 1..Len(bs) \/ x = Len(bs) + 1
    BY <1>0, <1>1, <1>2
  <1>4. \A x \in Len(blocks) + 1..Len(t) : Empty(t[x], fn)
    BY <1>1, <1>2, <1>3 DEF Written
  <1>5. \A x \in Blocks : t[x] = bs[x]  BY <1>1, <1>2
  <1>6. Len(blocks) <= Len(t)  BY <1>0, <1>1, <1>2
  <1>7. Written(t, fn, C, L, R)  BY <1>2, <1>4, <1>5, <1>6 DEF Written
  <1> QED  BY <1>2, <1>7 DEF t

LEMMA FrameEmpty ==
  ASSUME NEW kind, NEW hole, NEW base
  PROVE  /\ Frame(kind, hole, base).kind = kind /\ Frame(kind, hole, base).hole = hole
         /\ Frame(kind, hole, base).base = base
         /\ Frame(kind, hole, base).rescue_impls = {}
         /\ DOMAIN Frame(kind, hole, base).type_tests = {}
  BY DEF Frame

\* A step without causes.
LEMMA ShowsNone ==
  ASSUME Inv, status = "unit", causes' = causes, NEW m, NEW R,
         \A c \in R : c \in Blocks' /\ blocks'[c].fn = Method.fn,
         Len(open) = m + 1 /\ Handling(Top) =>
           /\ Len(open') = m + 1 /\ Handling(open'[m + 1]) /\ Method'.fn = Method.fn
           /\ Top.rescue_impls \subseteq open'[m + 1].rescue_impls
  PROVE  Blames /\ Shows(m, {}, R)
  BY DEF Blames, Shows

\* A step with a slot.
LEMMA ShowsOnlySlot ==
  ASSUME Inv, Flow, status = "unit", NEW need \in BOOLEAN, NEW m, NEW R,
         Blame(IF need THEN AllocaCause ELSE {}),
         \A c \in R : c \in Blocks' /\ blocks'[c].fn = Method.fn,
         Len(open) = m + 1 /\ Handling(Top) =>
           /\ Len(open') = m + 1 /\ Handling(open'[m + 1]) /\ Method'.fn = Method.fn
           /\ Top.rescue_impls \subseteq open'[m + 1].rescue_impls
  PROVE  Blames /\ Shows(m, SlotLate(need), R)
  <1>1. Blame(SlotCause(need) \cup {})
    <2>1. SlotCause(need) \cup {} = (IF need THEN AllocaCause ELSE {})  BY SlotCauseAt
    <2> QED  BY <2>1
  <1>2. /\ Blames
        /\ \A f \in Fns : \A c : c \in causes'[f] <=>
             c \in causes[f] \/ (f = Method.fn /\ c \in SlotCause(need) \cup {})
    BY <1>1, BlameAt
  <1>3. /\ \A b \in SlotLate(need) : b \in Blocks /\ causes'[blocks[b].fn] # {}
        /\ \A f \in Fns : "alloca" \in causes'[f] =>
             "alloca" \in causes[f] \/ \E b \in SlotLate(need) : b \in Blocks /\ blocks[b].fn = f
    BY <1>1, ShowsSlot
  <1>4. \A f \in Fns : /\ "pad" \in causes'[f] => "pad" \in causes[f]
                       /\ "clause" \in causes'[f] => "clause" \in causes[f]
    BY <1>2 DEF SlotCause
  <1> QED  BY <1>2, <1>3, <1>4 DEF Shows

LEMMA OpenTestFlow ==
  ASSUME NEW kind, NEW cnt, (kind = "if" /\ cnt = 4) \/ (kind = "while" /\ cnt = 3),
         Inv, Inv', Flow, OpenTest(kind, cnt)
  PROVE  Flow'
  <1> DEFINE n == Len(open)
             C == {Cur}
             L == SlotLate(TRUE)
             R == {Fresh}
             s == IF TRUE THEN Alloca(blocks) ELSE blocks
             t == Term(s, Cur, R)
             f == Frame(kind, "cond", Fresh)
  <1>1. status = "unit" /\ UNCHANGED <<serial, status>>  BY DEF OpenTest, AtStatement
  <1>2. builder' = PushBuilder(Fresh) /\ methods' = Leaving(Cur) /\ blocks' = AppendBlocks(t, cnt)
        /\ open' = Append(open, f)
    BY DEF OpenTest, Opened
  <1>3. /\ n \in Nat /\ n >= 1 /\ Len(blocks) \in Nat /\ Cur \in Blocks /\ ~blocks[Cur].closed
        /\ blocks[Cur].fn = Method.fn /\ Method.fn \in Fns /\ Method.first \in Blocks
    BY <1>1, Where
  <1>4. Fresh = Len(blocks) + 1 /\ Fresh \in Nat  BY <1>1, Context
  <1>f. f.kind = kind /\ f.hole = "cond" /\ f.base = Fresh  BY FrameEmpty
  <1> HIDE DEF f
  <1>5. Written(s, Method.fn, {}, L, {}) /\ Len(s) = Len(blocks)
    <2>1. TRUE \in BOOLEAN  OBVIOUS
    <2> QED  BY <1>1, <2>1, WrittenSlot
  <1> HIDE DEF s, L, n
  <1>6. Written(t, Method.fn, C, L, R) /\ Len(t) = Len(blocks)
    <2>1. R \in SUBSET Nat  BY <1>4
    <2> QED  BY <1>3, <1>5, <2>1, WrittenTerm
  <1> HIDE DEF t, C, R
  <1>7. Written(blocks', Method.fn, C, L, R) /\ Len(blocks') = Len(blocks) + cnt
    BY <1>1, <1>2, <1>6, WrittenAppend
  <1>8. SameMethod(C)
    <2>1. Method.first \in C <=> Cur = Method.first  BY DEF C
    <2> QED  BY <1>1, <1>2, <2>1, SameMethodBy
  <1>9. /\ Method'.fn = Method.fn /\ Method'.first = Method.first /\ Same(methods') /\ Lefts(C)
        /\ (serial' = serial /\ blocks'[Cur'].fn = Method.fn => Numbers)
    BY <1>1, <1>8, SameMethodFacts
  <1>10. Built(C, L, R)  BY <1>7, <1>9 DEF Built
  <1>11. /\ Len(builder') = Len(builder) + 1 /\ Cur' = Fresh /\ Below(builder')
         /\ builder'[Len(builder') - 1] = Cur /\ Len(builder) \in Nat
    BY <1>1, <1>2, BuilderAt DEF Cur
  <1>12. Kept(n) /\ Len(open') = n + 1 /\ open'[n + 1] = f
    BY <1>1, <1>2, <1>9, <1>11, KeptAll DEF n
  <1>13. \A b \in Fresh..Fresh + (cnt - 1) :
           /\ b \in Blocks' /\ blocks'[b].fn = Method.fn /\ ~blocks'[b].closed /\ b > Len(blocks)
    <2> SUFFICES ASSUME NEW b \in Fresh..Fresh + (cnt - 1)
                 PROVE  /\ b \in Blocks' /\ blocks'[b].fn = Method.fn /\ ~blocks'[b].closed
                        /\ b > Len(blocks)
      OBVIOUS
    <2>1. b \in Len(blocks) + 1..Len(blocks') /\ b \in Blocks' /\ b > Len(blocks)
      BY <1>3, <1>4, <1>7 DEF Blocks
    <2>2. Empty(blocks'[b], Method.fn)  BY <1>7, <2>1 DEF Written
    <2> QED  BY <2>1, <2>2 DEF Empty
  <1>14. blocks'[Cur].closed  BY <1>3, <1>7 DEF Written, C
  <1>15. /\ \A b : Waits(f, b) <=> b \in Fresh + 1..Fresh + (cnt - 1)
         /\ \A b : Owned(f, b) <=> b \in Fresh..Fresh + (cnt - 1)
         /\ ~Handling(f) /\ f.kind # "def" /\ HasBuilder(f) /\ ~InBody(f)
    BY <1>4, <1>f DEF Waits, Owned, Handling, HasBuilder, InBody
  <1>16. \A b : Pend(Len(open), b)' <=> Waits(f, b)
    BY <1>12, <1>15 DEF Pend
  <1>17. Hands(n, C)
    <2>1. Len(open) # n + 1  BY <1>3 DEF n
    <2>2. Pool(n, Cur) /\ \A b \in Fresh..Fresh + (cnt - 1) : Pool(n, b)  BY <1>13 DEF Pool
    <2>3. \A b \in C : b = Cur  BY DEF C
    <2>4. Fresh \in Fresh..Fresh + (cnt - 1)
          /\ \A b \in Fresh + 1..Fresh + (cnt - 1) : b # Fresh /\ b \in Fresh..Fresh + (cnt - 1)
      BY <1>4
    <2>5. \A b \in Blocks' : ~blocks'[b].closed /\ Pool(n, b) =>
            b = Fresh \/ b \in Fresh + 1..Fresh + (cnt - 1)
      <3>1. \A b \in Blocks' : b > Len(blocks) => b = Fresh \/ b \in Fresh + 1..Fresh + (cnt - 1)
        BY <1>3, <1>4, <1>7 DEF Blocks
      <3> QED  BY <1>14, <2>1, <3>1 DEF Pool
    <2>6. \A b : Pend(Len(open), b)' => ~blocks'[b].closed /\ b # Cur' /\ Pool(n, b)
      BY <1>11, <1>13, <1>15, <1>16, <2>2, <2>4
    <2>7. ~blocks'[Cur'].closed /\ Pool(n, Cur')  BY <1>11, <1>13, <2>2, <2>4
    <2>8. \A b \in Blocks' : ~blocks'[b].closed /\ Pool(n, b) =>
            b = Cur' \/ (Len(open') = n + 1 /\ Pend(Len(open), b)')
      BY <1>11, <1>12, <1>15, <1>16, <2>5
    <2>9. \A b \in C : b \in Blocks /\ blocks[b].fn = Method.fn /\ Pool(n, b)
      BY <1>3, <2>2, <2>3
    <2> QED  BY <2>6, <2>7, <2>8, <2>9 DEF Hands
  <1>18. Fresh \in Blocks' /\ blocks'[Fresh].fn = Method.fn
    <2>1. Fresh \in Fresh..Fresh + (cnt - 1)  BY <1>4
    <2> QED  BY <1>13, <2>1
  <1>19. Numbers  BY <1>1, <1>9, <1>11, <1>18
  <1>20. Leaves(n)
    <2>1. n \in Nat /\ n <= Len(open) /\ Len(builder') > Len(builder)  BY <1>3, <1>11 DEF n
    <2> QED  BY <1>1, <2>1, LeavesNone
  <1>21. Blames /\ Shows(n, L, R)
    <2>1. \A c \in R : c \in Blocks' /\ blocks'[c].fn = Method.fn  BY <1>18 DEF R
    <2>2. Len(open) # n + 1 /\ TRUE \in BOOLEAN  BY <1>3 DEF n
    <2>3. Blame(IF TRUE THEN AllocaCause ELSE {})  BY DEF OpenTest
    <2> QED  BY <1>1, <2>1, <2>2, <2>3, ShowsOnlySlot DEF L
  <1>22. ClauseAt(Len(open))'
    <2>1. Len(open') >= 2 /\ HasBuilder(open'[Len(open')]) /\ status' = "unit"
      BY <1>1, <1>3, <1>12, <1>15
    <2>2. CodeAt(Len(open) - 1)' = Cur  BY <1>11, <2>1, CodeAroundNext
    <2> QED  BY <1>12, <1>14, <1>15, <2>2 DEF ClauseAt
  <1>23. AfterFirst(Len(open))'
    <2>1. CodeAt(Len(open))' = Fresh /\ FirstAt(Len(open))' = Method.first
      BY <1>1, <1>9, <1>11, IndexTopNext
    <2>2. \A b \in Fresh..Fresh + (cnt - 1) : b > Method.first  BY <1>3, <1>4 DEF Blocks
    <2>3. Fresh > Method.first  BY <1>3, <1>4 DEF Blocks
    <2> QED  BY <1>12, <1>15, <2>1, <2>2, <2>3 DEF AfterFirst
  <1>24. Moves(n, C, L, R)
    BY <1>9, <1>10, <1>12, <1>13, <1>15, <1>17, <1>19, <1>20, <1>21, <1>22, <1>23 DEF Moves
  <1>25. status' = "unit"  BY <1>1
  <1> QED  BY <1>1, <1>24, <1>25, FlowStep

LEMMA OpenBeginFlow ==
  ASSUME NEW r \in BOOLEAN, Inv, Inv', Flow, OpenBegin(r)
  PROVE  Flow'
  <1> DEFINE n == Len(open)
             L == SlotLate(TRUE)
             pad == IF r THEN Fresh ELSE NoBlock
             s == IF TRUE THEN Alloca(blocks) ELSE blocks
             nb == [NewBlock(Method.fn) EXCEPT !.pad = TRUE]
             f == Frame("begin", "body", pad)
  <1>1. status = "unit" /\ UNCHANGED <<serial, status, builder, methods>>
    BY DEF OpenBegin, AtStatement
  <1>2. blocks' = (IF r THEN Append(s, nb) ELSE s) /\ open' = Append(open, f)
    BY DEF OpenBegin, Opened
  <1>3. /\ n \in Nat /\ n >= 1 /\ Len(blocks) \in Nat /\ Cur \in Blocks /\ ~blocks[Cur].closed
        /\ blocks[Cur].fn = Method.fn /\ Method.fn \in Fns /\ Method.first \in Blocks
    BY <1>1, Where
  <1>4. Fresh = Len(blocks) + 1 /\ Fresh \in Nat  BY <1>1, Context
  <1>f. /\ f.kind = "begin" /\ f.hole = "body" /\ f.base = pad
        /\ f.rescue_impls = {} /\ DOMAIN f.type_tests = {}
    BY FrameEmpty
  <1> HIDE DEF f
  <1>5. Written(s, Method.fn, {}, L, {}) /\ Len(s) = Len(blocks)
    <2>1. TRUE \in BOOLEAN  OBVIOUS
    <2> QED  BY <1>1, <2>1, WrittenSlot
  <1>6. nb \in BlockRec /\ Empty(nb, Method.fn)
    <2>1. NewBlock(Method.fn) \in BlockRec  BY <1>3, NewBlockType
    <2>2. nb \in BlockRec  BY <2>1 DEF BlockRec
    <2> QED  BY <2>2, NewBlockEmpty
  <1> HIDE DEF s, L, n, nb
  <1>7. Written(blocks', Method.fn, {}, L, {}) /\ Len(blocks') = Len(blocks) + (IF r THEN 1 ELSE 0)
    <2>1. CASE r  BY <1>2, <1>5, <1>6, <2>1, WrittenPush
    <2>2. CASE ~r  BY <1>2, <1>3, <1>5, <2>2
    <2> QED  BY <2>1, <2>2
  <1>8. SameMethod({})  BY <1>1, SameMethodBy
  <1>9. /\ Method'.fn = Method.fn /\ Method'.first = Method.first /\ Same(methods') /\ Lefts({})
        /\ (serial' = serial /\ blocks'[Cur'].fn = Method.fn => Numbers)
    BY <1>1, <1>8, SameMethodFacts
  <1>10. Built({}, L, {})  BY <1>7, <1>9 DEF Built
  <1>11. Cur' = Cur /\ Below(builder') /\ Cur' = builder[Len(builder')]
    BY <1>1, BuilderAt DEF Cur
  <1>12. Kept(n) /\ Len(open') = n + 1 /\ open'[n + 1] = f
    BY <1>1, <1>2, <1>9, <1>11, KeptAll DEF n
  <1>13. r => /\ Fresh \in Blocks' /\ blocks'[Fresh].fn = Method.fn /\ ~blocks'[Fresh].closed
              /\ Fresh > Len(blocks) /\ Fresh # NoBlock
    <2> SUFFICES ASSUME r
                 PROVE  /\ Fresh \in Blocks' /\ blocks'[Fresh].fn = Method.fn
                        /\ ~blocks'[Fresh].closed /\ Fresh > Len(blocks) /\ Fresh # NoBlock
      OBVIOUS
    <2>1. Fresh \in Len(blocks) + 1..Len(blocks') /\ Fresh \in Blocks' /\ Fresh > Len(blocks)
      BY <1>3, <1>4, <1>7 DEF Blocks
    <2>2. Empty(blocks'[Fresh], Method.fn)  BY <1>7, <2>1 DEF Written
    <2>3. Fresh # NoBlock  BY <1>3, <1>4 DEF NoBlock
    <2> QED  BY <2>1, <2>2, <2>3 DEF Empty
  <1>14. ~blocks'[Cur].closed /\ blocks'[Cur].fn = Method.fn  BY <1>3, <1>7 DEF Written
  <1>15. /\ \A b : Waits(f, b) <=> r /\ b = Fresh
         /\ \A b : Owned(f, b) <=> r /\ b = Fresh
         /\ ~Handling(f) /\ f.kind # "def" /\ InBody(f) /\ ~(f.kind \in {"if", "while"})
    <2>1. InBody(f) /\ ~Handling(f)  BY <1>f DEF InBody, Handling
    <2>2. \A b : (b = f.base /\ b # NoBlock) <=> r /\ b = Fresh  BY <1>f, <1>13
    <2>3. \A b : Waits(f, b) <=> (b = f.base /\ b # NoBlock)
      BY <1>f, <2>1 DEF Waits
    <2>4. \A b : Owned(f, b) <=> (b = f.base /\ b # NoBlock)  BY <1>f DEF Owned
    <2> QED  BY <1>f, <2>1, <2>2, <2>3, <2>4
  <1>16. \A b : Pend(Len(open), b)' <=> r /\ b = Fresh
    BY <1>12, <1>15 DEF Pend
  <1>17. Hands(n, {})
    <2>1. Len(open) # n + 1  BY <1>3 DEF n
    <2>2. Pool(n, Cur) /\ (r => Pool(n, Fresh))  BY <1>13 DEF Pool
    <2>5. \A b \in Blocks' : Pool(n, b) => b = Cur \/ (r /\ b = Fresh)
      <3>1. \A b \in Blocks' : b > Len(blocks) => r /\ b = Fresh
        BY <1>3, <1>4, <1>7 DEF Blocks
      <3> QED  BY <2>1, <3>1 DEF Pool
    <2>6. \A b : Pend(Len(open), b)' => ~blocks'[b].closed /\ b # Cur' /\ Pool(n, b)
      <3>1. r => Fresh # Cur  BY <1>3, <1>4 DEF Blocks
      <3> QED  BY <1>11, <1>13, <1>16, <2>2, <3>1
    <2>7. ~blocks'[Cur'].closed /\ Pool(n, Cur')  BY <1>11, <1>14, <2>2
    <2>8. \A b \in Blocks' : ~blocks'[b].closed /\ Pool(n, b) =>
            b = Cur' \/ (Len(open') = n + 1 /\ Pend(Len(open), b)')
      BY <1>11, <1>12, <1>16, <2>5
    <2> QED  BY <2>6, <2>7, <2>8 DEF Hands
  <1>19. Numbers  BY <1>1, <1>9, <1>11, <1>14
  <1>20. Leaves(n)  BY <1>11, LeavesOne
  <1>21. Blames /\ Shows(n, L, {})
    <2>2. Len(open) # n + 1 /\ TRUE \in BOOLEAN  BY <1>3 DEF n
    <2>3. Blame(IF TRUE THEN AllocaCause ELSE {})  BY DEF OpenBegin
    <2> QED  BY <1>1, <2>2, <2>3, ShowsOnlySlot DEF L
  <1>22. ClauseAt(Len(open))'  BY <1>f, <1>12, <1>15 DEF ClauseAt
  <1>23. AfterFirst(Len(open))'
    <2>1. FirstAt(Len(open))' = Method.first  BY <1>1, <1>9, IndexTopNext
    <2>2. Fresh > Method.first  BY <1>3, <1>4 DEF Blocks
    <2> QED  BY <1>12, <1>15, <2>1, <2>2 DEF AfterFirst
  <1>18. \A b : Owned(open'[n + 1], b) => b \in Blocks' /\ blocks'[b].fn = Method'.fn
    BY <1>9, <1>12, <1>13, <1>15
  <1>24. Moves(n, {}, L, {})
    BY <1>9, <1>10, <1>12, <1>17, <1>18, <1>19, <1>20, <1>21, <1>22, <1>23 DEF Moves
  <1>25. status' = "unit"  BY <1>1
  <1> QED  BY <1>1, <1>24, <1>25, FlowStep

LEMMA OpenClassFlow ==
  ASSUME Inv, Inv', Flow, OpenClass
  PROVE  Flow'
  <1> DEFINE n == Len(open)
             f == Frame("class", "body", NoBlock)
             s == IF FALSE THEN Alloca(blocks) ELSE blocks
  <1>1. status = "unit" /\ UNCHANGED <<serial, status, builder, methods, causes>>
    BY DEF OpenClass, AtStatement
  <1>2. blocks' = Instr(s, Cur) /\ open' = Append(open, f)
    BY DEF OpenClass, Opened
  <1>3. /\ n \in Nat /\ n >= 1 /\ Len(blocks) \in Nat /\ Cur \in Blocks /\ ~blocks[Cur].closed
        /\ blocks[Cur].fn = Method.fn
    BY <1>1, Where
  <1>f. f.kind = "class"  BY FrameEmpty
  <1> HIDE DEF f
  <1>7. Written(blocks', Method.fn, {}, {}, {}) /\ Len(blocks') = Len(blocks)
    <2>1. FALSE \in BOOLEAN  OBVIOUS
    <2>2. Written(blocks', Method.fn, {}, SlotLate(FALSE), {}) /\ Len(blocks') = Len(blocks)
      BY <1>1, <1>2, <2>1, WrittenCode
    <2>3. SlotLate(FALSE) = {}  BY DEF SlotLate
    <2> QED  BY <2>2, <2>3
  <1> HIDE DEF n
  <1>8. SameMethod({})  BY <1>1, SameMethodBy
  <1>9. /\ Method'.fn = Method.fn /\ Same(methods') /\ Lefts({})
        /\ (serial' = serial /\ blocks'[Cur'].fn = Method.fn => Numbers)
    BY <1>1, <1>8, SameMethodFacts
  <1>10. Built({}, {}, {})  BY <1>7, <1>9 DEF Built
  <1>11. Cur' = Cur /\ Below(builder') /\ Cur' = builder[Len(builder')]
    BY <1>1, BuilderAt DEF Cur
  <1>12. Kept(n) /\ Len(open') = n + 1 /\ open'[n + 1] = f
    BY <1>1, <1>2, <1>9, <1>11, KeptAll DEF n
  <1>14. ~blocks'[Cur].closed /\ blocks'[Cur].fn = Method.fn  BY <1>3, <1>7 DEF Written
  <1>15. /\ \A b : ~Waits(f, b) /\ ~Owned(f, b)
         /\ ~Handling(f) /\ f.kind # "def" /\ ~InBody(f) /\ ~(f.kind \in {"if", "while"})
    BY <1>f DEF Waits, Owned, InBody, Handling
  <1>16. \A b : ~Pend(Len(open), b)'  BY <1>12, <1>15 DEF Pend
  <1>17. Hands(n, {})
    <2>1. Len(open) # n + 1  BY <1>3 DEF n
    <2>5. \A b \in Blocks' : Pool(n, b) => b = Cur
      <3>1. \A b \in Blocks' : ~(b > Len(blocks))  BY <1>3, <1>7 DEF Blocks
      <3> QED  BY <2>1, <3>1 DEF Pool
    <2>7. ~blocks'[Cur'].closed /\ Pool(n, Cur')  BY <1>11, <1>14 DEF Pool
    <2> QED  BY <1>11, <1>16, <2>5, <2>7 DEF Hands
  <1>19. Numbers  BY <1>1, <1>9, <1>11, <1>14
  <1>20. Leaves(n)  BY <1>11, LeavesOne
  <1>21. Blames /\ Shows(n, {}, {})
    <2>2. Len(open) # n + 1  BY <1>3 DEF n
    <2> QED  BY <1>1, <2>2, ShowsNone
  <1>22. ClauseAt(Len(open))'  BY <1>12, <1>15 DEF ClauseAt
  <1>23. AfterFirst(Len(open))'  BY <1>12, <1>15 DEF AfterFirst
  <1>24. Moves(n, {}, {}, {})
    BY <1>9, <1>10, <1>12, <1>15, <1>17, <1>19, <1>20, <1>21, <1>22, <1>23 DEF Moves
  <1>25. status' = "unit"  BY <1>1
  <1> QED  BY <1>1, <1>24, <1>25, FlowStep

LEMMA OpenDefFlow ==
  ASSUME NEW xs, Inv, Inv', Flow, OpenDef(xs)
  PROVE  Flow'
  <1> DEFINE n == Len(open)
             l == Len(methods)
             f == Frame("def", "body", Fresh)
             r == [fn |-> serial + 1, first |-> Fresh, locals |-> xs, left |-> FALSE]
             nb == NewBlock(serial + 1)
  <1>1. status = "unit" /\ UNCHANGED <<status, causes>> /\ serial' = serial + 1
    BY DEF OpenDef, AtStatement
  <1>2. /\ blocks' = Append(blocks, nb) /\ open' = Append(open, f) /\ methods' = Append(methods, r)
        /\ builder' = PushBuilder(Fresh)
    BY DEF OpenDef, Opened
  <1>3. /\ n \in Nat /\ n >= 1 /\ Len(blocks) \in Nat /\ Cur \in Blocks /\ ~blocks[Cur].closed
        /\ blocks[Cur].fn = Method.fn /\ Method.fn \in Fns
    BY <1>1, Where
  <1>4. Fresh = Len(blocks) + 1 /\ Fresh \in Nat  BY <1>1, Context
  <1>f. f.kind = "def"  BY FrameEmpty
  <1>r. r.fn = serial + 1 /\ r.first = Fresh /\ r.left = FALSE  OBVIOUS
  <1>6. nb \in BlockRec /\ Empty(nb, serial + 1)
    <2>1. serial + 1 \in Fns
      <3>1. serial + 1 \in 1..MaxMethods  BY BoundsAssumption DEF OpenDef, Inv, TypeInv
      <3> QED  BY <3>1, FnFacts
    <2> QED  BY <2>1, NewBlockType, NewBlockEmpty
  <1> HIDE DEF n, nb, f, r, l
  <1>7. Written(blocks', serial + 1, {}, {}, {}) /\ Len(blocks') = Len(blocks) + 1
    <2>1. Written(blocks, serial + 1, {}, {}, {})  BY WrittenStart
    <2> QED  BY <1>2, <1>6, <2>1, WrittenPush
  <1>8. /\ l \in Nat /\ l >= 1 /\ Same(methods') /\ Len(methods') = l + 1
        /\ methods'[l + 1] = r /\ methods[l] = Method
        /\ \A i \in 1..l : methods'[i] = methods[i]
    BY <1>1, <1>2, MethodAt DEF l
  <1>9. Method' = r  BY <1>8 DEF Method
  <1>10. Built({}, {}, {})  BY <1>7, <1>9, <1>r DEF Built
  <1>11. /\ Len(builder') = Len(builder) + 1 /\ Cur' = Fresh /\ Below(builder')
         /\ builder'[Len(builder') - 1] = Cur /\ Len(builder) \in Nat
    BY <1>1, <1>2, BuilderAt DEF Cur
  <1>12. Kept(n) /\ Len(open') = n + 1 /\ open'[n + 1] = f
    BY <1>1, <1>2, <1>8, <1>11, KeptAll DEF n
  <1>13. /\ Fresh \in Blocks' /\ blocks'[Fresh].fn = serial + 1 /\ ~blocks'[Fresh].closed
         /\ Fresh > Len(blocks) /\ Fresh # Cur
    <2>1. /\ Fresh \in Len(blocks) + 1..Len(blocks') /\ Fresh \in Blocks' /\ Fresh > Len(blocks)
          /\ Fresh # Cur
      BY <1>3, <1>4, <1>7 DEF Blocks
    <2>2. Empty(blocks'[Fresh], serial + 1)  BY <1>7, <2>1 DEF Written
    <2> QED  BY <2>1, <2>2 DEF Empty
  <1>14. ~blocks'[Cur].closed  BY <1>3, <1>7 DEF Written
  <1>15. /\ \A b : ~Waits(f, b) /\ ~Owned(f, b)
         /\ ~Handling(f) /\ ~InBody(f) /\ ~(f.kind \in {"if", "while"}) /\ HasBuilder(f)
    BY <1>f DEF Waits, Owned, InBody, Handling, HasBuilder
  <1>c. CodeAt(Len(open) - 1)' = Cur
    <2>1. Len(open') >= 2 /\ HasBuilder(open'[Len(open')]) /\ status' = "unit"
      BY <1>1, <1>3, <1>12, <1>15
    <2> QED  BY <1>11, <2>1, CodeAroundNext
  <1>16. \A b : Pend(Len(open), b)' <=> b = Cur
    BY <1>12, <1>15, <1>c, <1>f DEF Pend
  <1>17. Hands(n, {})
    <2>1. Len(open) # n + 1  BY <1>3 DEF n
    <2>2. Pool(n, Cur) /\ Pool(n, Fresh)  BY <1>13 DEF Pool
    <2>5. \A b \in Blocks' : Pool(n, b) => b = Cur \/ b = Fresh
      <3>1. \A b \in Blocks' : b > Len(blocks) => b = Fresh  BY <1>3, <1>4, <1>7 DEF Blocks
      <3> QED  BY <2>1, <3>1 DEF Pool
    <2>6. \A b : Pend(Len(open), b)' => ~blocks'[b].closed /\ b # Cur' /\ Pool(n, b)
      BY <1>11, <1>13, <1>14, <1>16, <2>2
    <2>7. ~blocks'[Cur'].closed /\ Pool(n, Cur')  BY <1>11, <1>13, <2>2
    <2>8. \A b \in Blocks' : ~blocks'[b].closed /\ Pool(n, b) =>
            b = Cur' \/ (Len(open') = n + 1 /\ Pend(Len(open), b)')
      BY <1>11, <1>12, <1>16, <2>5
    <2> QED  BY <2>6, <2>7, <2>8 DEF Hands
  <1>18. Lefts({})
    <2>1. methods'[Len(methods)].left <=> Method.left  BY <1>8 DEF l
    <2>2. ~Method'.left /\ ~blocks'[Method'.first].closed  BY <1>9, <1>13, <1>r
    <2>3. \A i \in 1..Len(methods') : i < Len(methods) => methods'[i].left = methods[i].left
      BY <1>8 DEF l
    <2> QED  BY <2>1, <2>2, <2>3 DEF Lefts
  <1>19. Numbers  BY <1>1, <1>8, <1>9, <1>11, <1>13, <1>r DEF Numbers, l
  <1>20. Leaves(n)
    <2>1. n \in Nat /\ n <= Len(open) /\ Len(builder') > Len(builder)  BY <1>3, <1>11 DEF n
    <2> QED  BY <1>1, <2>1, LeavesNone
  <1>21. Blames /\ Shows(n, {}, {})
    <2>2. Len(open) # n + 1  BY <1>3 DEF n
    <2> QED  BY <1>1, <2>2, ShowsNone
  <1>22. ClauseAt(Len(open))'  BY <1>12, <1>15 DEF ClauseAt
  <1>23. AfterFirst(Len(open))'  BY <1>12, <1>15 DEF AfterFirst
  <1>24. Moves(n, {}, {}, {})
    BY <1>10, <1>12, <1>15, <1>17, <1>18, <1>19, <1>20, <1>21, <1>22, <1>23 DEF Moves
  <1>25. status' = "unit"  BY <1>1
  <1> QED  BY <1>1, <1>24, <1>25, FlowStep

\* The last statement goes on to its next part with the builder it has.
LEMMA TopKeeps ==
  ASSUME Inv, Inv', Flow, status = "unit", status' = "unit", Top.kind # "unit",
         HasBuilder(Top), NEW f, HasBuilder(f), open' = [open EXCEPT ![Len(open)] = f],
         Below(builder'), Len(builder') = Len(builder), NEW C, SameMethod(C)
  PROVE  LET m == Len(open) - 1 IN
         /\ m \in Nat /\ m >= 1 /\ m + 1 = Len(open) /\ Kept(m) /\ Leaves(m)
         /\ Len(open') = m + 1 /\ Len(open') = Len(open)
         /\ open'[m + 1] = f /\ open'[Len(open')] = f
         /\ CodeAt(m) \in Blocks
         /\ CodeAt(Len(open) - 1)' = CodeAt(m) /\ CodeAt(Len(open))' = Cur'
         /\ FnAt(Len(open))' = Method.fn /\ FirstAt(Len(open))' = Method.first
         /\ \A b : Pend(Len(open), b)' <=>
              \/ Waits(f, b)
              \/ (f.kind = "def" \/ Handling(f)) /\ b = CodeAt(m)
              \/ Handling(f) /\ b \in Done(f) /\ ~blocks'[b].closed
         /\ \A b : Pend(Len(open), b) <=>
              \/ Waits(Top, b)
              \/ (Top.kind = "def" \/ Handling(Top)) /\ b = CodeAt(m)
              \/ Handling(Top) /\ b \in Done(Top) /\ ~blocks[b].closed
         /\ \A b : Pool(m, b) <=> b > Len(blocks) \/ b = Cur \/ Pend(Len(open), b)
         /\ ClauseAt(Len(open))
  <1> DEFINE m == Len(open) - 1
  <1>1. Len(open) \in Nat /\ Len(open) >= 2 /\ Len(open) \in 1..Len(open)  BY Where
  <1>2. m \in Nat /\ m >= 1 /\ m + 1 = Len(open) /\ m < Len(open) /\ m <= Len(open)
        /\ m \in 1..Len(open)
    BY <1>1
  <1>3. Same(methods') /\ Method'.fn = Method.fn /\ Method'.first = Method.first
    BY SameMethodFacts
  <1>4. /\ Kept(m) /\ Len(open') = m + 1 /\ Len(open') = Len(open) /\ open'[m + 1] = f
        /\ open'[Len(open)] = f
    BY <1>3, KeptAll
  <1>5. Leaves(m)  BY <1>2, LeavesNone
  <1>6. CodeAt(Len(open) - 1)' = builder'[Len(builder') - 1]
    BY <1>1, <1>4, CodeAroundNext
  <1>7. CodeAt(m) = builder[Len(builder) - 1]  BY <1>1, CodeAround
  <1>8. builder'[Len(builder) - 1] = builder[Len(builder) - 1]
    <2>1. Len(builder) \in Nat /\ Len(builder) - 1 >= 1  BY BuilderAt
    <2> QED  BY <2>1 DEF Below
  <1>9. /\ CodeAt(Len(open))' = Cur'
        /\ FnAt(Len(open))' = Method.fn /\ FirstAt(Len(open))' = Method.first
    BY <1>3, IndexTopNext
  <1>10. CodeAt(m) \in Blocks  BY <1>2 DEF Flow, OwnInv, OwnAt
  <1>11. CodeAt(Len(open) - 1)' = CodeAt(m)  BY <1>6, <1>7, <1>8
  <1>12. open'[Len(open')] = f /\ open[Len(open)] = Top  BY <1>4 DEF Top
  <1>13. \A b : Pend(Len(open), b)' <=>
           \/ Waits(f, b)
           \/ (f.kind = "def" \/ Handling(f)) /\ b = CodeAt(m)
           \/ Handling(f) /\ b \in Done(f) /\ ~blocks'[b].closed
    BY <1>11, <1>12 DEF Pend
  <1>14. \A b : Pend(Len(open), b) <=>
           \/ Waits(Top, b)
           \/ (Top.kind = "def" \/ Handling(Top)) /\ b = CodeAt(m)
           \/ Handling(Top) /\ b \in Done(Top) /\ ~blocks[b].closed
    BY <1>12 DEF Pend
  <1>15. \A b : Pool(m, b) <=> b > Len(blocks) \/ b = Cur \/ Pend(Len(open), b)
    BY <1>2 DEF Pool
  <1>16. ClauseAt(Len(open))  BY <1>1 DEF Flow, ClauseInv
  <1> QED
    BY <1>2, <1>4, <1>5, <1>9, <1>10, <1>11, <1>12, <1>13, <1>14, <1>15, <1>16

LEMMA NextPartFlow ==
  ASSUME NEW kind \in {"if", "while"}, NEW hole, NEW nextHole \in Holes, Inv, Inv', Flow
  PROVE  \A to : \A b :
           /\ NextPart(kind, hole, to, b, nextHole)
           /\ \A x \in to : Owned(Top, x)
           /\ LET f == [Top EXCEPT !.hole = nextHole]
              IN  /\ Waits(Top, b) /\ Owned(Top, b)
                  /\ \A x : Waits(f, x) <=> Waits(Top, x) /\ x # b
           => Flow'
  <1> DEFINE f == [Top EXCEPT !.hole = nextHole]
             m == Len(open) - 1
             C == {Cur}
             s == IF FALSE THEN Alloca(blocks) ELSE blocks
             t == Instr(s, Cur)
  <1> SUFFICES ASSUME NEW to, NEW b, NextPart(kind, hole, to, b, nextHole),
                      \A x \in to : Owned(Top, x), Waits(Top, b), Owned(Top, b),
                      \A x : Waits(f, x) <=> Waits(Top, x) /\ x # b
               PROVE  Flow'
    OBVIOUS
  <1>1. status = "unit" /\ Top.kind = kind /\ UNCHANGED <<methods, serial, status, causes>>
        /\ status' = "unit"
    BY DEF NextPart, At
  <1>2. /\ blocks' = Term(t, Cur, to) /\ builder' = Position(b) /\ open' = InHole(nextHole)
    BY DEF NextPart
  <1>3. /\ Len(blocks) \in Nat /\ Cur \in Blocks /\ ~blocks[Cur].closed /\ Top \in FrameRec
        /\ blocks[Cur].fn = Method.fn /\ Cur > Method.first /\ Method.first \in Blocks
        /\ \A x : Owned(Top, x) => x \in Blocks /\ blocks[x].fn = Method.fn /\ x > Method.first
        /\ \A x : Pend(Len(open), x) => x \in Blocks /\ ~blocks[x].closed /\ x # Cur
    BY <1>1, Where
  <1>4. f.kind = kind /\ f.base = Top.base /\ open' = [open EXCEPT ![Len(open)] = f]
    BY <1>1, <1>2, InHoleType DEF Inv
  <1>5. /\ HasBuilder(Top) /\ HasBuilder(f) /\ Top.kind # "unit"
        /\ ~Handling(f) /\ ~Handling(Top) /\ Top.kind # "def" /\ f.kind # "def" /\ ~InBody(f)
        /\ f.kind \in {"if", "while"} /\ Top.kind \in {"if", "while"}
    BY <1>1, <1>4 DEF HasBuilder, Handling, InBody
  <1>6. \A x : Owned(f, x) <=> Owned(Top, x)  BY <1>1, <1>4 DEF Owned
  <1> HIDE DEF f
  <1>7. Written(t, Method.fn, {}, {}, {}) /\ Len(t) = Len(blocks)
    <2>1. FALSE \in BOOLEAN  OBVIOUS
    <2>2. Written(t, Method.fn, {}, SlotLate(FALSE), {}) /\ Len(t) = Len(blocks)
      BY <1>1, <2>1, WrittenCode
    <2>3. SlotLate(FALSE) = {}  BY DEF SlotLate
    <2> QED  BY <2>2, <2>3
  <1> HIDE DEF t
  <1>8. Written(blocks', Method.fn, C, {}, to) /\ Len(blocks') = Len(blocks)
    <2>1. to \in SUBSET Nat  BY <1>3 DEF Blocks
    <2> QED  BY <1>2, <1>3, <1>7, <2>1, WrittenTerm
  <1>9. SameMethod(C)
    <2>1. Method.first # Cur  BY <1>3 DEF Blocks
    <2> QED  BY <1>1, <2>1, SameMethodBy
  <1> HIDE DEF C
  <1>10. /\ Method'.fn = Method.fn /\ Lefts(C)
         /\ (serial' = serial /\ blocks'[Cur'].fn = Method.fn => Numbers)
    BY <1>1, <1>9, SameMethodFacts
  <1>11. Built(C, {}, to)  BY <1>8, <1>10 DEF Built
  <1>12. Len(builder') = Len(builder) /\ Cur' = b /\ Below(builder')
    BY <1>1, <1>2, BuilderAt DEF Cur
  <1>13. /\ m + 1 = Len(open) /\ Kept(m) /\ Leaves(m)
         /\ Len(open') = m + 1 /\ open'[m + 1] = f /\ open'[Len(open')] = f
         /\ CodeAt(m) \in Blocks
         /\ CodeAt(Len(open) - 1)' = CodeAt(m) /\ CodeAt(Len(open))' = Cur'
         /\ FirstAt(Len(open))' = Method.first
         /\ \A x : Pend(Len(open), x)' <=> Waits(f, x)
         /\ \A x : Pend(Len(open), x) <=> Waits(Top, x)
         /\ \A x : Pool(m, x) <=> x > Len(blocks) \/ x = Cur \/ Pend(Len(open), x)
         /\ ClauseAt(Len(open))
    BY <1>1, <1>4, <1>5, <1>9, <1>12, TopKeeps
  <1>14. /\ \A x \in Blocks : /\ x \in Blocks' /\ blocks'[x].fn = blocks[x].fn
                              /\ blocks'[x].closed <=> blocks[x].closed \/ x = Cur
         /\ \A x \in Blocks' : ~(x > Len(blocks))
    BY <1>3, <1>8 DEF Written, Blocks, C
  <1> HIDE DEF m
  <1>15. Hands(m, C)
    <2>1. \A x \in C : x \in Blocks /\ blocks[x].fn = Method.fn /\ Pool(m, x)
      BY <1>3, <1>13 DEF C
    <2>2. ~blocks'[Cur'].closed /\ Pool(m, Cur')
      <3>1. Pend(Len(open), b)  BY <1>13
      <3> QED  BY <1>3, <1>12, <1>13, <1>14, <3>1
    <2>3. \A x : Pend(Len(open), x)' => ~blocks'[x].closed /\ x # Cur' /\ Pool(m, x)
      <3>1. \A x : Pend(Len(open), x)' => Pend(Len(open), x) /\ x # Cur'  BY <1>12, <1>13
      <3> QED  BY <1>3, <1>13, <1>14, <3>1
    <2>4. \A x \in Blocks' : ~blocks'[x].closed /\ Pool(m, x) => x = Cur' \/ Pend(Len(open), x)'
      <3>1. \A x \in Blocks' : ~blocks'[x].closed => x # Cur  BY <1>3, <1>14
      <3>2. \A x : Pend(Len(open), x) => x = Cur' \/ Pend(Len(open), x)'  BY <1>12, <1>13
      <3> QED  BY <1>13, <1>14, <3>1, <3>2
    <2> QED  BY <1>13, <2>1, <2>2, <2>3, <2>4 DEF Hands
  <1>16. Numbers  BY <1>1, <1>3, <1>10, <1>12, <1>14
  <1>17. Blames /\ Shows(m, {}, to)
    <2>1. \A c \in to : c \in Blocks' /\ blocks'[c].fn = Method.fn  BY <1>3, <1>14
    <2> QED  BY <1>1, <1>5, <2>1, ShowsNone
  <1>18. ClauseAt(Len(open))'
    <2>1. blocks[CodeAt(m)].closed  BY <1>5, <1>13 DEF ClauseAt, Top, m
    <2>2. blocks'[CodeAt(m)].closed  BY <1>13, <1>14, <2>1
    <2> QED  BY <1>5, <1>13, <2>2 DEF ClauseAt
  <1>19. AfterFirst(Len(open))'  BY <1>3, <1>6, <1>12, <1>13 DEF AfterFirst
  <1>20. \A x : Owned(open'[m + 1], x) => x \in Blocks' /\ blocks'[x].fn = Method'.fn
    BY <1>3, <1>6, <1>10, <1>13, <1>14
  <1>21. Moves(m, C, {}, to)
    BY <1>10, <1>11, <1>13, <1>15, <1>16, <1>17, <1>18, <1>19, <1>20 DEF Moves
  <1> QED  BY <1>1, <1>21, FlowStep

LEMMA IfCondFlow == ASSUME Inv, Inv', Flow, IfCond PROVE Flow'
  <1>1. status = "unit" /\ Top.kind = "if" /\ Top.hole = "cond"  BY DEF IfCond, NextPart, At
  <1> DEFINE f == [Top EXCEPT !.hole = "then"]
  <1>2. Top \in FrameRec  BY <1>1, Where
  <1>3. Top.base \in Nat /\ f.kind = "if" /\ f.hole = "then" /\ f.base = Top.base
    BY <1>1, <1>2 DEF FrameRec
  <1>4. /\ \A x : Waits(Top, x) <=> x \in Top.base + 1..Top.base + 3
        /\ \A x : Waits(f, x) <=> x \in Top.base + 2..Top.base + 3
        /\ \A x : Owned(Top, x) <=> x \in Top.base..Top.base + 3
    BY <1>1, <1>3 DEF Waits, Owned, InBody, Handling
  <1> HIDE DEF f
  <1>5. /\ \A x : Waits(f, x) <=> Waits(Top, x) /\ x # BkThen
        /\ Waits(Top, BkThen) /\ Owned(Top, BkThen) /\ \A x \in IfTargets : Owned(Top, x)
    BY <1>3, <1>4 DEF BkThen, BkElse, IfTargets
  <1>6. "if" \in {"if", "while"} /\ "then" \in Holes  BY DEF Holes
  <1> QED  BY <1>5, <1>6, NextPartFlow DEF IfCond, f

LEMMA IfThenFlow == ASSUME Inv, Inv', Flow, IfThen PROVE Flow'
  <1>1. status = "unit" /\ Top.kind = "if" /\ Top.hole = "then"  BY DEF IfThen, NextPart, At
  <1> DEFINE f == [Top EXCEPT !.hole = "else"]
  <1>2. Top \in FrameRec  BY <1>1, Where
  <1>3. Top.base \in Nat /\ f.kind = "if" /\ f.hole = "else" /\ f.base = Top.base
    BY <1>1, <1>2 DEF FrameRec
  <1>4. /\ \A x : Waits(Top, x) <=> x \in Top.base + 2..Top.base + 3
        /\ \A x : Waits(f, x) <=> x = Top.base + 3
        /\ \A x : Owned(Top, x) <=> x \in Top.base..Top.base + 3
    BY <1>1, <1>3 DEF Waits, Owned, InBody, Handling
  <1> HIDE DEF f
  <1>5. /\ \A x : Waits(f, x) <=> Waits(Top, x) /\ x # BkElse
        /\ Waits(Top, BkElse) /\ Owned(Top, BkElse) /\ \A x \in {BkContinue} : Owned(Top, x)
    BY <1>3, <1>4 DEF BkContinue, BkElse
  <1>6. "if" \in {"if", "while"} /\ "else" \in Holes  BY DEF Holes
  <1> QED  BY <1>5, <1>6, NextPartFlow DEF IfThen, f

LEMMA WhileCondFlow == ASSUME Inv, Inv', Flow, WhileCond PROVE Flow'
  <1>1. status = "unit" /\ Top.kind = "while" /\ Top.hole = "cond"
    BY DEF WhileCond, NextPart, At
  <1> DEFINE f == [Top EXCEPT !.hole = "body"]
  <1>2. Top \in FrameRec  BY <1>1, Where
  <1>3. Top.base \in Nat /\ f.kind = "while" /\ f.hole = "body" /\ f.base = Top.base
    BY <1>1, <1>2 DEF FrameRec
  <1>4. /\ \A x : Waits(Top, x) <=> x \in Top.base + 1..Top.base + 2
        /\ \A x : Waits(f, x) <=> x = Top.base + 2
        /\ \A x : Owned(Top, x) <=> x \in Top.base..Top.base + 2
    BY <1>1, <1>3 DEF Waits, Owned, InBody, Handling
  <1> HIDE DEF f
  <1>5. /\ \A x : Waits(f, x) <=> Waits(Top, x) /\ x # BkBody
        /\ Waits(Top, BkBody) /\ Owned(Top, BkBody)
        /\ \A x \in {BkAfter, BkBody} : Owned(Top, x)
    BY <1>3, <1>4 DEF BkBody, BkAfter
  <1>6. "while" \in {"if", "while"} /\ "body" \in Holes  BY DEF Holes
  <1> QED  BY <1>5, <1>6, NextPartFlow DEF WhileCond, f

\* The clauses of a begin statement: blocks in hand are new, the current one, or
\* wait for the statement.
InHand(b) == (b \in Blocks' /\ b > Len(blocks)) \/ b = Cur \/ Waits(Top, b)

\* The clause that ends has its first block added to those that branch to bkout.
EndsIn(b) ==
  /\ Top.hole = "clause" /\ b = Top.bkrescue /\ b # Cur'
  /\ b = Cur \/ "clause" \in causes'[Method.fn]

LEMMA HandlingFlow ==
  ASSUME Inv, Inv', Flow, status = "unit", status' = "unit", serial' = serial, Handling(Top),
         NEW f, Handling(f), f.base = Top.base, f.begin_block = Top.begin_block,
         open' = [open EXCEPT ![Len(open)] = f], Below(builder'), Len(builder') = Len(builder),
         NEW C, NEW L, NEW R, SameMethod(C), Written(blocks', Method.fn, C, L, R),
         \A b \in C : Waits(Top, b), Blames, Shows(Len(open) - 1, L, R),
         InHand(Cur') /\ Cur' \notin C,
         \A b : Waits(f, b) => InHand(b) /\ b \notin C /\ b # Cur' /\ ~EndsIn(b),
         \A b : InHand(b) /\ b \notin C =>
           b = Cur' \/ Waits(f, b) \/ b \in Done(f) \/ "clause" \in causes'[Method.fn],
         Done(Top) \subseteq Done(f), \A b \in Done(f) : b \in Done(Top) \/ EndsIn(b),
         \A b : Owned(f, b) => Owned(Top, b) \/ InHand(b),
         f.hole = "clause" => f.bkrescue \in f.rescue_impls /\ f.bkrescue = Cur',
         f.hole = "clauses" => DOMAIN f.type_tests = {}
  PROVE  Flow'
  <1> DEFINE m == Len(open) - 1
  <1>1. /\ Len(blocks) \in Nat /\ Cur \in Blocks /\ ~blocks[Cur].closed /\ Top \in FrameRec
        /\ blocks[Cur].fn = Method.fn /\ Cur > Method.first /\ Method.first \in Blocks
        /\ Method.fn \in Fns
        /\ \A b : Owned(Top, b) => b \in Blocks /\ blocks[b].fn = Method.fn /\ b > Method.first
        /\ \A b : Pend(Len(open), b) => b \in Blocks /\ ~blocks[b].closed /\ b # Cur
    BY Where
  <1>2. /\ HasBuilder(Top) /\ HasBuilder(f) /\ Top.kind # "unit" /\ Top.kind = "begin"
        /\ Top.kind # "def" /\ f.kind # "def" /\ ~InBody(f) /\ ~(f.kind \in {"if", "while"})
    BY DEF HasBuilder, Handling, InBody
  <1>3. /\ Method'.fn = Method.fn /\ Lefts(C)
        /\ (serial' = serial /\ blocks'[Cur'].fn = Method.fn => Numbers)
    BY SameMethodFacts
  <1>4. Built(C, L, R)  BY <1>3 DEF Built
  <1>5. /\ m + 1 = Len(open) /\ Kept(m) /\ Leaves(m) /\ Len(open) \in 1..Len(open)
        /\ Len(open') = m + 1 /\ open'[m + 1] = f /\ open'[Len(open')] = f
        /\ CodeAt(m) \in Blocks
        /\ CodeAt(Len(open) - 1)' = CodeAt(m) /\ CodeAt(Len(open))' = Cur'
        /\ FnAt(Len(open))' = Method.fn /\ FirstAt(Len(open))' = Method.first
        /\ \A b : Pend(Len(open), b)' <=>
             \/ Waits(f, b) \/ b = CodeAt(m) \/ (b \in Done(f) /\ ~blocks'[b].closed)
        /\ \A b : Pend(Len(open), b) <=>
             \/ Waits(Top, b) \/ b = CodeAt(m) \/ (b \in Done(Top) /\ ~blocks[b].closed)
        /\ \A b : Pool(m, b) <=> b > Len(blocks) \/ b = Cur \/ Pend(Len(open), b)
        /\ ClauseAt(Len(open))
    BY <1>2, Where, TopKeeps
  <1>6. FnAt(Len(open)) = Method.fn /\ CodeAt(Len(open)) = Cur /\ open[Len(open)] = Top
    BY IndexTop DEF Top
  <1>7. /\ Top.base # NoBlock /\ Top.begin_block = CodeAt(m)
        /\ Top.hole = "clause" => /\ Top.bkrescue \in Top.rescue_impls
                                  /\ Top.bkrescue = Cur \/ blocks[Top.bkrescue].closed
        /\ \A b \in Done(Top) : /\ b # CodeAt(m)
                                /\ blocks[b].closed => "clause" \in causes[Method.fn]
        /\ \A b : Waits(Top, b) => b # CodeAt(m) /\ b \notin Done(Top)
    BY <1>5, <1>6 DEF ClauseAt, m
  <1> HIDE DEF m
  <1>8. /\ \A b : Waits(Top, b) => Owned(Top, b)
        /\ \A b \in Done(Top) : Owned(Top, b)
        /\ Top.hole = "clause" => Owned(Top, Top.bkrescue)
    <2>1. \A b : Waits(Top, b) => Owned(Top, b)
      BY <1>2 DEF Waits, Owned, Handling, InBody
    <2> QED  BY <1>2, <1>7, <2>1 DEF Owned, Done
  <1>9. /\ \A b \in Blocks : /\ b \in Blocks' /\ blocks'[b].fn = blocks[b].fn
                             /\ blocks'[b].closed <=> blocks[b].closed \/ b \in C
        /\ \A b \in Blocks' : b > Len(blocks) => /\ blocks'[b].fn = Method.fn
                                                 /\ ~blocks'[b].closed /\ b > Method.first
        /\ \A b \in Blocks : ~(b > Len(blocks))
    <2>1. /\ Len(blocks') \in Nat /\ Len(blocks) <= Len(blocks')
          /\ \A b \in Blocks : b \in Blocks' /\ ~(b > Len(blocks))
          /\ \A b \in Blocks' : b > Len(blocks) =>
               b \in Len(blocks) + 1..Len(blocks') /\ b > Method.first
      BY <1>1 DEF Written, Blocks
    <2> QED  BY <2>1 DEF Written, Empty
  <1>10. Cur \notin C /\ Cur # CodeAt(m) /\ Cur \notin Done(Top)
    <2>1. Cur \notin C  BY <1>1, <1>5
    <2>2. Cur # CodeAt(m)  BY <1>1, <1>5
    <2> QED  BY <1>1, <1>5, <2>1, <2>2
  <1>11. ASSUME NEW b, InHand(b)
         PROVE  /\ b \in Blocks' /\ blocks'[b].fn = Method.fn /\ (b \notin C => ~blocks'[b].closed)
                /\ Pool(m, b) /\ b > Method.first /\ b # CodeAt(m) /\ b \notin Done(Top)
    <2>1. CASE b \in Blocks' /\ b > Len(blocks)
      <3>1. b \notin Blocks  BY <1>9, <2>1
      <3>2. b \notin Done(Top)  BY <1>1, <1>8, <3>1
      <3> QED  BY <1>5, <1>9, <2>1, <3>1, <3>2
    <2>2. CASE b = Cur  BY <1>1, <1>5, <1>9, <1>10, <2>2
    <2>3. CASE Waits(Top, b)
      <3>1. Owned(Top, b) /\ Pend(Len(open), b)  BY <1>5, <1>8, <2>3
      <3> QED  BY <1>1, <1>5, <1>7, <1>9, <2>3, <3>1
    <2> QED  BY <1>11, <2>1, <2>2, <2>3 DEF InHand
  <1>12. ASSUME NEW b, EndsIn(b)
         PROVE  /\ b \in Blocks /\ b # CodeAt(m) /\ b # Cur'
                /\ ~blocks'[b].closed => b = Cur
                /\ blocks'[b].closed => "clause" \in causes'[Method.fn]
    <2>1. Owned(Top, b) /\ (b = Cur \/ blocks[b].closed)  BY <1>7, <1>8, <1>12 DEF EndsIn
    <2>2. b \in Blocks  BY <1>1, <2>1
    <2>3. b # CodeAt(m)  BY <1>1, <1>5, <1>10, <2>1
    <2>4. ~blocks'[b].closed => b = Cur  BY <1>9, <2>1, <2>2
    <2>5. blocks'[b].closed => b # Cur  BY <1>1, <1>9, <1>10
    <2> QED  BY <1>12, <2>2, <2>3, <2>4, <2>5 DEF EndsIn
  <1>13. /\ CodeAt(m) \notin C /\ ~blocks'[CodeAt(m)].closed
         /\ \A b \in Done(Top) : b \in Blocks /\ (blocks'[b].closed <=> blocks[b].closed)
    <2>1. CodeAt(m) \notin C /\ \A b \in Done(Top) : b \notin C  BY <1>7
    <2>2. ~blocks[CodeAt(m)].closed  BY <1>1, <1>5
    <2>3. \A b \in Done(Top) : b \in Blocks  BY <1>1, <1>8
    <2> QED  BY <1>5, <1>9, <2>1, <2>2, <2>3
  <1>14. ASSUME NEW b, Pend(Len(open), b)'
         PROVE  ~blocks'[b].closed /\ b # Cur' /\ Pool(m, b)
    <2>1. CASE Waits(f, b)  BY <1>11, <2>1
    <2>2. CASE b = CodeAt(m)  BY <1>5, <1>11, <1>13, <2>2
    <2>3. CASE b \in Done(Top) /\ ~blocks'[b].closed  BY <1>5, <1>11, <1>13, <2>3
    <2>4. CASE EndsIn(b) /\ ~blocks'[b].closed  BY <1>5, <1>12, <2>4
    <2> QED  BY <1>5, <1>14, <2>1, <2>2, <2>3, <2>4
  <1>15. ASSUME NEW b \in Blocks', ~blocks'[b].closed, Pool(m, b),
                "clause" \notin causes'[blocks'[b].fn]
         PROVE  b = Cur' \/ Pend(Len(open), b)'
    <2>1. CASE InHand(b)
      <3>1. b \notin C
        <4> SUFFICES ASSUME b \in C PROVE FALSE  OBVIOUS
        <4>1. b \in Blocks  BY <1>1, <1>5
        <4> QED  BY <1>9, <1>15, <4>1
      <3>2. "clause" \notin causes'[Method.fn]  BY <1>11, <1>15, <2>1
      <3>3. b = Cur' \/ Waits(f, b) \/ b \in Done(f)  BY <2>1, <3>1, <3>2
      <3> QED  BY <1>5, <1>15, <3>3
    <2>2. CASE b = CodeAt(m) \/ b \in Done(Top)  BY <1>5, <1>15, <2>2
    <2>3. InHand(b) \/ b = CodeAt(m) \/ b \in Done(Top)  BY <1>5, <1>15 DEF InHand
    <2> QED  BY <2>1, <2>2, <2>3
  <1>16. Hands(m, C)
    <2>1. \A b \in C : b \in Blocks /\ blocks[b].fn = Method.fn /\ Pool(m, b)
      BY <1>1, <1>5, <1>8
    <2>2. ~blocks'[Cur'].closed /\ Pool(m, Cur')  BY <1>11
    <2> QED  BY <1>5, <1>14, <1>15, <2>1, <2>2 DEF Hands
  <1>17. Numbers  BY <1>3, <1>11
  <1>18. \A b : Owned(f, b) => b \in Blocks' /\ blocks'[b].fn = Method'.fn /\ b > Method.first
    BY <1>1, <1>3, <1>9, <1>11
  <1>19. ClauseAt(Len(open))'
    <2>1. ASSUME NEW b \in Done(f)
          PROVE  b # CodeAt(m) /\ (blocks'[b].closed => "clause" \in causes'[Method.fn])
      <3>1. CASE b \in Done(Top)
        <4>1. blocks'[b].closed => "clause" \in causes[Method.fn]  BY <1>7, <1>13, <3>1
        <4>2. causes[Method.fn] \subseteq causes'[Method.fn]  BY <1>1 DEF Blames
        <4> QED  BY <1>7, <3>1, <4>1, <4>2
      <3>2. CASE EndsIn(b)  BY <1>12, <3>2
      <3> QED  BY <3>1, <3>2
    <2>2. \A b : Waits(f, b) => b # CodeAt(m) /\ b \notin Done(f)  BY <1>11
    <2>3. /\ f.base # NoBlock /\ f.begin_block = CodeAt(m)  BY <1>7
    <2> QED  BY <1>2, <1>5, <2>1, <2>2, <2>3 DEF ClauseAt
  <1>20. AfterFirst(Len(open))'
    <2>1. Cur' > Method.first  BY <1>11
    <2> QED  BY <1>5, <1>18, <2>1 DEF AfterFirst
  <1>21. Shows(m, L, R)  BY DEF m
  <1>22. Moves(m, C, L, R)
    BY <1>3, <1>4, <1>5, <1>16, <1>17, <1>18, <1>19, <1>20, <1>21 DEF Moves
  <1> QED  BY <1>22, FlowStep

LEMMA RescueTypeFlow == ASSUME Inv, Inv', Flow, RescueType PROVE Flow'
  <1> DEFINE f == [Top EXCEPT !.hole = "type"]
             m == Len(open) - 1
  <1>1. status = "unit" /\ Top.kind = "begin" /\ Top.hole \in {"clauses", "tested"}
    BY DEF RescueType, At
  <1>2. UNCHANGED <<blocks, builder, methods, serial, status, causes>> /\ status' = "unit"
    BY <1>1 DEF RescueType
  <1>3. Top \in FrameRec /\ Len(blocks) \in Nat /\ Cur \in Blocks  BY <1>1, Where
  <1>4. /\ f.kind = "begin" /\ f.hole = "type" /\ f.base = Top.base
        /\ f.begin_block = Top.begin_block /\ f.rescue_impls = Top.rescue_impls
        /\ f.type_tests = Top.type_tests
    BY <1>1, <1>3 DEF FrameRec
  <1>5. open' = [open EXCEPT ![Len(open)] = f]  BY DEF RescueType, InHole, Top
  <1> HIDE DEF f
  <1>6. /\ Handling(Top) /\ Handling(f) /\ Done(f) = Done(Top)
        /\ \A b : Waits(f, b) <=> Waits(Top, b)
        /\ \A b : Owned(f, b) <=> Owned(Top, b)
    BY <1>1, <1>4 DEF Handling, Done, Waits, Owned, InBody
  <1>7. SameMethod({})  BY <1>1, <1>2, SameMethodBy
  <1>8. Written(blocks', Method.fn, {}, {}, {})  BY <1>2, WrittenStart
  <1>9. Method'.fn = Method.fn /\ Same(methods')  BY <1>1, <1>7, SameMethodFacts
  <1>10. Below(builder') /\ Len(builder') = Len(builder) /\ Cur' = Cur
    BY <1>1, <1>2, BuilderAt DEF Cur
  <1>11. Top.kind # "unit" /\ Len(open) \in Nat  BY <1>1, Where
  <1>12. Len(open') = m + 1 /\ open'[m + 1] = f
    BY <1>1, <1>5, <1>9, <1>10, <1>11, KeptAll
  <1>13. Blames /\ Shows(m, {}, {})
    BY <1>1, <1>2, <1>4, <1>6, <1>9, <1>12, ShowsNone
  <1>14. \A b \in Blocks' : ~(b > Len(blocks))  BY <1>2, <1>3 DEF Blocks
  <1>15. \A b : Waits(Top, b) => b # Cur
    <2>1. \A b : Waits(Top, b) => Pend(Len(open), b)  BY DEF Pend, Top
    <2> QED  BY <1>1, <2>1, Where
  <1>16. \A b : ~EndsIn(b)  BY <1>1 DEF EndsIn
  <1> HIDE DEF m
  <1> QED
    BY <1>1, <1>2, <1>4, <1>5, <1>6, <1>7, <1>8, <1>10, <1>13, <1>14, <1>15, <1>16, HandlingFlow
    DEF InHand, m

LEMMA TypeTestFlow == ASSUME Inv, Inv', Flow, TypeTest PROVE Flow'
  <1> DEFINE old == Top.type_tests
             new == [b \in DOMAIN old \cup {Cur} |-> IF b = Cur THEN Fresh ELSE old[b]]
             f == [Top EXCEPT !.hole = "tested", !.type_tests = new]
             m == Len(open) - 1
             s == Instr(IF FALSE THEN Alloca(blocks) ELSE blocks, Cur)
  <1>1. status = "unit" /\ Top.kind = "begin" /\ Top.hole = "type"  BY DEF TypeTest, At
  <1>2. /\ UNCHANGED <<methods, serial, status, causes>> /\ status' = "unit"
        /\ builder' = Position(Fresh) /\ blocks' = AppendBlocks(s, 1)
    BY <1>1 DEF TypeTest
  <1>3. /\ Top \in FrameRec /\ Len(blocks) \in Nat /\ Cur \in Blocks
        /\ \A b : Owned(Top, b) => b \in Blocks
    BY <1>1, Where
  <1>a. Fresh = Len(blocks) + 1 /\ Fresh \in Nat  BY <1>1, Context
  <1>b. DOMAIN new = DOMAIN old \cup {Cur}
        /\ \A x \in DOMAIN new : new[x] = IF x = Cur THEN Fresh ELSE old[x]
    OBVIOUS
  <1>5. open' = [open EXCEPT ![Len(open)] = f]  BY DEF TypeTest, Top
  <1> HIDE DEF new
  <1>4. /\ f.kind = "begin" /\ f.hole = "tested" /\ f.base = Top.base
        /\ f.begin_block = Top.begin_block /\ f.rescue_impls = Top.rescue_impls
        /\ f.type_tests = new
    BY <1>1, <1>3 DEF FrameRec
  <1> HIDE DEF f
  <1>6. Handling(Top) /\ Handling(f) /\ Done(f) = Done(Top)
    BY <1>1, <1>4 DEF Handling, Done
  <1>c. \A b : Waits(f, b) <=> Waits(Top, b) \/ b = Cur
    <2>1. \A b : Waits(f, b) <=> b \in DOMAIN new  BY <1>4 DEF Waits, InBody, Handling
    <2>2. \A b : Waits(Top, b) <=> b \in DOMAIN old  BY <1>1 DEF Waits, InBody, Handling
    <2> QED  BY <1>b, <2>1, <2>2
  <1>d. \A b : Owned(f, b) => Owned(Top, b) \/ b = Cur \/ b = Fresh
    <2>1. \A b : Owned(f, b) =>
            \/ (b = Top.base /\ b # NoBlock) \/ b \in Top.rescue_impls \/ b \in DOMAIN new
            \/ \E x \in DOMAIN new : b = new[x]
      BY <1>4 DEF Owned
    <2>2. \A b : \/ (b = Top.base /\ b # NoBlock) \/ b \in Top.rescue_impls \/ b \in DOMAIN old
                 \/ \E x \in DOMAIN old : b = old[x]
                 => Owned(Top, b)
      BY <1>1 DEF Owned
    <2>3. \A b : (\E x \in DOMAIN new : b = new[x]) =>
                   b = Fresh \/ \E x \in DOMAIN old : b = old[x]
      BY <1>b
    <2> QED  BY <1>b, <2>1, <2>2, <2>3
  <1>7. SameMethod({})  BY <1>1, <1>2, SameMethodBy
  <1>8. Written(blocks', Method.fn, {}, {}, {}) /\ Len(blocks') = Len(blocks) + 1
    <2>1. FALSE \in BOOLEAN /\ 1 \in Nat  OBVIOUS
    <2>2. Written(s, Method.fn, {}, SlotLate(FALSE), {}) /\ Len(s) = Len(blocks)
      BY <1>1, <2>1, WrittenCode
    <2>3. SlotLate(FALSE) = {}  BY DEF SlotLate
    <2>4. Written(s, Method.fn, {}, {}, {})  BY <2>2, <2>3
    <2> HIDE DEF s
    <2> QED  BY <1>1, <1>2, <2>1, <2>2, <2>4, WrittenAppend
  <1>9. Method'.fn = Method.fn /\ Same(methods')  BY <1>1, <1>7, SameMethodFacts
  <1>10. Below(builder') /\ Len(builder') = Len(builder) /\ Cur' = Fresh
    BY <1>1, <1>2, BuilderAt DEF Cur
  <1>11. Top.kind # "unit" /\ Len(open) \in Nat  BY <1>1, Where
  <1>12. Len(open') = m + 1 /\ open'[m + 1] = f
    BY <1>1, <1>5, <1>9, <1>10, <1>11, KeptAll
  <1>13. Blames /\ Shows(m, {}, {})
    BY <1>1, <1>2, <1>4, <1>6, <1>9, <1>12, ShowsNone
  <1>14. \A b : b \in Blocks' /\ b > Len(blocks) <=> b = Fresh
    BY <1>3, <1>8, <1>a DEF Blocks
  <1>15. \A b : Waits(Top, b) => b # Fresh
    <2>1. \A b : Waits(Top, b) => Owned(Top, b)  BY <1>1 DEF Waits, Owned, Handling, InBody
    <2> QED  BY <1>3, <1>a, <2>1 DEF Blocks
  <1>16. (\A b : ~EndsIn(b)) /\ Cur # Fresh  BY <1>1, <1>3, <1>a DEF EndsIn, Blocks
  <1> HIDE DEF m
  <1>17. InHand(Cur') /\ \A b : Waits(f, b) => InHand(b) /\ b # Cur' /\ ~EndsIn(b)
    BY <1>10, <1>14, <1>15, <1>16, <1>c DEF InHand
  <1>18. \A b : InHand(b) => b = Cur' \/ Waits(f, b)  BY <1>10, <1>14, <1>c DEF InHand
  <1>19. \A b : Owned(f, b) => Owned(Top, b) \/ InHand(b)  BY <1>14, <1>d DEF InHand
  <1> QED
    BY <1>1, <1>2, <1>4, <1>5, <1>6, <1>7, <1>8, <1>10, <1>13, <1>17, <1>18, <1>19, HandlingFlow
    DEF m

LEMMA RescueClauseFlow ==
  ASSUME NEW xs, Inv, Inv', Flow, RescueClause(xs) PROVE Flow'
  <1> DEFINE old == Top.type_tests
             C == DOMAIN old
             R == {Fresh} \cup {old[x] : x \in C}
             need == NeedsSlot(xs)
             to == [b \in C |-> {Fresh, old[b]}]
             ts == TermAll(blocks, to)
             bs == AppendBlocks(ts, 1)
             f == [Top EXCEPT !.hole = "clause", !.next_rescue_block = Cur, !.bkrescue = Fresh,
                              !.rescue_impls = @ \cup {Fresh}]
             m == Len(open) - 1
  <1>1. status = "unit" /\ Top.kind = "begin" /\ Top.hole = "tested"  BY DEF RescueClause, At
  <1>2. /\ UNCHANGED <<serial, status>> /\ status' = "unit" /\ methods' = WithLocals(xs)
        /\ builder' = Position(Fresh) /\ blocks' = (IF need THEN Alloca(bs) ELSE bs)
        /\ Blame(IF need THEN AllocaCause ELSE {}) /\ need \in BOOLEAN
    BY <1>1 DEF RescueClause, CreateLocal, LocalCause, NeedsSlot
  <1>3. /\ Top \in FrameRec /\ Len(blocks) \in Nat /\ Cur \in Blocks /\ Method.first \in Blocks
        /\ \A b : Owned(Top, b) => b \in Blocks /\ blocks[b].fn = Method.fn /\ b > Method.first
        /\ \A b : Pend(Len(open), b) => b # Cur
    BY <1>1, Where
  <1>a. Fresh = Len(blocks) + 1 /\ Fresh \in Nat  BY <1>1, Context
  <1>5. open' = [open EXCEPT ![Len(open)] = f]  BY DEF RescueClause, Top
  <1>4. /\ f.kind = "begin" /\ f.hole = "clause" /\ f.base = Top.base
        /\ f.begin_block = Top.begin_block /\ f.rescue_impls = Top.rescue_impls \cup {Fresh}
        /\ f.type_tests = old /\ f.next_rescue_block = Cur /\ f.bkrescue = Fresh
    BY <1>1, <1>3 DEF FrameRec
  <1> HIDE DEF f
  <1>b. /\ \A b \in Top.rescue_impls : Owned(Top, b)
        /\ \A b \in C : Owned(Top, b) /\ Owned(Top, old[b])
    BY <1>1 DEF Owned
  <1>c. \A b : Owned(Top, b) => b \in Blocks /\ b # Fresh /\ b # Method.first /\ b \in Nat
    BY <1>3, <1>a DEF Blocks
  <1>6. Handling(Top) /\ Handling(f) /\ Done(f) = Done(Top) /\ Done(Top) = Top.rescue_impls
    <2>1. Handling(Top) /\ Handling(f) /\ Done(Top) = Top.rescue_impls
      BY <1>1, <1>4 DEF Handling, Done
    <2>2. Done(f) = (Top.rescue_impls \cup {Fresh}) \ {Fresh}  BY <1>4 DEF Done
    <2>3. Fresh \notin Top.rescue_impls  BY <1>b, <1>c
    <2> QED  BY <2>1, <2>2, <2>3
  <1>d. /\ \A b : Waits(f, b) <=> b = Cur
        /\ \A b : Waits(Top, b) <=> b \in C
        /\ \A b : Owned(f, b) => Owned(Top, b) \/ b = Cur \/ b = Fresh
    <2>1. \A b : Waits(f, b) <=> b = Cur  BY <1>4 DEF Waits, InBody, Handling
    <2>2. \A b : Waits(Top, b) <=> b \in C  BY <1>1 DEF Waits, InBody, Handling
    <2>3. \A b : Owned(f, b) => Owned(Top, b) \/ b = Cur \/ b = Fresh  BY <1>1, <1>4 DEF Owned
    <2> QED  BY <2>1, <2>2, <2>3
  <1>7. SameMethod(C)
    <2>1. Method.first \notin C  BY <1>b, <1>c
    <2> QED  BY <1>1, <1>2, <2>1, SameMethodBy
  <1>8. Written(blocks', Method.fn, C, SlotLate(need), R) /\ Len(blocks') = Len(blocks) + 1
    <2>1. Written(blocks, Method.fn, {}, {}, {})  BY WrittenStart
    <2>2. DOMAIN to = C /\ DOMAIN to \subseteq Blocks /\ R \in SUBSET Nat
          /\ \A b \in DOMAIN to : to[b] \subseteq R
      BY <1>a, <1>b, <1>c
    <2>c. \A b \in C : ~blocks[b].closed
      <3>1. \A b \in C : Pend(Len(open), b)  BY <1>d DEF Pend, Top
      <3> QED  BY <1>1, <3>1, Where
    <2> HIDE DEF to, R
    <2>3. /\ Written(ts, Method.fn, {} \cup DOMAIN to,
                     {} \cup {b \in DOMAIN to : blocks[b].closed \/ b \in {}}, {} \cup R)
          /\ Len(ts) = Len(blocks)
      BY <2>1, <2>2, WrittenTermAll
    <2>4. /\ {} \cup DOMAIN to = C /\ {} \cup R = R
          /\ {} \cup {b \in DOMAIN to : blocks[b].closed \/ b \in {}} = {}
      BY <2>2, <2>c
    <2> HIDE DEF ts, C
    <2>5. Written(ts, Method.fn, C, {}, R)  BY <2>3, <2>4
    <2>6. 1 \in Nat  OBVIOUS
    <2>7. Written(bs, Method.fn, C, {}, R) /\ Len(bs) = Len(blocks) + 1
      BY <1>1, <2>3, <2>5, <2>6, WrittenAppend
    <2> HIDE DEF bs, need
    <2>8. Method.first \notin C  BY <1>b, <1>c
    <2> QED  BY <1>1, <1>2, <2>7, <2>8, WrittenAlloca
  <1> HIDE DEF need
  <1>9. Method'.fn = Method.fn /\ Same(methods')  BY <1>1, <1>7, SameMethodFacts
  <1>10. Below(builder') /\ Len(builder') = Len(builder) /\ Cur' = Fresh
    BY <1>1, <1>2, BuilderAt DEF Cur
  <1>11. Top.kind # "unit" /\ Len(open) \in Nat  BY <1>1, Where
  <1>12. Len(open') = m + 1 /\ open'[m + 1] = f
    BY <1>1, <1>5, <1>9, <1>10, <1>11, KeptAll
  <1>14. \A b : b \in Blocks' /\ b > Len(blocks) <=> b = Fresh
    BY <1>3, <1>8, <1>a DEF Blocks
  <1>13. Blames /\ Shows(m, SlotLate(need), R)
    <2>1. \A b \in Blocks : b \in Blocks' /\ blocks'[b].fn = blocks[b].fn
      BY <1>3, <1>8 DEF Written, Blocks
    <2>2. Fresh \in Blocks' /\ blocks'[Fresh].fn = Method.fn
      <3>1. Fresh \in Len(blocks) + 1..Len(blocks')  BY <1>3, <1>8, <1>a
      <3> QED  BY <1>8, <1>14, <3>1 DEF Written, Empty
    <2>3. \A c \in R : c = Fresh \/ Owned(Top, c)  BY <1>b
    <2>4. \A c \in R : c \in Blocks' /\ blocks'[c].fn = Method.fn  BY <1>3, <2>1, <2>2, <2>3
    <2>5. Top.rescue_impls \subseteq f.rescue_impls  BY <1>4
    <2> HIDE DEF R
    <2> QED  BY <1>1, <1>2, <1>6, <1>9, <1>12, <2>4, <2>5, ShowsOnlySlot
  <1>15. Cur \notin C
    <2>1. \A b \in C : Pend(Len(open), b)  BY <1>d DEF Pend, Top
    <2> QED  BY <1>3, <2>1
  <1>16. (\A b : ~EndsIn(b)) /\ Cur # Fresh /\ Fresh \notin C
    BY <1>1, <1>3, <1>a, <1>b, <1>c DEF EndsIn, Blocks
  <1> HIDE DEF m, C, R
  <1>17. /\ InHand(Cur') /\ Cur' \notin C
         /\ \A b : Waits(f, b) => InHand(b) /\ b \notin C /\ b # Cur' /\ ~EndsIn(b)
    BY <1>10, <1>14, <1>15, <1>16, <1>d DEF InHand
  <1>18. \A b : InHand(b) /\ b \notin C => b = Cur' \/ Waits(f, b)
    BY <1>10, <1>14, <1>d DEF InHand
  <1>19. \A b : Owned(f, b) => Owned(Top, b) \/ InHand(b)  BY <1>14, <1>d DEF InHand
  <1>20. f.bkrescue \in f.rescue_impls /\ f.bkrescue = Cur' /\ \A b \in C : Waits(Top, b)
    BY <1>4, <1>10, <1>d
  <1> QED
    BY <1>1, <1>2, <1>4, <1>5, <1>6, <1>7, <1>8, <1>10, <1>13, <1>17, <1>18, <1>19, <1>20,
       HandlingFlow DEF m

LEMMA RescueClauseEndFlow == ASSUME Inv, Inv', Flow, RescueClauseEnd PROVE Flow'
  <1> DEFINE none == [b \in {} |-> NoBlock]
             f == [Top EXCEPT !.hole = "clauses", !.type_tests = none]
             m == Len(open) - 1
             w == IF Cur = Top.bkrescue THEN {} ELSE {"clause"}
             s == Instr(IF FALSE THEN Alloca(blocks) ELSE blocks, Cur)
  <1>1. status = "unit" /\ Top.kind = "begin" /\ Top.hole = "clause"
    BY DEF RescueClauseEnd, At
  <1>2. /\ UNCHANGED <<methods, serial, status>> /\ status' = "unit" /\ blocks' = s
        /\ builder' = Position(Top.next_rescue_block) /\ Blame(w)
    BY <1>1 DEF RescueClauseEnd
  <1>3. /\ Top \in FrameRec /\ Len(blocks) \in Nat /\ Cur \in Blocks /\ ~blocks[Cur].closed
        /\ Method.fn \in Fns /\ Len(open) \in 1..Len(open)
        /\ \A b : Pend(Len(open), b) => b # Cur /\ ~blocks[b].closed
        /\ \A b : Owned(Top, b) => b \in Blocks
    BY <1>1, Where
  <1>5. open' = [open EXCEPT ![Len(open)] = f]  BY DEF RescueClauseEnd, Top
  <1>a. DOMAIN none = {}  OBVIOUS
  <1> HIDE DEF none
  <1>4. /\ f.kind = "begin" /\ f.hole = "clauses" /\ f.base = Top.base
        /\ f.begin_block = Top.begin_block /\ f.rescue_impls = Top.rescue_impls
        /\ f.type_tests = none
    BY <1>1, <1>3 DEF FrameRec
  <1> HIDE DEF f
  <1>6. /\ Handling(Top) /\ Handling(f) /\ Done(f) = Top.rescue_impls
        /\ Done(Top) = Top.rescue_impls \ {Top.bkrescue}
    BY <1>1, <1>4 DEF Handling, Done
  <1>b. /\ \A b : ~Waits(f, b)
        /\ \A b : Waits(Top, b) <=> b = Top.next_rescue_block
        /\ \A b : Owned(f, b) => Owned(Top, b)
    <2>1. \A b : ~Waits(f, b)  BY <1>4, <1>a DEF Waits, InBody, Handling
    <2>2. \A b : Waits(Top, b) <=> b = Top.next_rescue_block
      BY <1>1 DEF Waits, InBody, Handling
    <2>3. \A b : Owned(f, b) => Owned(Top, b)  BY <1>1, <1>4, <1>a DEF Owned
    <2> QED  BY <2>1, <2>2, <2>3
  <1>7. SameMethod({})  BY <1>1, <1>2, SameMethodBy
  <1>8. Written(blocks', Method.fn, {}, {}, {}) /\ Len(blocks') = Len(blocks)
    <2>1. FALSE \in BOOLEAN  OBVIOUS
    <2>2. Written(s, Method.fn, {}, SlotLate(FALSE), {}) /\ Len(s) = Len(blocks)
      BY <1>1, <2>1, WrittenCode
    <2>3. SlotLate(FALSE) = {}  BY DEF SlotLate
    <2> QED  BY <1>2, <2>2, <2>3
  <1> HIDE DEF s
  <1>9. Method'.fn = Method.fn /\ Same(methods')  BY <1>1, <1>7, SameMethodFacts
  <1>10. Below(builder') /\ Len(builder') = Len(builder) /\ Cur' = Top.next_rescue_block
    BY <1>1, <1>2, BuilderAt DEF Cur
  <1>11. Top.kind # "unit" /\ Len(open) \in Nat  BY <1>1, Where
  <1>12. Len(open') = m + 1 /\ open'[m + 1] = f
    BY <1>1, <1>5, <1>9, <1>10, <1>11, KeptAll
  <1>13. /\ Top.bkrescue \in Top.rescue_impls
         /\ Top.bkrescue = Cur \/ blocks[Top.bkrescue].closed
    <2>1. ClauseAt(Len(open)) /\ Top = open[Len(open)]  BY <1>3 DEF Flow, ClauseInv, Top
    <2> QED  BY <1>1, <1>6, <2>1, IndexTop DEF ClauseAt
  <1>14. /\ Blames
         /\ \A g \in Fns : \A c : c \in causes'[g] <=> c \in causes[g] \/ (g = Method.fn /\ c \in w)
    BY <1>1, <1>2, BlameAt
  <1>15. w = {"clause"} \/ (w = {} /\ Cur = Top.bkrescue)  OBVIOUS
  <1>c. w # {} => Cur # Top.bkrescue  OBVIOUS
  <1> HIDE DEF w
  <1>16. Shows(m, {}, {})
    <2>1. \A g \in Fns : /\ "alloca" \in causes'[g] => "alloca" \in causes[g]
                         /\ "pad" \in causes'[g] => "pad" \in causes[g]
      BY <1>14, <1>15
    <2>2. ASSUME NEW g \in Fns, "clause" \in causes'[g], "clause" \notin causes[g]
          PROVE  /\ Len(open') = m + 1 /\ Handling(open'[m + 1]) /\ Method'.fn = g
                 /\ \E b \in open'[m + 1].rescue_impls : blocks'[b].closed
      <3>1. g = Method.fn /\ Cur # Top.bkrescue  BY <1>14, <1>c, <2>2
      <3>2. Owned(Top, Top.bkrescue)  BY <1>1 DEF Owned
      <3>3. blocks'[Top.bkrescue].closed  BY <1>3, <1>8, <1>13, <3>1, <3>2 DEF Written
      <3> QED  BY <1>4, <1>6, <1>9, <1>12, <1>13, <3>1, <3>3
    <2>3. Handling(open'[m + 1]) /\ Top.rescue_impls \subseteq open'[m + 1].rescue_impls
      BY <1>4, <1>6, <1>12
    <2> HIDE DEF m
    <2> QED  BY <1>9, <1>12, <2>1, <2>2, <2>3 DEF Shows
  <1>17. \A b \in Blocks' : ~(b > Len(blocks))  BY <1>3, <1>8 DEF Blocks
  <1>18. EndsIn(Top.bkrescue)
    <2>1. Pend(Len(open), Top.next_rescue_block)  BY <1>b DEF Pend, Top
    <2>2. Top.bkrescue # Cur'  BY <1>3, <1>10, <1>13, <2>1
    <2>3. Top.bkrescue = Cur \/ "clause" \in causes'[Method.fn]  BY <1>3, <1>14, <1>15
    <2> QED  BY <1>1, <2>2, <2>3 DEF EndsIn
  <1> HIDE DEF m
  <1>19. InHand(Cur')  BY <1>10, <1>b DEF InHand
  <1>20. \A b : InHand(b) => b = Cur' \/ b \in Done(f) \/ "clause" \in causes'[Method.fn]
    <2>1. Cur \in Done(f) \/ "clause" \in causes'[Method.fn]  BY <1>3, <1>6, <1>13, <1>14, <1>15
    <2> QED  BY <1>10, <1>17, <1>b, <2>1 DEF InHand
  <1>21. \A b \in Done(f) : b \in Done(Top) \/ EndsIn(b)  BY <1>6, <1>18
  <1>22. Done(Top) \subseteq Done(f)  BY <1>6
  <1> QED
    BY <1>1, <1>2, <1>4, <1>5, <1>6, <1>7, <1>8, <1>10, <1>14, <1>16, <1>19, <1>20, <1>21, <1>22,
       <1>a, <1>b, HandlingFlow DEF m

LEMMA BeginBodyFlow == ASSUME Inv, Inv', Flow, BeginBody PROVE Flow'
  <1> DEFINE f == [Top EXCEPT !.hole = "clauses", !.begin_block = Cur]
             m == Len(open) - 1
             s == Instr(IF FALSE THEN Alloca(blocks) ELSE blocks, Cur)
  <1>1. status = "unit" /\ Top.kind = "begin" /\ Top.hole = "body" /\ Top.base # NoBlock
    BY DEF BeginBody, At
  <1>2. /\ UNCHANGED <<methods, serial, status, causes>> /\ status' = "unit"
        /\ blocks' = Instr(s, Top.base) /\ builder' = PushBuilder(Top.base)
    BY <1>1 DEF BeginBody
  <1>3. /\ Top \in FrameRec /\ Len(blocks) \in Nat /\ Cur \in Blocks /\ ~blocks[Cur].closed
        /\ blocks[Cur].fn = Method.fn /\ Len(open) \in 1..Len(open) /\ Len(open) \in Nat
        /\ Top.kind # "unit" /\ Len(open) >= 2
        /\ \A b : Pend(Len(open), b) => b \in Blocks /\ b # Cur /\ ~blocks[b].closed
        /\ \A b : Owned(Top, b) => b \in Blocks /\ blocks[b].fn = Method.fn /\ b > Method.first
    BY <1>1, Where
  <1>4. m \in Nat /\ m + 1 = Len(open) /\ m <= Len(open)  BY <1>3
  <1>5. open' = [open EXCEPT ![Len(open)] = f]  BY DEF BeginBody, Top
  <1>6. /\ f.kind = "begin" /\ f.hole = "clauses" /\ f.base = Top.base /\ f.begin_block = Cur
        /\ f.rescue_impls = Top.rescue_impls /\ f.type_tests = Top.type_tests
    BY <1>1, <1>3 DEF FrameRec
  <1> HIDE DEF f
  <1>7. InBody(Top) /\ ~Handling(Top) /\ Handling(f) /\ ~InBody(f) /\ HasBuilder(f)
    BY <1>1, <1>6 DEF InBody, Handling, HasBuilder
  <1>8. Top.rescue_impls = {} /\ DOMAIN Top.type_tests = {}
    <2>1. ClauseAt(Len(open)) /\ Top = open[Len(open)]  BY <1>3 DEF Flow, ClauseInv, Top
    <2> QED  BY <1>7, <2>1 DEF ClauseAt
  <1>9. /\ \A b : ~Waits(f, b) /\ b \notin Done(f)
        /\ \A b : Waits(Top, b) <=> b = Top.base
        /\ \A b : Owned(f, b) <=> b = Top.base
        /\ Owned(Top, Top.base)
    <2>1. \A b : ~Waits(f, b)  BY <1>6, <1>8 DEF Waits, InBody, Handling
    <2>2. \A b : b \notin Done(f)  BY <1>6, <1>8 DEF Done
    <2>3. \A b : Waits(Top, b) <=> b = Top.base  BY <1>1 DEF Waits, InBody, Handling
    <2>4. \A b : Owned(f, b) <=> b = Top.base  BY <1>1, <1>6, <1>8 DEF Owned
    <2>5. Owned(Top, Top.base)  BY <1>1 DEF Owned
    <2> QED  BY <2>1, <2>2, <2>3, <2>4, <2>5
  <1>10. \A b : Pend(Len(open), b) <=> b = Top.base  BY <1>1, <1>7, <1>9 DEF Pend, Top
  <1>11. /\ Top.base \in Blocks /\ ~blocks[Top.base].closed /\ Top.base # Cur
         /\ blocks[Top.base].fn = Method.fn /\ Top.base > Method.first
    BY <1>3, <1>9, <1>10
  <1>12. Written(blocks', Method.fn, {}, {}, {}) /\ Len(blocks') = Len(blocks)
    <2>1. FALSE \in BOOLEAN  OBVIOUS
    <2>2. Written(s, Method.fn, {}, SlotLate(FALSE), {}) /\ Len(s) = Len(blocks)
      BY <1>1, <2>1, WrittenCode
    <2>3. SlotLate(FALSE) = {}  BY DEF SlotLate
    <2>4. Written(s, Method.fn, {}, {}, {})  BY <2>2, <2>3
    <2> HIDE DEF s
    <2>5. Top.base \in 1..Len(s) /\ ~s[Top.base].closed
      BY <1>11, <2>2, <2>4 DEF Written, Blocks
    <2> QED  BY <1>2, <2>2, <2>4, <2>5, WrittenInstr
  <1> HIDE DEF s
  <1>13. SameMethod({})  BY <1>1, <1>2, SameMethodBy
  <1>14. /\ Method'.fn = Method.fn /\ Method'.first = Method.first /\ Same(methods') /\ Lefts({})
         /\ (serial' = serial /\ blocks'[Cur'].fn = Method.fn => Numbers)
    BY <1>1, <1>13, SameMethodFacts
  <1>15. /\ Len(builder') = Len(builder) + 1 /\ Cur' = Top.base /\ Below(builder')
         /\ builder'[Len(builder') - 1] = Cur /\ Len(builder) \in Nat
    BY <1>1, <1>2, BuilderAt DEF Cur
  <1>16. Kept(m) /\ Len(open') = m + 1 /\ Len(open') = Len(open) /\ open'[m + 1] = f
    BY <1>1, <1>3, <1>5, <1>14, <1>15, KeptAll
  <1>17. /\ CodeAt(Len(open) - 1)' = Cur /\ CodeAt(Len(open))' = Top.base
         /\ FnAt(Len(open))' = Method.fn /\ FirstAt(Len(open))' = Method.first
    <2>1. Len(open') >= 2 /\ HasBuilder(open'[Len(open')])  BY <1>3, <1>4, <1>7, <1>16
    <2> QED  BY <1>2, <1>14, <1>15, <2>1, CodeAroundNext, IndexTopNext
  <1> HIDE DEF m
  <1>18. /\ \A b : Pend(Len(open), b)' <=> b = Cur
         /\ \A b : Pool(m, b) <=> b > Len(blocks) \/ b = Cur \/ b = Top.base
    <2>1. open'[Len(open')] = f  BY <1>16
    <2>2. \A b : Pend(Len(open), b)' <=> b = Cur
      BY <1>7, <1>9, <1>17, <2>1 DEF Pend
    <2> QED  BY <1>4, <1>10, <2>2 DEF Pool
  <1>19. /\ \A b \in Blocks : /\ b \in Blocks' /\ blocks'[b].fn = blocks[b].fn
                              /\ blocks'[b].closed <=> blocks[b].closed
         /\ \A b \in Blocks' : ~(b > Len(blocks))
    BY <1>3, <1>12 DEF Written, Blocks
  <1>20. Hands(m, {})
    <2>1. ~blocks'[Cur'].closed /\ Pool(m, Cur')  BY <1>11, <1>15, <1>18, <1>19
    <2>2. \A b : Pend(Len(open), b)' => ~blocks'[b].closed /\ b # Cur' /\ Pool(m, b)
      BY <1>3, <1>11, <1>15, <1>18, <1>19
    <2>3. \A b \in Blocks' : Pool(m, b) => b = Cur' \/ Pend(Len(open), b)'
      BY <1>15, <1>18, <1>19
    <2> QED  BY <1>16, <2>1, <2>2, <2>3 DEF Hands
  <1>21. Numbers  BY <1>2, <1>11, <1>14, <1>15, <1>19
  <1>22. Leaves(m)
    <2>1. Len(builder') > Len(builder)  BY <1>15
    <2> QED  BY <1>1, <1>4, <2>1, LeavesNone
  <1>23. Blames /\ Shows(m, {}, {})  BY <1>1, <1>2, <1>7, ShowsNone
  <1>24. ClauseAt(Len(open))'
    <2>1. open'[Len(open')] = f  BY <1>16
    <2>2. ~(f.kind \in {"if", "while"}) /\ f.hole # "clause" /\ f.base # NoBlock  BY <1>1, <1>6
    <2> QED  BY <1>6, <1>7, <1>8, <1>9, <1>17, <2>1, <2>2 DEF ClauseAt
  <1>25. AfterFirst(Len(open))'
    <2>1. open'[Len(open')] = f  BY <1>16
    <2> QED  BY <1>9, <1>11, <1>17, <2>1 DEF AfterFirst
  <1>26. \A b : Owned(open'[m + 1], b) => b \in Blocks' /\ blocks'[b].fn = Method'.fn
    BY <1>9, <1>11, <1>14, <1>16, <1>19
  <1>27. Built({}, {}, {})  BY <1>12, <1>14 DEF Built
  <1>28. Moves(m, {}, {}, {})
    BY <1>14, <1>16, <1>20, <1>21, <1>22, <1>23, <1>24, <1>25, <1>26, <1>27 DEF Moves
  <1> QED  BY <1>1, <1>2, <1>28, FlowStep

\* A statement with a builder ends, and the code around it goes on in block b.
LEMMA PopFlow ==
  ASSUME Inv, Inv', Flow, status = "unit", status' = "unit", serial' = serial, HasBuilder(Top),
         Top.kind \notin {"unit", "def"}, open' = Closed, NEW b, builder' = PopTo(b),
         NEW C, NEW L, NEW R, SameMethod(C), Written(blocks', Method.fn, C, L, R),
         \A x \in C : /\ x \in Blocks /\ blocks[x].fn = Method.fn
                      /\ blocks[x].closed \/ x = Cur \/ Pend(Len(open), x),
         b \in Blocks', blocks'[b].fn = Method.fn, ~blocks'[b].closed, b > Method.first,
         b > Len(blocks) \/ b = Cur \/ Pend(Len(open), b),
         \A x \in Blocks' :
           ~blocks'[x].closed /\ (x > Len(blocks) \/ x = Cur \/ Pend(Len(open), x)) => x = b,
         blocks'[CodeAt(Len(open) - 1)].closed, Blames, Shows(Len(open) - 1, L, R)
  PROVE  Flow'
  <1> DEFINE m == Len(open) - 1
  <1>1. Len(open) \in Nat /\ Len(open) >= 2 /\ Top.kind # "unit"  BY Where
  <1>2. m \in Nat /\ m + 1 = Len(open)  BY <1>1
  <1>3. /\ Method'.fn = Method.fn /\ Method'.first = Method.first /\ Same(methods') /\ Lefts(C)
        /\ (serial' = serial /\ blocks'[Cur'].fn = Method.fn => Numbers)
    BY SameMethodFacts
  <1>4. /\ Len(builder') = Len(builder) - 1 /\ Cur' = b /\ Below(builder')
        /\ Len(builder) \in Nat
    BY BuilderAt DEF Cur
  <1>5. Kept(m) /\ Len(open') = m  BY <1>1, <1>3, <1>4, KeptAll
  <1>6. CodeAt(m) = builder[Len(builder')]  BY <1>1, <1>4, CodeAround
  <1>7. Shows(m, L, R) /\ blocks'[CodeAt(m)].closed  OBVIOUS
  <1> HIDE DEF m
  <1>8. Leaves(m)  BY <1>3, <1>4, <1>6, <1>7, LeavesOne
  <1>9. \A x : Pool(m, x) <=> x > Len(blocks) \/ x = Cur \/ Pend(Len(open), x)
    BY <1>2 DEF Pool
  <1>10. Len(open') # m + 1  BY <1>2, <1>5
  <1>11. Hands(m, C)  BY <1>4, <1>9, <1>10 DEF Hands
  <1>12. Numbers  BY <1>3, <1>4
  <1>13. Built(C, L, R)  BY <1>3 DEF Built
  <1>14. Moves(m, C, L, R)
    BY <1>3, <1>5, <1>7, <1>8, <1>10, <1>11, <1>12, <1>13 DEF Moves
  <1> QED  BY <1>14, FlowStep

\* The end of an if or while: the current block branches back or on, and the code
\* goes on in the one block that still waits.
LEMMA TestEndFlow ==
  ASSUME Inv, Inv', Flow, status = "unit", Top.kind \in {"if", "while"},
         NEW b, \A x : Waits(Top, x) <=> x = b, Owned(Top, b), NEW s,
         Written(s, Method.fn, {}, {}, {}), Len(s) = Len(blocks), NEW to, Owned(Top, to),
         blocks' = Instr(Term(s, Cur, {to}), b), builder' = PopTo(b), open' = Closed,
         UNCHANGED <<methods, serial, status, causes>>
  PROVE  Flow'
  <1> DEFINE C == {Cur}
             R == {to}
             t == Term(s, Cur, R)
             m == Len(open) - 1
  <1>1. /\ Len(blocks) \in Nat /\ Cur \in Blocks /\ ~blocks[Cur].closed /\ Cur \in Nat
        /\ blocks[Cur].fn = Method.fn /\ Cur > Method.first /\ Method.first \in Blocks
        /\ Len(open) \in Nat /\ Len(open) \in 1..Len(open) /\ Len(open) >= 2
        /\ \A x : Owned(Top, x) => x \in Blocks /\ blocks[x].fn = Method.fn /\ x > Method.first
        /\ \A x : Pend(Len(open), x) => x \in Blocks /\ ~blocks[x].closed /\ x # Cur
    BY Where
  <1>2. HasBuilder(Top) /\ ~Handling(Top) /\ Top.kind \notin {"unit", "def"}
    BY DEF HasBuilder, Handling
  <1>3. \A x : Pend(Len(open), x) <=> x = b  BY <1>2 DEF Pend, Top
  <1>4. b \in Blocks /\ ~blocks[b].closed /\ b # Cur /\ blocks[b].fn = Method.fn /\ b > Method.first
    BY <1>1, <1>3
  <1>5. Written(t, Method.fn, C, {}, R) /\ Len(t) = Len(blocks)
    <2>1. R \in SUBSET Nat  BY <1>1 DEF Blocks
    <2> QED  BY <1>1, <2>1, WrittenTerm
  <1> HIDE DEF t, R
  <1>6. Written(blocks', Method.fn, C, {}, R) /\ Len(blocks') = Len(blocks)
    <2>1. b \in 1..Len(t) /\ ~t[b].closed  BY <1>4, <1>5 DEF Written, Blocks
    <2> QED  BY <1>5, <2>1, WrittenInstr DEF t, R
  <1>7. SameMethod(C)
    <2>1. Method.first # Cur  BY <1>1 DEF Blocks
    <2> QED  BY <2>1, SameMethodBy
  <1>8. Method'.fn = Method.fn  BY <1>7, SameMethodFacts
  <1>9. /\ \A x \in Blocks : /\ x \in Blocks' /\ blocks'[x].fn = blocks[x].fn
                             /\ blocks'[x].closed <=> blocks[x].closed \/ x = Cur
        /\ \A x \in Blocks' : ~(x > Len(blocks))
    <2>1. \A x \in Blocks : x \in Blocks'  BY <1>6 DEF Blocks
    <2>2. \A x \in Blocks' : ~(x > Len(blocks))  BY <1>1, <1>6 DEF Blocks
    <2>3. \A x : x \in C <=> x = Cur  OBVIOUS
    <2> HIDE DEF C
    <2> QED  BY <1>6, <2>1, <2>2, <2>3 DEF Written
  <1>10. blocks'[CodeAt(m)].closed
    <2>1. ClauseAt(Len(open)) /\ open[Len(open)] = Top  BY <1>1 DEF Flow, ClauseInv, Top
    <2>2. blocks[CodeAt(m)].closed  BY <2>1 DEF ClauseAt
    <2>3. m \in 1..Len(open)  BY <1>1
    <2>4. CodeAt(m) \in Blocks  BY <2>3 DEF Flow, OwnInv, OwnAt
    <2> QED  BY <1>9, <2>2, <2>4
  <1>11. Blames /\ Shows(m, {}, R)
    <2>1. \A c \in R : c \in Blocks' /\ blocks'[c].fn = Method.fn  BY <1>1, <1>9 DEF R
    <2> QED  BY <1>2, <2>1, ShowsNone
  <1>12. status' = "unit" /\ \A x \in C : x = Cur  OBVIOUS
  <1> HIDE DEF C, m
  <1>13. \A x \in Blocks' : ~blocks'[x].closed /\ (x > Len(blocks) \/ x = Cur \/ Pend(Len(open), x))
           => x = b
    BY <1>1, <1>3, <1>9
  <1>14. b \in Blocks' /\ blocks'[b].fn = Method.fn /\ ~blocks'[b].closed  BY <1>4, <1>9
  <1> QED
    BY <1>1, <1>2, <1>3, <1>4, <1>6, <1>7, <1>10, <1>11, <1>12, <1>13, <1>14, PopFlow DEF m

LEMMA IfElseFlow == ASSUME Inv, Inv', Flow, IfElse PROVE Flow'
  <1> DEFINE s == Instr(IF FALSE THEN Alloca(blocks) ELSE blocks, Cur)
  <1>1. status = "unit" /\ Top.kind = "if" /\ Top.hole = "else"  BY DEF IfElse, At
  <1>2. Top \in FrameRec  BY <1>1, Where
  <1>3. BkContinue = Top.base + 3 /\ Top.base \in Nat  BY <1>2 DEF BkContinue, FrameRec
  <1>4. (\A x : Waits(Top, x) <=> x = BkContinue) /\ Owned(Top, BkContinue)
    BY <1>1, <1>3 DEF Waits, Owned, InBody, Handling
  <1>5. Written(s, Method.fn, {}, {}, {}) /\ Len(s) = Len(blocks)
    <2>1. FALSE \in BOOLEAN  OBVIOUS
    <2>2. Written(s, Method.fn, {}, SlotLate(FALSE), {}) /\ Len(s) = Len(blocks)
      BY <1>1, <2>1, WrittenCode
    <2>3. SlotLate(FALSE) = {}  BY DEF SlotLate
    <2> QED  BY <2>2, <2>3
  <1>6. /\ blocks' = Instr(Term(s, Cur, {BkContinue}), BkContinue)
        /\ builder' = PopTo(BkContinue) /\ open' = Closed
        /\ UNCHANGED <<methods, serial, status, causes>>
    BY DEF IfElse
  <1> HIDE DEF s
  <1> QED  BY <1>1, <1>4, <1>5, <1>6, TestEndFlow

LEMMA WrittenPoll ==
  ASSUME Inv, NEW bs, NEW fn, NEW C, NEW L, NEW R, Written(bs, fn, C, L, R), NEW b \in Blocks
  PROVE  LET t == [bs EXCEPT ![b].polls = TRUE]
         IN  Written(t, fn, C, L, R) /\ Len(t) = Len(bs)
  <1> DEFINE r == [bs[b] EXCEPT !.polls = TRUE]
             t == [bs EXCEPT ![b].polls = TRUE]
  <1>1. /\ bs \in Seq(BlockRec) /\ Len(bs) \in Nat /\ Len(blocks) \in Nat
        /\ \A x \in Blocks : x \in 1..Len(bs)
        /\ \A x \in Len(blocks) + 1..Len(bs) : x \in 1..Len(bs) /\ x \notin Blocks
    BY WrittenBlock
  <1>2. bs[b] \in BlockRec  BY <1>1
  <1>3. /\ r \in BlockRec /\ r.to = bs[b].to /\ r.fn = bs[b].fn /\ r.closed = bs[b].closed
        /\ r.late = bs[b].late
    BY <1>2 DEF BlockRec
  <1> HIDE DEF r
  <1>4. t = [bs EXCEPT ![b] = r]  BY DEF r
  <1> HIDE DEF t
  <1>5. /\ t \in Seq(BlockRec) /\ Len(t) = Len(bs) /\ t[b] = r
        /\ \A x \in 1..Len(bs) : x # b => t[x] = bs[x]
    BY <1>1, <1>3, <1>4
  <1>6. \A x \in Len(blocks) + 1..Len(bs) : t[x] = bs[x]  BY <1>1, <1>5
  <1>7. \A x \in 1..Len(bs) : /\ t[x].fn = bs[x].fn /\ t[x].closed = bs[x].closed
                              /\ t[x].late = bs[x].late /\ t[x].to = bs[x].to
    BY <1>3, <1>5
  <1>8. \A x \in Blocks :
          /\ t[x].fn = blocks[x].fn
          /\ t[x].closed <=> blocks[x].closed \/ x \in C
          /\ t[x].late <=> blocks[x].late \/ x \in L
          /\ blocks[x].to \subseteq t[x].to
          /\ \A c \in t[x].to : c \in blocks[x].to \/ (x \in C /\ c \in R)
    BY <1>1, <1>7 DEF Written
  <1>9. Len(blocks) <= Len(t) /\ \A x \in Len(blocks) + 1..Len(t) : Empty(t[x], fn)
    BY <1>5, <1>6 DEF Written
  <1>10. Written(t, fn, C, L, R)  BY <1>5, <1>8, <1>9 DEF Written
  <1> QED  BY <1>5, <1>10 DEF t

LEMMA WhileBodyFlow == ASSUME Inv, Inv', Flow, WhileBody PROVE Flow'
  <1> DEFINE s == Instr(IF FALSE THEN Alloca(blocks) ELSE blocks, Cur)
             p == [s EXCEPT ![Cur].polls = TRUE]
  <1>1. status = "unit" /\ Top.kind = "while" /\ Top.hole = "body"  BY DEF WhileBody, At
  <1>2. Top \in FrameRec /\ Cur \in Blocks  BY <1>1, Where
  <1>3. BkAfter = Top.base + 2 /\ Top.base \in Nat  BY <1>2 DEF BkAfter, FrameRec
  <1>4. (\A x : Waits(Top, x) <=> x = BkAfter) /\ Owned(Top, BkAfter) /\ Owned(Top, Top.base)
    BY <1>1, <1>3 DEF Waits, Owned, InBody, Handling
  <1>5. Written(s, Method.fn, {}, {}, {}) /\ Len(s) = Len(blocks)
    <2>1. FALSE \in BOOLEAN  OBVIOUS
    <2>2. Written(s, Method.fn, {}, SlotLate(FALSE), {}) /\ Len(s) = Len(blocks)
      BY <1>1, <2>1, WrittenCode
    <2>3. SlotLate(FALSE) = {}  BY DEF SlotLate
    <2> QED  BY <2>2, <2>3
  <1>6. /\ blocks' = Instr(Term(p, Cur, {Top.base}), BkAfter)
        /\ builder' = PopTo(BkAfter) /\ open' = Closed
        /\ UNCHANGED <<methods, serial, status, causes>>
    BY DEF WhileBody, PollBlock
  <1> HIDE DEF s
  <1>7. Written(p, Method.fn, {}, {}, {}) /\ Len(p) = Len(blocks)  BY <1>2, <1>5, WrittenPoll
  <1> HIDE DEF p
  <1> QED  BY <1>1, <1>4, <1>6, <1>7, TestEndFlow

LEMMA BeginEndFlow == ASSUME Inv, Inv', Flow, BeginEnd PROVE Flow'
  <1> DEFINE impls == Top.rescue_impls
             D == BranchOut
             C == {Cur} \cup D
             L == {x \in D : blocks[x].closed}
             R == {Fresh}
             s == Instr(IF FALSE THEN Alloca(blocks) ELSE blocks, Cur)
             t == Term(s, Cur, {})
             u == AppendBlocks(t, 1)
             to == [x \in D |-> R]
             v == TermAll(u, to)
             m == Len(open) - 1
  <1>1. status = "unit" /\ Top.kind = "begin" /\ Top.hole = "clauses"  BY DEF BeginEnd, At
  <1>2. /\ UNCHANGED <<serial, status, causes>> /\ status' = "unit" /\ open' = Closed
        /\ blocks' = Instr(v, Fresh) /\ builder' = PopTo(Fresh)
        /\ methods' = Leaving(Top.begin_block)
    BY <1>1 DEF BeginEnd
  <1>3. /\ Len(blocks) \in Nat /\ Cur \in Blocks /\ ~blocks[Cur].closed /\ Method.first \in Blocks
        /\ blocks[Cur].fn = Method.fn /\ Cur > Method.first /\ Method.fn \in Fns
        /\ Len(open) \in Nat /\ Len(open) \in 1..Len(open) /\ Len(open) >= 2
        /\ \A x : Owned(Top, x) => x \in Blocks /\ blocks[x].fn = Method.fn /\ x > Method.first
        /\ \A x : Pend(Len(open), x) => x \in Blocks /\ ~blocks[x].closed /\ x # Cur
    <2>1. Handling(Top)  BY <1>1 DEF Handling
    <2> QED  BY <1>1, <2>1, Where
  <1>4. Fresh = Len(blocks) + 1 /\ Fresh \in Nat  BY <1>1, Context
  <1>5. Handling(Top) /\ HasBuilder(Top) /\ Top.kind \notin {"unit", "def"} /\ Done(Top) = impls
    BY <1>1 DEF Handling, HasBuilder, Done
  <1>6. ClauseAt(Len(open)) /\ open[Len(open)] = Top  BY <1>3 DEF Flow, ClauseInv, Top
  <1>7. /\ Top.begin_block = CodeAt(m) /\ DOMAIN Top.type_tests = {}
        /\ \A x \in impls : blocks[x].closed => "clause" \in causes[Method.fn]
    BY <1>1, <1>5, <1>6, IndexTop DEF ClauseAt
  <1>8. \A x : Pend(Len(open), x) <=> x = Top.begin_block \/ (x \in impls /\ ~blocks[x].closed)
    <2>1. \A x : ~Waits(Top, x)  BY <1>1, <1>7 DEF Waits, InBody, Handling
    <2> QED  BY <1>5, <1>6, <1>7, <2>1 DEF Pend
  <1>9. \A x \in impls : Owned(Top, x)  BY <1>1 DEF Owned
  <1>10. /\ Top.begin_block \in Blocks /\ ~blocks[Top.begin_block].closed
         /\ Top.begin_block # Cur /\ blocks[Top.begin_block].fn = Method.fn
    <2>1. m \in 1..Len(open) /\ m \in Nat  BY <1>3
    <2>2. blocks[CodeAt(m)].fn = FnAt(m)  BY <2>1 DEF Flow, OwnInv, OwnAt
    <2>3. FnAt(m) = Method.fn  BY <1>1, <1>3, CodeAround DEF FnAt, Method
    <2> QED  BY <1>3, <1>7, <1>8, <2>2, <2>3
  <1>11. \A x : x \in D <=> x = Top.begin_block \/ x \in impls  BY DEF BranchOut
  <1>12. /\ \A x \in D : x \in Blocks /\ blocks[x].fn = Method.fn /\ x # Cur
         /\ \A x \in L : x \in impls /\ blocks[x].closed
    BY <1>3, <1>9, <1>10, <1>11, <1>8
  <1> HIDE DEF D, impls
  <1>13. Written(s, Method.fn, {}, {}, {}) /\ Len(s) = Len(blocks)
    <2>1. FALSE \in BOOLEAN  OBVIOUS
    <2>2. Written(s, Method.fn, {}, SlotLate(FALSE), {}) /\ Len(s) = Len(blocks)
      BY <1>1, <2>1, WrittenCode
    <2>3. SlotLate(FALSE) = {}  BY DEF SlotLate
    <2> QED  BY <2>2, <2>3
  <1> HIDE DEF s
  <1>14. Written(t, Method.fn, {Cur}, {}, {}) /\ Len(t) = Len(blocks)
    <2>1. {} \in SUBSET Nat  OBVIOUS
    <2> QED  BY <1>3, <1>13, <2>1, WrittenTerm
  <1> HIDE DEF t
  <1>15. Written(u, Method.fn, {Cur}, {}, {}) /\ Len(u) = Len(blocks) + 1
    <2>1. 1 \in Nat  OBVIOUS
    <2> QED  BY <1>1, <1>14, <2>1, WrittenAppend
  <1>16. DOMAIN to = D /\ DOMAIN to \subseteq Blocks /\ \A x \in DOMAIN to : to[x] \subseteq R
    BY <1>12
  <1> HIDE DEF u, to
  <1>17. Written(v, Method.fn, C, L, R) /\ Len(v) = Len(blocks) + 1
    <2>1. R \in SUBSET Nat  BY <1>4
    <2>2. /\ Written(v, Method.fn, {Cur} \cup DOMAIN to,
                     {} \cup {x \in DOMAIN to : blocks[x].closed \/ x \in {Cur}}, {} \cup R)
          /\ Len(v) = Len(u)
      BY <1>15, <1>16, <2>1, WrittenTermAll
    <2>3. /\ {Cur} \cup DOMAIN to = C /\ {} \cup R = R
          /\ {} \cup {x \in DOMAIN to : blocks[x].closed \/ x \in {Cur}} = L
      BY <1>12, <1>16
    <2> HIDE DEF v, C, L, R
    <2> QED  BY <1>15, <2>2, <2>3
  <1> HIDE DEF v
  <1>18. Written(blocks', Method.fn, C, L, R) /\ Len(blocks') = Len(blocks) + 1
    <2>1. Fresh \in 1..Len(v) /\ Fresh \in Len(blocks) + 1..Len(v)  BY <1>3, <1>4, <1>17
    <2>2. ~v[Fresh].closed  BY <1>17, <2>1 DEF Written, Empty
    <2> HIDE DEF C, L, R
    <2> QED  BY <1>2, <1>17, <2>1, <2>2, WrittenInstr
  <1>19. SameMethod(C)
    <2>1. \A x \in impls : x # Method.first  BY <1>3, <1>9 DEF Blocks
    <2>2. Method.first # Cur  BY <1>3 DEF Blocks
    <2>3. Method.first \in C <=> Top.begin_block = Method.first  BY <1>11, <2>1, <2>2
    <2> HIDE DEF C
    <2> QED  BY <1>1, <1>2, <2>3, SameMethodBy
  <1>20. \A x : x \in C <=> x = Cur \/ x = Top.begin_block \/ x \in impls  BY <1>11
  <1>21. \A x : x \in L <=> x \in impls /\ blocks[x].closed  BY <1>10, <1>11
  <1> HIDE DEF C, L
  <1>22. /\ \A x \in Blocks : blocks'[x].closed <=> blocks[x].closed \/ x \in C
         /\ \A x \in Blocks' : x > Len(blocks) => x = Fresh
         /\ Fresh \in Blocks' /\ blocks'[Fresh].fn = Method.fn /\ ~blocks'[Fresh].closed
         /\ Fresh > Len(blocks) /\ Fresh > Method.first
    <2>1. /\ \A x \in Blocks' : x > Len(blocks) => x = Fresh
          /\ Fresh \in Blocks' /\ Fresh \in Len(blocks) + 1..Len(blocks')
          /\ Fresh > Len(blocks) /\ Fresh > Method.first
      BY <1>3, <1>4, <1>18 DEF Blocks
    <2>2. \A x \in Blocks : blocks'[x].closed <=> blocks[x].closed \/ x \in C
      BY <1>18 DEF Written
    <2>3. Empty(blocks'[Fresh], Method.fn)  BY <1>18, <2>1 DEF Written
    <2> QED  BY <2>1, <2>2, <2>3 DEF Empty
  <1>23. Blames /\ Shows(m, L, R)
    <2>1. \A x \in L : x \in Blocks /\ causes'[blocks[x].fn] # {}
      BY <1>2, <1>3, <1>7, <1>9, <1>21
    <2>2. \A x \in R : x \in Blocks' /\ blocks'[x].fn = Method.fn  BY <1>22
    <2>3. causes' = causes  BY <1>2
    <2>4. \A x \in impls : blocks[x].closed => x \in L  BY <1>21
    <2> HIDE DEF R, m
    <2> QED  BY <2>1, <2>2, <2>3, <2>4 DEF Blames, Shows, impls
  <1>24. blocks'[CodeAt(m)].closed  BY <1>7, <1>10, <1>20, <1>22
  <1>25. \A x \in Blocks' :
           ~blocks'[x].closed /\ (x > Len(blocks) \/ x = Cur \/ Pend(Len(open), x)) => x = Fresh
    <2>1. Cur \in C /\ Cur \in Blocks  BY <1>3, <1>20
    <2>2. \A x : Pend(Len(open), x) => x \in C /\ x \in Blocks  BY <1>3, <1>8, <1>20
    <2> QED  BY <1>22, <2>1, <2>2
  <1>26. \A x \in C : /\ x \in Blocks /\ blocks[x].fn = Method.fn
                      /\ blocks[x].closed \/ x = Cur \/ Pend(Len(open), x)
    BY <1>3, <1>8, <1>9, <1>10, <1>20
  <1> HIDE DEF R, m
  <1> QED
    BY <1>1, <1>2, <1>5, <1>18, <1>19, <1>22, <1>23, <1>24, <1>25, <1>26, PopFlow DEF m

LEMMA CloseClassFlow == ASSUME Inv, Inv', Flow, CloseClass PROVE Flow'
  <1> DEFINE m == Len(open) - 1
  <1>1. status = "unit" /\ Top.kind = "class"  BY DEF CloseClass, At
  <1>2. /\ UNCHANGED <<blocks, builder, methods, serial, status, causes>> /\ status' = "unit"
        /\ open' = Closed
    BY <1>1 DEF CloseClass
  <1>3. /\ Len(blocks) \in Nat /\ Cur \in Blocks /\ ~blocks[Cur].closed
        /\ blocks[Cur].fn = Method.fn /\ Len(open) \in Nat /\ Top.kind # "unit"
    BY <1>1, Where
  <1>4. m + 1 = Len(open) /\ m \in Nat
    <2>1. Len(open) >= 2  BY <1>1, Where
    <2> QED  BY <1>3, <2>1
  <1>5. SameMethod({})  BY <1>1, <1>2, SameMethodBy
  <1>6. /\ Method'.fn = Method.fn /\ Same(methods') /\ Lefts({})
        /\ (serial' = serial /\ blocks'[Cur'].fn = Method.fn => Numbers)
    BY <1>1, <1>5, SameMethodFacts
  <1>7. Built({}, {}, {})
    <2>1. Written(blocks, Method.fn, {}, {}, {})  BY WrittenStart
    <2> QED  BY <1>2, <1>6, <2>1 DEF Built
  <1>8. Cur' = Cur /\ Below(builder') /\ Cur' = builder[Len(builder')]
    BY <1>1, <1>2, BuilderAt DEF Cur
  <1>9. Kept(m) /\ Len(open') = m  BY <1>1, <1>2, <1>3, <1>6, <1>8, KeptAll
  <1>10. \A b : ~Pend(Len(open), b)
    BY <1>1 DEF Pend, Top, Waits, Handling, InBody
  <1> HIDE DEF m
  <1>11. Hands(m, {})
    <2>1. \A b \in Blocks' : Pool(m, b) => b = Cur
      <3>1. \A b \in Blocks' : ~(b > Len(blocks))  BY <1>2, <1>3 DEF Blocks
      <3> QED  BY <1>10, <3>1 DEF Pool
    <2>2. Len(open') # m + 1  BY <1>4, <1>9
    <2>3. ~blocks'[Cur'].closed /\ Pool(m, Cur')  BY <1>2, <1>3, <1>8 DEF Pool
    <2> QED  BY <1>8, <2>1, <2>2, <2>3 DEF Hands
  <1>12. Numbers  BY <1>2, <1>3, <1>6, <1>8
  <1>13. Leaves(m)  BY <1>8, LeavesOne
  <1>14. Blames /\ Shows(m, {}, {})
    <2>1. ~Handling(Top)  BY <1>1 DEF Handling
    <2> QED  BY <1>1, <1>2, <2>1, ShowsNone
  <1>15. Len(open') # m + 1  BY <1>4, <1>9
  <1>16. Moves(m, {}, {}, {})
    BY <1>6, <1>7, <1>9, <1>11, <1>12, <1>13, <1>14, <1>15 DEF Moves
  <1> QED  BY <1>1, <1>2, <1>16, FlowStep

LEMMA CloseDefFlow == ASSUME Inv, Inv', Flow, CloseDef PROVE Flow'
  <1> DEFINE m == Len(open) - 1
             l == Len(methods)
             C == {Cur}
             around == builder[Len(builder) - 1]
             t == Term(blocks, Cur, {})
  <1>1. status = "unit" /\ Top.kind = "def"  BY DEF CloseDef, At
  <1>2. /\ UNCHANGED <<serial, status, causes>> /\ status' = "unit" /\ open' = Closed
        /\ blocks' = Instr(t, around) /\ builder' = PopBuilder
        /\ methods' = SubSeq(methods, 1, l - 1)
    BY <1>1 DEF CloseDef
  <1>3. /\ Len(blocks) \in Nat /\ Cur \in Blocks /\ ~blocks[Cur].closed
        /\ blocks[Cur].fn = Method.fn /\ Len(open) \in Nat /\ Top.kind # "unit"
        /\ \A x : Pend(Len(open), x) => x \in Blocks /\ ~blocks[x].closed /\ x # Cur
        /\ Len(open) >= 2
    BY <1>1, Where
  <1>4. m + 1 = Len(open) /\ m \in Nat /\ m \in 1..Len(open)  BY <1>3
  <1>5. HasBuilder(Top) /\ ~Handling(Top) /\ \A x : ~Waits(Top, x)
    BY <1>1 DEF HasBuilder, Handling, Waits, InBody
  <1>6. /\ l \in Nat /\ l - 1 >= 1 /\ Same(methods') /\ Len(methods') = l - 1
        /\ \A i \in 1..l - 1 : methods'[i] = methods[i]
    BY <1>1, <1>2, MethodAt
  <1>7. /\ Len(builder') = Len(builder) - 1 /\ Below(builder') /\ Cur' = around
        /\ builder[Len(builder')] = around
    BY <1>1, <1>2, <1>5, BuilderAt DEF Cur
  <1>8. CodeAt(m) = around /\ Level(open, m) = l - 1  BY <1>1, <1>3, <1>5, CodeAround
  <1>9. \A x : Pend(Len(open), x) <=> x = around  BY <1>1, <1>5, <1>8 DEF Pend, Top
  <1>10. /\ around \in Blocks /\ ~blocks[around].closed /\ around # Cur
         /\ blocks[around].fn = Method'.fn
    <2>1. blocks[CodeAt(m)].fn = FnAt(m)  BY <1>4 DEF Flow, OwnInv, OwnAt
    <2>2. FnAt(m) = methods[l - 1].fn  BY <1>8 DEF FnAt
    <2>3. l - 1 \in 1..l - 1  BY <1>6
    <2>4. Method' = methods[l - 1]  BY <1>6, <2>3 DEF Method
    <2> QED  BY <1>3, <1>8, <1>9, <2>1, <2>2, <2>4
  <1>11. Written(t, Method'.fn, C, {}, {}) /\ Len(t) = Len(blocks)
    <2>1. Written(blocks, Method'.fn, {}, {}, {}) /\ {} \in SUBSET Nat  BY WrittenStart
    <2> QED  BY <1>3, <2>1, WrittenTerm
  <1> HIDE DEF t, around
  <1>12. Written(blocks', Method'.fn, C, {}, {}) /\ Len(blocks') = Len(blocks)
    <2>1. around \in 1..Len(t) /\ ~t[around].closed  BY <1>10, <1>11 DEF Written, Blocks
    <2> QED  BY <1>2, <1>11, <2>1, WrittenInstr
  <1>13. \A x : x \in C <=> x = Cur  OBVIOUS
  <1> HIDE DEF C, l
  <1>14. /\ \A x \in Blocks : /\ blocks'[x].fn = blocks[x].fn
                              /\ blocks'[x].closed <=> blocks[x].closed \/ x = Cur
         /\ \A x \in Blocks' : x \in Blocks /\ ~(x > Len(blocks))
    <2>1. \A x \in Blocks' : x \in Blocks /\ ~(x > Len(blocks))  BY <1>3, <1>12 DEF Blocks
    <2> QED  BY <1>12, <1>13, <2>1 DEF Written
  <1>15. Built(C, {}, {})  BY <1>12 DEF Built
  <1>16. Kept(m) /\ Len(open') = m
    <2>1. /\ status = "unit" /\ Below(builder') /\ Same(methods') /\ Top.kind # "unit"
          /\ open' = Closed
      BY <1>1, <1>2, <1>3, <1>6, <1>7
    <2> QED  BY <2>1, KeptAll
  <1> HIDE DEF m
  <1>17. Len(open') # m + 1  BY <1>4, <1>16
  <1>18. \A x : Pool(m, x) <=> x > Len(blocks) \/ x = Cur \/ x = around
    BY <1>4, <1>9 DEF Pool
  <1>19. Hands(m, C)
    <2>1. \A x \in C : x \in Blocks /\ blocks[x].fn = Method.fn /\ Pool(m, x)
      BY <1>3, <1>13, <1>18
    <2>2. ~blocks'[Cur'].closed /\ Pool(m, Cur')  BY <1>7, <1>10, <1>14, <1>18
    <2>3. \A x \in Blocks' : ~blocks'[x].closed /\ Pool(m, x) => x = Cur'
      BY <1>3, <1>7, <1>14, <1>18
    <2> QED  BY <1>17, <2>1, <2>2, <2>3 DEF Hands
  <1>20. Numbers
    <2>1. blocks'[Cur'].fn = Method'.fn  BY <1>7, <1>10, <1>14
    <2>2. Len(methods') <= Len(methods)  BY <1>6 DEF l
    <2> QED  BY <1>2, <2>1, <2>2 DEF Numbers
  <1>21. Lefts(C)
    <2>1. ~(Len(methods') >= Len(methods)) /\ ~(Len(methods') > Len(methods))  BY <1>6 DEF l
    <2>2. \A i \in 1..Len(methods') : methods'[i].left = methods[i].left  BY <1>6
    <2> QED  BY <2>1, <2>2 DEF Lefts
  <1>22. Leaves(m)  BY <1>7, LeavesOne
  <1>23. Blames /\ Shows(m, {}, {})  BY <1>1, <1>2, <1>5, ShowsNone
  <1>24. Moves(m, C, {}, {})
    BY <1>15, <1>16, <1>17, <1>19, <1>20, <1>21, <1>22, <1>23 DEF Moves
  <1> QED  BY <1>1, <1>2, <1>24, FlowStep

-----------------------------------------------------------------------------
(* The ends of the walk, and what follows from the invariant.              *)

\* After the walk no statement is open and no function is being written.
MainInv == status \in {"main", "done"} => Len(open) = 0 /\ Len(methods) = 0

\* The first statement is the program itself, in pup_main.
LEMMA UnitPlace ==
  ASSUME Inv, Flow, status = "unit"
  PROVE  /\ 1 \in 1..Len(open) /\ open[1].kind = "unit" /\ Level(open, 1) = 1
         /\ 1 \in 1..Len(methods) /\ methods[1].first = 1 /\ FnAt(1) = methods[1].fn
         /\ 1 \in Blocks /\ blocks[1].fn = methods[1].fn
  <1>1. Len(open) \in Nat /\ Len(open) >= 1  BY Where
  <1>2. 1 \in 1..Len(open)  BY <1>1
  <1>3. open[1].kind = "unit"  BY <1>2 DEF Inv, StacksInv
  <1>4. Level(open, 1) = 1
    <2>1. 0 \in Nat /\ 0 + 1 = 1  OBVIOUS
    <2>2. Level(open, 0) = 1  BY IndexZero
    <2>3. Level(open, 0 + 1) = Level(open, 0) + (IF open[0 + 1].kind = "def" THEN 1 ELSE 0)
      BY <2>1, IndexStep
    <2> QED  BY <1>3, <2>1, <2>2, <2>3
  <1>5. Len(methods) \in Nat /\ 1 \in 1..Len(methods)
    <2>1. Len(methods) \in Nat /\ Len(methods) \in 1..Len(methods)  BY Heights DEF Inv, TypeInv
    <2> QED  BY <2>1
  <1>6. methods[1].first = 1  BY <1>5 DEF Flow, FnInv
  <1>7. methods[1].first \in Blocks /\ blocks[methods[1].first].fn = methods[1].fn
    BY <1>5 DEF Flow, OwnInv
  <1> QED  BY <1>2, <1>3, <1>4, <1>5, <1>6, <1>7 DEF FnAt

LEMMA CloseUnitFlow == ASSUME Inv, Inv', Flow, CloseUnit PROVE Flow' /\ MainInv'
  <1> DEFINE none == {}
             s == Term(blocks, Cur, none)
  <1>1. status = "unit" /\ Top.kind = "unit"  BY DEF CloseUnit, At
  <1>2. /\ Len(open) = 1 /\ Cur \in Blocks /\ ~blocks[Cur].closed /\ Top \in FrameRec
        /\ \A b : Owned(Top, b) => b \in Blocks /\ blocks[b].fn = Method.fn
        /\ \A b : Pend(Len(open), b) => b \in Blocks /\ ~blocks[b].closed /\ b # Cur
    <2>1. Len(open) \in 1..Len(open)  BY <1>1, Where
    <2>2. Len(open) = 1  BY <1>1, <2>1 DEF Inv, StacksInv, Top
    <2> QED  BY <1>1, <2>2, Where
  <1>3. /\ open[1] = Top /\ Method = methods[1] /\ methods[1].first = 1
        /\ 1 \in Blocks /\ blocks[1].fn = Method.fn
    <2>1. Level(open, Len(open)) = Len(methods)  BY <1>1, IndexTop
    <2> QED  BY <1>1, <1>2, <2>1, UnitPlace DEF Top, Method
  <1>4. \A b : Pend(1, b) <=> b = 1
    BY <1>1, <1>3 DEF Pend, Waits, Handling, InBody
  <1>5. ~blocks[1].closed /\ 1 # Cur  BY <1>2, <1>4
  <1>6. Owned(Top, Top.base)  BY <1>1 DEF Owned
  <1>7. Top.base \in Blocks /\ blocks[Top.base].fn = Method.fn  BY <1>2, <1>6
  <1>8. blocks \in Seq(BlockRec) /\ none \in SUBSET Nat /\ {Top.base} \in SUBSET Nat
    BY <1>2 DEF Inv, TypeInv, FrameRec
  <1> HIDE DEF none
  <1>9. /\ s \in Seq(BlockRec) /\ Len(s) = Len(blocks)
        /\ \A x \in 1..Len(blocks) :
             /\ s[x].fn = blocks[x].fn
             /\ s[x].closed <=> blocks[x].closed \/ x = Cur
             /\ s[x].late <=> blocks[x].late \/ (x = Cur /\ blocks[x].closed)
             /\ x = Cur => s[x].to = blocks[x].to \cup none
             /\ x # Cur => s[x] = blocks[x]
    BY <1>8, TermAt
  <1> DEFINE dest == {Top.base}
  <1>10. blocks' = Term(s, 1, dest) /\ dest \in SUBSET Nat  BY <1>3, <1>8 DEF CloseUnit, none
  <1>d. \A c : c \in dest <=> c = Top.base  OBVIOUS
  <1> HIDE DEF s, dest
  <1>11. /\ Len(blocks') = Len(s)
         /\ \A x \in 1..Len(s) :
              /\ blocks'[x].fn = s[x].fn
              /\ blocks'[x].closed <=> s[x].closed \/ x = 1
              /\ blocks'[x].late <=> s[x].late \/ (x = 1 /\ s[x].closed)
              /\ x = 1 => blocks'[x].to = s[x].to \cup dest
              /\ x # 1 => blocks'[x] = s[x]
    BY <1>9, <1>10, TermAt
  <1>12. Blocks' = Blocks  BY <1>9, <1>11 DEF Blocks
  <1>13. ASSUME NEW x \in Blocks
         PROVE  /\ blocks'[x].fn = blocks[x].fn
                /\ blocks'[x].closed <=> blocks[x].closed \/ x = Cur \/ x = 1
                /\ blocks'[x].late <=> blocks[x].late
                /\ \A c : c \in blocks'[x].to <=> c \in blocks[x].to \/ (x = 1 /\ c = Top.base)
    <2>1. x \in 1..Len(blocks) /\ x \in 1..Len(s)  BY <1>9 DEF Blocks
    <2>2. blocks'[x].fn = blocks[x].fn  BY <1>9, <1>11, <2>1
    <2>3. blocks'[x].closed <=> blocks[x].closed \/ x = Cur \/ x = 1  BY <1>9, <1>11, <2>1
    <2>4. blocks'[x].late <=> blocks[x].late  BY <1>2, <1>5, <1>9, <1>11, <2>1
    <2>5. \A c : c \in blocks'[x].to <=> c \in blocks[x].to \/ (x = 1 /\ c = Top.base)
      <3>1. \A c : c \in s[x].to <=> c \in blocks[x].to  BY <1>9, <2>1 DEF none
      <3> QED  BY <1>11, <1>d, <2>1, <3>1
    <2> QED  BY <2>2, <2>3, <2>4, <2>5
  <1>14. open' = <<>> /\ methods' = <<>> /\ causes' = causes  BY DEF CloseUnit
  <1>15. Len(open') = 0 /\ Len(methods') = 0  BY <1>14
  <1>16. UnclosedInv'
    <2> SUFFICES ASSUME NEW b \in Blocks', ~blocks'[b].closed,
                        "clause" \notin causes'[blocks'[b].fn]
                 PROVE  FALSE
      BY DEF UnclosedInv
    <2>1. b \in Blocks /\ ~blocks[b].closed /\ b # Cur /\ b # 1
          /\ "clause" \notin causes[blocks[b].fn]
      BY <1>12, <1>13, <1>14
    <2>2. \E k \in 1..Len(open) : Pend(k, b)  BY <2>1 DEF Flow, UnclosedInv
    <2>3. Pend(1, b)  BY <1>2, <2>2
    <2> QED  BY <1>4, <2>1, <2>3
  <1>17. TargetInv'
    <2> SUFFICES ASSUME NEW b \in Blocks', "pad" \notin causes'[blocks'[b].fn],
                        NEW c \in blocks'[b].to
                 PROVE  c \in Blocks' /\ blocks'[c].fn = blocks'[b].fn
      BY DEF TargetInv
    <2>1. b \in Blocks /\ blocks'[b].fn = blocks[b].fn  BY <1>12, <1>13
    <2>2. CASE c \in blocks[b].to
      <3>1. c \in Blocks /\ blocks[c].fn = blocks[b].fn
        BY <1>14, <2>1, <2>2 DEF Flow, TargetInv
      <3> QED  BY <1>12, <1>13, <2>1, <3>1
    <2>3. CASE b = 1 /\ c = Top.base  BY <1>3, <1>7, <1>12, <1>13, <2>1, <2>3
    <2> QED  BY <1>13, <2>1, <2>2, <2>3
  <1>18. LateInv'  BY <1>12, <1>13, <1>14 DEF LateInv, Flow
  <1>19. EvidenceInv'
    <2> SUFFICES ASSUME NEW f \in Fns
                 PROVE
                   /\ "alloca" \in causes[f] =>
                        \E b \in Blocks' : blocks'[b].fn = f /\ blocks'[b].late
                   /\ "pad" \in causes[f] =>
                        \E b \in Blocks' :
                          /\ blocks'[b].fn = f
                          /\ \E c \in blocks'[b].to : c \in Blocks' /\ blocks'[c].fn # f
                   /\ "clause" \in causes[f] =>
                        \E b \in Blocks' : blocks'[b].fn = f /\ blocks'[b].late
      BY <1>14 DEF EvidenceInv
    <2>1. \A k \in 1..Len(open) : ~Handling(open[k])  BY <1>1, <1>2, <1>3 DEF Handling
    <2>2. ("alloca" \in causes[f] \/ "clause" \in causes[f]) =>
             \E b \in Blocks : blocks[b].fn = f /\ blocks[b].late
      BY <2>1 DEF Flow, EvidenceInv
    <2>3. ASSUME "pad" \in causes[f]
          PROVE  \E b \in Blocks' : /\ blocks'[b].fn = f
                                    /\ \E c \in blocks'[b].to : c \in Blocks' /\ blocks'[c].fn # f
      <3>1. PICK b \in Blocks : /\ blocks[b].fn = f
                                /\ \E c \in blocks[b].to : c \in Blocks /\ blocks[c].fn # f
        BY <2>3 DEF Flow, EvidenceInv
      <3>2. PICK c \in blocks[b].to : c \in Blocks /\ blocks[c].fn # f  BY <3>1
      <3> QED  BY <1>12, <1>13, <3>1, <3>2
    <2> QED  BY <1>12, <1>13, <2>2, <2>3
  <1>20. Flow'
    <2>1. FnInv' /\ OwnInv' /\ WaitInv' /\ ClauseInv' /\ FirstInv' /\ PadFnInv'
      BY <1>15 DEF FnInv, OwnInv, WaitInv, ClauseInv, FirstInv, PadFnInv
    <2> QED  BY <1>16, <1>17, <1>18, <1>19, <2>1 DEF Flow
  <1> QED  BY <1>15, <1>20 DEF MainInv

LEMMA BuildMainFlow == ASSUME Inv, Inv', Flow, MainInv, BuildMain PROVE Flow' /\ MainInv'
  <1> DEFINE new == [i \in 1..3 |-> NewBlock(CMain)]
             s == blocks \o new
             to == [b \in {Fresh, Fresh + 1, Fresh + 2} |->
                      CASE b = Fresh -> {Fresh + 2, Fresh + 1}
                        [] b = Fresh + 1 -> {Fresh + 2}
                        [] b = Fresh + 2 -> {}]
             n == Len(blocks)
  <1>1. status = "main" /\ Len(open) = 0 /\ Len(methods) = 0  BY DEF BuildMain, MainInv
  <1>2. /\ open' = open /\ methods' = methods /\ causes' = causes
    BY DEF BuildMain
  <1>3. blocks \in Seq(BlockRec) /\ n \in Nat /\ Fresh = n + 1  BY DEF Inv, TypeInv, Fresh
  <1>4. new \in Seq(BlockRec) /\ Len(new) = 3 /\ \A i \in 1..3 : new[i] = NewBlock(CMain)
    <2>1. NewBlock(CMain) \in BlockRec  BY FnFacts, NewBlockType
    <2> QED  BY <2>1
  <1>5. blocks' = TermAll(s, to)  BY DEF BuildMain
  <1>6. /\ DOMAIN to = {Fresh, Fresh + 1, Fresh + 2}
        /\ \A b \in DOMAIN to : to[b] \in SUBSET Nat
        /\ \A b \in DOMAIN to : to[b] \subseteq DOMAIN to
    BY <1>3
  <1> HIDE DEF new, to
  <1>7. /\ s \in Seq(BlockRec) /\ Len(s) = n + 3
        /\ \A b \in 1..n : s[b] = blocks[b]
        /\ \A i \in 1..3 : s[n + i] = NewBlock(CMain)
    <2>1. blocks \in Seq(BlockRec) /\ new \in Seq(BlockRec)  BY <1>3, <1>4
    <2>2. /\ s \in Seq(BlockRec) /\ Len(s) = Len(blocks) + Len(new)
          /\ \A b \in 1..Len(blocks) : s[b] = blocks[b]
          /\ \A i \in 1..Len(new) : s[Len(blocks) + i] = new[i]
      BY <2>1
    <2> QED  BY <1>4, <2>2
  <1> HIDE DEF s
  <1>8. /\ Len(blocks') = n + 3
        /\ \A x \in 1..n + 3 :
             /\ blocks'[x].fn = s[x].fn
             /\ blocks'[x].closed <=> s[x].closed \/ x \in DOMAIN to
             /\ blocks'[x].late <=> s[x].late \/ (x \in DOMAIN to /\ s[x].closed)
             /\ x \in DOMAIN to => blocks'[x].to = s[x].to \cup to[x]
             /\ x \notin DOMAIN to => blocks'[x] = s[x]
    BY <1>5, <1>6, <1>7, TermAllAt
  <1>9. /\ \A x \in Blocks : x \in Blocks' /\ x \notin DOMAIN to /\ x \in 1..n + 3
        /\ \A x \in Blocks' : x \in Blocks \/ x \in DOMAIN to
        /\ \A x \in DOMAIN to : x \in Blocks' /\ x \in 1..n + 3
    BY <1>3, <1>6, <1>8 DEF Blocks
  <1>10. \A x \in Blocks : blocks'[x] = blocks[x]  BY <1>7, <1>8, <1>9 DEF Blocks
  <1>11. ASSUME NEW x \in DOMAIN to
         PROVE  /\ blocks'[x].fn = CMain /\ blocks'[x].closed /\ ~blocks'[x].late
                /\ blocks'[x].to \subseteq DOMAIN to
    <2>1. s[x] = NewBlock(CMain)
      <3>1. x = n + 1 \/ x = n + 2 \/ x = n + 3  BY <1>3, <1>6
      <3> QED  BY <1>7, <3>1
    <2>2. Empty(s[x], CMain)  BY <2>1, NewBlockEmpty
    <2>3. s[x].fn = CMain /\ s[x].closed = FALSE /\ s[x].late = FALSE /\ s[x].to = {}
      BY <2>2 DEF Empty
    <2>4. x \in 1..n + 3 /\ to[x] \subseteq DOMAIN to  BY <1>6, <1>9
    <2>5. blocks'[x].fn = CMain /\ blocks'[x].closed /\ ~blocks'[x].late
      BY <1>8, <2>3, <2>4
    <2>6. blocks'[x].to = s[x].to \cup to[x]  BY <1>8, <2>4
    <2> QED  BY <2>3, <2>4, <2>5, <2>6
  <1>12. UnclosedInv'
    <2> SUFFICES ASSUME NEW b \in Blocks', ~blocks'[b].closed,
                        "clause" \notin causes'[blocks'[b].fn]
                 PROVE  FALSE
      BY DEF UnclosedInv
    <2>1. b \in Blocks /\ ~blocks[b].closed /\ "clause" \notin causes[blocks[b].fn]
      BY <1>2, <1>9, <1>10, <1>11
    <2> QED  BY <1>1, <2>1 DEF Flow, UnclosedInv
  <1>13. TargetInv'
    <2> SUFFICES ASSUME NEW b \in Blocks', "pad" \notin causes'[blocks'[b].fn],
                        NEW c \in blocks'[b].to
                 PROVE  c \in Blocks' /\ blocks'[c].fn = blocks'[b].fn
      BY DEF TargetInv
    <2>1. CASE b \in Blocks
      <3>1. c \in Blocks /\ blocks[c].fn = blocks[b].fn
        BY <1>2, <1>10, <2>1 DEF Flow, TargetInv
      <3> QED  BY <1>9, <1>10, <2>1, <3>1
    <2>2. CASE b \in DOMAIN to  BY <1>9, <1>11, <2>2
    <2> QED  BY <1>9, <2>1, <2>2
  <1>14. LateInv'  BY <1>2, <1>9, <1>10, <1>11 DEF LateInv, Flow
  <1>15. EvidenceInv'
    <2> SUFFICES ASSUME NEW f \in Fns
                 PROVE
                   /\ "alloca" \in causes[f] =>
                        \E b \in Blocks' : blocks'[b].fn = f /\ blocks'[b].late
                   /\ "pad" \in causes[f] =>
                        \E b \in Blocks' :
                          /\ blocks'[b].fn = f
                          /\ \E c \in blocks'[b].to : c \in Blocks' /\ blocks'[c].fn # f
                   /\ "clause" \in causes[f] =>
                        \E b \in Blocks' : blocks'[b].fn = f /\ blocks'[b].late
      BY <1>2 DEF EvidenceInv
    <2>1. ("alloca" \in causes[f] \/ "clause" \in causes[f]) =>
             \E b \in Blocks : blocks[b].fn = f /\ blocks[b].late
      BY <1>1 DEF Flow, EvidenceInv
    <2>2. ASSUME "pad" \in causes[f]
          PROVE  \E b \in Blocks' : /\ blocks'[b].fn = f
                                    /\ \E c \in blocks'[b].to : c \in Blocks' /\ blocks'[c].fn # f
      <3>1. PICK b \in Blocks : /\ blocks[b].fn = f
                                /\ \E c \in blocks[b].to : c \in Blocks /\ blocks[c].fn # f
        BY <2>2 DEF Flow, EvidenceInv
      <3>2. PICK c \in blocks[b].to : c \in Blocks /\ blocks[c].fn # f  BY <3>1
      <3> QED  BY <1>9, <1>10, <3>1, <3>2
    <2> QED  BY <1>9, <1>10, <2>1, <2>2
  <1>16. Len(open') = 0 /\ Len(methods') = 0  BY <1>1, <1>2
  <1>17. FnInv' /\ OwnInv' /\ WaitInv' /\ ClauseInv' /\ FirstInv' /\ PadFnInv'
    BY <1>16 DEF FnInv, OwnInv, WaitInv, ClauseInv, FirstInv, PadFnInv
  <1> QED  BY <1>12, <1>13, <1>14, <1>15, <1>16, <1>17 DEF Flow, MainInv

\* At first the program's block is in use, and the block for allocas waits.
LEMMA InitFlow == ASSUME Init PROVE Flow /\ MainInv
  <1>1. Inv /\ status = "unit"  BY InvInit DEF Init
  <1>2. /\ Len(blocks) = 2 /\ blocks[1] = NewBlock(PupMain) /\ blocks[2] = NewBlock(PupMain)
    BY DEF Init
  <1>3. \A b \in Blocks : Empty(blocks[b], PupMain)
    <2>1. \A b \in Blocks : b = 1 \/ b = 2  BY <1>2 DEF Blocks
    <2>2. Empty(NewBlock(PupMain), PupMain)  BY NewBlockEmpty
    <2> QED  BY <1>2, <2>1, <2>2
  <1>4. 1 \in Blocks /\ 2 \in Blocks /\ \A b \in Blocks : b = 1 \/ b = 2  BY <1>2 DEF Blocks
  <1>5. /\ Len(open) = 1 /\ open[1].kind = "unit" /\ open[1].base = 2
        /\ open[1].rescue_impls = {} /\ open[1] = Top
    BY DEF Init, Top
  <1>6. /\ Len(methods) = 1 /\ methods[1].fn = PupMain /\ methods[1].first = 1
        /\ methods[1].left = FALSE /\ Method = methods[1]
    BY DEF Init, Method
  <1>7. Cur = 2 /\ serial = 0 /\ landingpad = NoBlock /\ causes = [f \in Fns |-> {}]
    BY DEF Init, Cur
  <1>8. CodeAt(1) = 2 /\ FnAt(1) = PupMain /\ FirstAt(1) = 1 /\ Level(open, 1) = 1
    BY <1>1, <1>5, <1>6, <1>7, IndexTop
  <1>9. \A k \in 1..Len(open) : k = 1  BY <1>5
  <1>10. \A b : Owned(open[1], b) <=> b = 2  BY <1>5 DEF Owned
  <1>11. \A b : Pend(1, b) <=> b = 1  BY <1>5 DEF Pend, Waits, Handling, InBody
  <1>12. ~InBody(open[1]) /\ ~Handling(open[1]) /\ open[1].kind \notin {"if", "while"}
    BY <1>5 DEF InBody, Handling
  <1>13. FnInv  BY <1>6, <1>7 DEF FnInv, PupMain
  <1>14. OwnInv
    <2>1. OwnAt(1)  BY <1>3, <1>4, <1>8, <1>10 DEF OwnAt, Empty
    <2>2. methods[1].first \in Blocks /\ blocks[methods[1].first].fn = methods[1].fn
      BY <1>3, <1>4, <1>6 DEF Empty
    <2>3. \A i \in 1..Len(methods) : i = 1  BY <1>6
    <2> QED  BY <1>5, <1>9, <2>1, <2>2, <2>3 DEF OwnInv
  <1>15. WaitInv  BY <1>3, <1>4, <1>7, <1>9, <1>11 DEF WaitInv, Empty
  <1>16. UnclosedInv
    <2>1. 1 \in 1..Len(open) /\ Len(open) > 0  BY <1>5
    <2> QED  BY <1>4, <1>7, <1>11, <2>1 DEF UnclosedInv
  <1>17. ClauseInv  BY <1>9, <1>12 DEF ClauseInv, ClauseAt
  <1>18. FirstInv
    <2>1. AfterFirst(1)  BY <1>8, <1>10, <1>12 DEF AfterFirst
    <2>2. methods[1].left <=> blocks[methods[1].first].closed
      BY <1>3, <1>4, <1>6 DEF Empty
    <2>3. \A i \in 1..Len(methods) : i = 1  BY <1>6
    <2> QED  BY <1>9, <2>1, <2>2, <2>3 DEF FirstInv
  <1>19. PadFnInv
    <2>1. PadAt(1) = NoBlock  BY <1>5, <1>7 DEF PadAt
    <2> QED  BY <1>9, <2>1 DEF PadFnInv, PadFnAt
  <1>20. TargetInv /\ LateInv
    <2>1. \A b \in Blocks : blocks[b].to = {} /\ blocks[b].late = FALSE  BY <1>3 DEF Empty
    <2> QED  BY <2>1 DEF TargetInv, LateInv
  <1>21. EvidenceInv  BY <1>7 DEF EvidenceInv
  <1> QED
    BY <1>1, <1>13, <1>14, <1>15, <1>16, <1>17, <1>18, <1>19, <1>20, <1>21 DEF Flow, MainInv

\* A block that waits for a statement is in a function that is being written.
LEMMA PendFn ==
  ASSUME Inv, Flow, status = "unit", NEW k \in 1..Len(open), NEW b, Pend(k, b)
  PROVE  \E i \in 1..Len(methods) : blocks[b].fn = methods[i].fn
  <1> DEFINE n == Len(open)
  <1>1. n \in Nat /\ k \in Nat /\ k >= 1 /\ k <= n /\ OwnAt(k) /\ open[k] \in FrameRec
    BY DEF Inv, TypeInv, Flow, OwnInv
  <1>2. ASSUME NEW j \in 1..n PROVE Level(open, j) \in 1..Len(methods)
    <2>1. j \in Nat /\ j <= n  BY <1>1
    <2>2. Level(open, j) \in Nat /\ Level(open, j) >= 1  BY <2>1, IndexStep
    <2>3. Level(open, j) <= Level(open, n)  BY <1>1, <2>1, IndexOrder
    <2>4. Level(open, n) = Len(methods) /\ Len(methods) \in Nat  BY IndexTop DEF Inv, TypeInv
    <2> QED  BY <2>2, <2>3, <2>4
  <1>3. CASE open[k].kind = "unit" /\ b = 1
    <2>1. 1 \in 1..Len(methods) /\ blocks[1].fn = methods[1].fn  BY UnitPlace
    <2> QED  BY <1>3, <2>1
  <1>4. CASE Waits(open[k], b) /\ open[k].kind # "unit"
    <2>1. Owned(open[k], b)  BY <1>1, <1>4, WaitsOwned
    <2> QED  BY <1>1, <1>2, <2>1 DEF OwnAt, FnAt
  <1>5. CASE (open[k].kind = "def" \/ Handling(open[k])) /\ b = CodeAt(k - 1)
    <2>1. k # 1  BY <1>5 DEF Inv, StacksInv, Handling
    <2>2. k - 1 \in 1..n  BY <1>1, <2>1
    <2>3. OwnAt(k - 1)  BY <2>2 DEF Flow, OwnInv
    <2> QED  BY <1>2, <1>5, <2>2, <2>3 DEF OwnAt, FnAt
  <1>6. CASE Handling(open[k]) /\ b \in Done(open[k])
    <2>1. Owned(open[k], b)  BY <1>6 DEF Handling, Done, Owned
    <2> QED  BY <1>1, <1>2, <2>1 DEF OwnAt, FnAt
  <1> QED  BY <1>3, <1>4, <1>5, <1>6 DEF Pend, Waits, InBody, Handling

\* A complete function waits for nothing, and what broke it shows.
LEMMA FlowBroken ==
  ASSUME Inv, Flow, MainInv, status # "failed"
  PROVE  BrokenExactlyBy
  <1> SUFFICES ASSUME NEW f \in Complete PROVE WellFormed(f) <=> causes[f] = {}
    BY DEF BrokenExactlyBy
  <1>1. f \in Fns /\ \A i \in 1..Len(methods) : methods[i].fn # f  BY DEF Complete
  <1>2. \A b : b \in BlocksOf(f) <=> b \in Blocks /\ blocks[b].fn = f  BY DEF BlocksOf
  <1>3. status = "unit" \/ Len(open) = 0  BY DEF MainInv, Inv, TypeInv
  <1>4. ASSUME status = "unit", NEW k \in 1..Len(open)
        PROVE  FnAt(k) # f
    <2>1. Len(open) \in Nat /\ k \in Nat /\ k <= Len(open)  BY DEF Inv, TypeInv
    <2>2. Level(open, k) \in Nat /\ Level(open, k) >= 1  BY <2>1, IndexStep
    <2>3. Level(open, k) <= Level(open, Len(open))  BY <2>1, IndexOrder
    <2>4. Level(open, Len(open)) = Len(methods) /\ Len(methods) \in Nat
      BY <1>4, IndexTop DEF Inv, TypeInv
    <2>5. Level(open, k) \in 1..Len(methods)  BY <2>2, <2>3, <2>4
    <2> QED  BY <1>1, <2>5 DEF FnAt
  <1>5. \A k \in 1..Len(open) : FnAt(k) # f
    <2>1. CASE status = "unit"  BY <1>4, <2>1
    <2>2. CASE Len(open) = 0  BY <2>2
    <2> QED  BY <1>3, <2>1, <2>2
  <1>6. ASSUME causes[f] = {} PROVE WellFormed(f)
    <2> SUFFICES ASSUME NEW b \in BlocksOf(f)
                 PROVE  /\ blocks[b].closed /\ ~blocks[b].late /\ blocks[b].to \subseteq BlocksOf(f)
      BY DEF WellFormed
    <2>1. b \in Blocks /\ blocks[b].fn = f /\ "clause" \notin causes[blocks[b].fn]
          /\ "pad" \notin causes[blocks[b].fn]
      BY <1>2, <1>6
    <2>2. ~blocks[b].late  BY <1>6, <2>1 DEF Flow, LateInv
    <2>3. blocks[b].to \subseteq BlocksOf(f)  BY <1>2, <2>1 DEF Flow, TargetInv
    <2>4. blocks[b].closed
      <3> SUFFICES ASSUME ~blocks[b].closed PROVE FALSE  OBVIOUS
      <3>1. Len(open) > 0 /\ (b = Cur \/ \E k \in 1..Len(open) : Pend(k, b))
        BY <2>1 DEF Flow, UnclosedInv
      <3>2. status = "unit"  BY <1>3, <3>1
      <3>3. CASE b = Cur
        <4>1. blocks[Cur].fn = Method.fn  BY <3>2, Where
        <4>2. Len(methods) \in 1..Len(methods) /\ Method = methods[Len(methods)]
          BY <3>2, Heights DEF Inv, Method
        <4> QED  BY <1>1, <2>1, <3>3, <4>1, <4>2
      <3>4. CASE \E k \in 1..Len(open) : Pend(k, b)
        <4>1. PICK k \in 1..Len(open) : Pend(k, b)  BY <3>4
        <4>2. \E i \in 1..Len(methods) : blocks[b].fn = methods[i].fn  BY <3>2, <4>1, PendFn
        <4> QED  BY <1>1, <2>1, <4>2
      <3> QED  BY <3>1, <3>3, <3>4
    <2> QED  BY <2>2, <2>3, <2>4
  <1>7. ASSUME causes[f] # {} PROVE ~WellFormed(f)
    <2>1. "alloca" \in causes[f] \/ "clause" \in causes[f] \/ "pad" \in causes[f]
      <3>1. causes[f] \in SUBSET {"alloca", "clause", "pad"}  BY <1>1 DEF Inv, TypeInv
      <3> QED  BY <1>7, <3>1
    <2>2. CASE "alloca" \in causes[f] \/ "clause" \in causes[f]
      <3>1. \E b \in Blocks : blocks[b].fn = f /\ blocks[b].late
        BY <1>1, <1>5, <2>2 DEF Flow, EvidenceInv
      <3> QED  BY <1>2, <3>1 DEF WellFormed
    <2>3. CASE "pad" \in causes[f]
      <3>1. PICK b \in Blocks : /\ blocks[b].fn = f
                                /\ \E c \in blocks[b].to : c \in Blocks /\ blocks[c].fn # f
        BY <1>1, <2>3 DEF Flow, EvidenceInv
      <3>2. PICK c \in blocks[b].to : c \in Blocks /\ blocks[c].fn # f  BY <3>1
      <3> QED  BY <1>2, <3>1, <3>2 DEF WellFormed
    <2> QED  BY <2>1, <2>2, <2>3
  <1> QED  BY <1>6, <1>7

-----------------------------------------------------------------------------
(* The walk keeps the invariant until it ends or fails.                    *)

\* A generator that has failed writes nothing more.
FlowInv == status # "failed" => Flow /\ MainInv

LEMMA ExpressionFlow ==
  ASSUME Inv, Inv', Flow, Expression
  PROVE  Flow' /\ status' = "unit"
  <1>1. CASE Simple  BY <1>1, SimpleFlow DEF Simple, AtExpression
  <1>2. ASSUME NEW x \in Locals, AssignLocal(x) PROVE Flow' /\ status' = "unit"
    BY <1>2, AssignLocalFlow DEF AssignLocal, AtExpression
  <1>3. ASSUME NEW h \in BOOLEAN, Call(h) PROVE Flow' /\ status' = "unit"
    BY <1>3, CallFlow DEF Call, AtExpression
  <1>4. ASSUME NEW h \in BOOLEAN, Invoke(h) PROVE Flow' /\ status' = "unit"
    BY <1>4, InvokeFlow DEF Invoke, AtExpression
  <1> QED  BY <1>1, <1>2, <1>3, <1>4 DEF Expression

LEMMA BeginFlow ==
  ASSUME Inv, Inv', Flow, Begin, status' # "failed"
  PROVE  Flow' /\ status' = "unit"
  <1>1. ASSUME NEW r \in BOOLEAN, OpenBegin(r) PROVE Flow' /\ status' = "unit"
    BY <1>1, OpenBeginFlow DEF OpenBegin, AtStatement
  <1>2. ASSUME BeginBodyWithoutRescue PROVE FALSE  BY <1>2 DEF BeginBodyWithoutRescue
  <1>3. CASE BeginBody  BY <1>3, BeginBodyFlow DEF BeginBody, At
  <1>4. CASE RescueType  BY <1>4, RescueTypeFlow DEF RescueType, At
  <1>5. CASE TypeTest  BY <1>5, TypeTestFlow DEF TypeTest, At
  <1>6. ASSUME NEW xs \in OneName, RescueClause(xs) PROVE Flow' /\ status' = "unit"
    BY <1>6, RescueClauseFlow DEF RescueClause, At
  <1>7. CASE RescueClauseEnd  BY <1>7, RescueClauseEndFlow DEF RescueClauseEnd, At
  <1>8. CASE BeginEnd  BY <1>8, BeginEndFlow DEF BeginEnd, At
  <1> QED  BY <1>1, <1>2, <1>3, <1>4, <1>5, <1>6, <1>7, <1>8 DEF Begin

LEMMA TestFlow ==
  ASSUME Inv, Inv', Flow,
         OpenIf \/ IfCond \/ IfThen \/ IfElse \/ OpenWhile \/ WhileCond \/ WhileBody
  PROVE  Flow' /\ status' = "unit"
  <1>1. CASE OpenIf
    <2>1. OpenTest("if", 4)  BY <1>1 DEF OpenIf
    <2>2. status' = "unit"  BY <2>1 DEF OpenTest, AtStatement
    <2> QED  BY <2>1, <2>2, OpenTestFlow
  <1>2. CASE OpenWhile
    <2>1. OpenTest("while", 3)  BY <1>2 DEF OpenWhile
    <2>2. status' = "unit"  BY <2>1 DEF OpenTest, AtStatement
    <2> QED  BY <2>1, <2>2, OpenTestFlow
  <1>3. CASE IfCond  BY <1>3, IfCondFlow DEF IfCond, NextPart, At
  <1>4. CASE IfThen  BY <1>4, IfThenFlow DEF IfThen, NextPart, At
  <1>5. CASE WhileCond  BY <1>5, WhileCondFlow DEF WhileCond, NextPart, At
  <1>6. CASE IfElse  BY <1>6, IfElseFlow DEF IfElse, At
  <1>7. CASE WhileBody  BY <1>7, WhileBodyFlow DEF WhileBody, At
  <1> QED  BY <1>1, <1>2, <1>3, <1>4, <1>5, <1>6, <1>7

LEMMA ScopeFlow ==
  ASSUME Inv, Inv', Flow,
         OpenClass \/ CloseClass \/ CloseDef \/ \E xs \in OneName : OpenDef(xs)
  PROVE  Flow' /\ status' = "unit"
  <1>1. CASE OpenClass  BY <1>1, OpenClassFlow DEF OpenClass, AtStatement
  <1>2. CASE CloseClass  BY <1>2, CloseClassFlow DEF CloseClass, At
  <1>3. CASE CloseDef  BY <1>3, CloseDefFlow DEF CloseDef, At
  <1>4. ASSUME NEW xs \in OneName, OpenDef(xs) PROVE Flow' /\ status' = "unit"
    BY <1>4, OpenDefFlow DEF OpenDef, AtStatement
  <1> QED  BY <1>1, <1>2, <1>3, <1>4

\* The steps with which the generator raises.
Raises == IfThenWithoutElse \/ BeginBodyWithoutRescue \/ ClassNotImplemented

LEMMA FlowNext == Inv /\ Inv' /\ FlowInv /\ [Next]_vars => FlowInv'
  <1> SUFFICES ASSUME Inv, Inv', FlowInv, [Next]_vars, status' # "failed"
               PROVE  Flow' /\ MainInv'
    BY DEF FlowInv
  <1>1. Flow' /\ status' = "unit" => Flow' /\ MainInv'  BY DEF MainInv
  <1>2. CASE UNCHANGED vars
    <2>1. Flow /\ MainInv  BY <1>2 DEF vars, FlowInv
    <2>2. MainInv'  BY <1>2, <2>1 DEF vars, MainInv
    <2>3. Flow'
      <3>1. UNCHANGED <<blocks, builder, methods, serial, landingpad, open, causes>>
        BY <1>2 DEF vars
      <3>2. FnInv' /\ TargetInv' /\ LateInv' /\ EvidenceInv'
        BY <2>1, <3>1 DEF Flow, FnInv, TargetInv, LateInv, EvidenceInv, Blocks, FnAt
      <3>3. OwnInv' /\ FirstInv' /\ PadFnInv'
        BY <2>1, <3>1
        DEF Flow, OwnInv, OwnAt, FirstInv, AfterFirst, PadFnInv, PadFnAt, Blocks, CodeAt, FnAt,
            FirstAt, PadAt
      <3>4. WaitInv' /\ UnclosedInv'
        BY <2>1, <3>1 DEF Flow, WaitInv, UnclosedInv, Pend, CodeAt, Cur, Blocks
      <3>5. ClauseInv'
        <4> SUFFICES ASSUME NEW k \in 1..Len(open) PROVE ClauseAt(k)'
          BY <3>1 DEF ClauseInv
        <4>1. ClauseAt(k)  BY <2>1 DEF Flow, ClauseInv
        <4>2. CodeAt(k)' = CodeAt(k) /\ CodeAt(k - 1)' = CodeAt(k - 1) /\ FnAt(k)' = FnAt(k)
          BY <3>1 DEF CodeAt, FnAt
        <4> QED  BY <3>1, <4>1, <4>2 DEF ClauseAt
      <3> QED  BY <3>2, <3>3, <3>4, <3>5 DEF Flow
    <2> QED  BY <2>2, <2>3
  <1>3. CASE Next
    <2>1. Flow /\ MainInv
      <3>1. status # "failed"
        BY <1>3
        DEF Next, Expression, Begin, Simple, AssignLocal, Call, Invoke, OpenBegin,
            BeginBodyWithoutRescue, BeginBody, RescueType, TypeTest, RescueClause,
            RescueClauseEnd, BeginEnd, OpenIf, OpenTest, IfCond, IfThen, NextPart,
            IfThenWithoutElse, IfElse, OpenWhile, WhileCond, WhileBody, OpenClass,
            ClassNotImplemented, CloseClass, OpenDef, CloseDef, CloseUnit, BuildMain, At,
            AtStatement, AtExpression
      <3> QED  BY <3>1 DEF FlowInv
    <2>2. CASE Expression  BY <1>1, <2>1, <2>2, ExpressionFlow
    <2>3. CASE Begin  BY <1>1, <2>1, <2>3, BeginFlow
    <2>4. CASE OpenIf \/ IfCond \/ IfThen \/ IfElse \/ OpenWhile \/ WhileCond \/ WhileBody
      BY <1>1, <2>1, <2>4, TestFlow
    <2>5. CASE OpenClass \/ CloseClass \/ CloseDef \/ \E xs \in OneName : OpenDef(xs)
      BY <1>1, <2>1, <2>5, ScopeFlow
    <2>6. ASSUME Raises PROVE FALSE
      BY <2>6 DEF Raises, IfThenWithoutElse, BeginBodyWithoutRescue, ClassNotImplemented
    <2>7. CASE CloseUnit  BY <2>1, <2>7, CloseUnitFlow
    <2>8. CASE BuildMain  BY <2>1, <2>8, BuildMainFlow
    <2> QED  BY <1>3, <2>2, <2>3, <2>4, <2>5, <2>6, <2>7, <2>8 DEF Next, Raises
  <1> QED  BY <1>2, <1>3

\* A step that fails leaves the code as it is.
LEMMA FailedCode ==
  ASSUME [Next]_vars, status' = "failed", Inv, Inv', BrokenExactlyBy
  PROVE  BrokenExactlyBy'
  <1>1. UNCHANGED <<blocks, methods, causes>>
    <2>1. CASE UNCHANGED vars  BY <2>1 DEF vars
    <2>2. CASE Raises
      BY <2>2 DEF Raises, IfThenWithoutElse, BeginBodyWithoutRescue, ClassNotImplemented
    <2>3. ASSUME Next, ~Raises PROVE FALSE
      BY <2>3
      DEF Raises, Next, Expression, Begin, Simple, AssignLocal, Call, Invoke, OpenBegin,
          BeginBody, RescueType, TypeTest, RescueClause, RescueClauseEnd, BeginEnd, OpenIf,
          OpenTest, IfCond, IfThen, NextPart, IfElse, OpenWhile, WhileCond, WhileBody, OpenClass,
          CloseClass, OpenDef, CloseDef, CloseUnit, BuildMain, At, AtStatement, AtExpression
    <2> QED  BY <2>1, <2>2, <2>3
  <1> QED  BY <1>1 DEF BrokenExactlyBy, Complete, WellFormed, BlocksOf, Blocks

-----------------------------------------------------------------------------
(* Loops.  Branches that are written lead down in some order of the blocks,  *)
(* except those of blocks that poll: a branch goes to a block that is still  *)
(* open, which has no branches yet, or back from the end of a while.  The    *)
(* tests of a rescue clause branch later than their order is settled, when   *)
(* the clause gets its block.                                                *)

Testing(f) == Handling(f) /\ f.hole # "clause"

\* In block b is a test that will branch to c if the type does not match.
TestTo(o, b, c) ==
  \E k \in 1..Len(o) : /\ Testing(o[k])
                       /\ b \in DOMAIN o[k].type_tests /\ c = o[k].type_tests[b]

Ranked(rk) ==
  /\ \A b \in Blocks : ~blocks[b].polls => \A c \in blocks[b].to : rk[c] < rk[b]
  /\ \A b, c \in Nat : TestTo(open, b, c) => rk[c] < rk[b]

\* Only terminators branch, to blocks that exist, and never to pup_main's first.
SinkInv == \A b \in Blocks : ~blocks[b].closed => blocks[b].to = {}
EdgeInv == \A b \in Blocks : \A c \in blocks[b].to : c \in 2..Len(blocks)
\* No landing pad is active around the program.
RootInv == Len(open) > 0 => open[1].last_landingpad = NoBlock
RankInv == \E rk \in [Nat -> Nat] : Ranked(rk)

LoopInv == SinkInv /\ EdgeInv /\ RootInv /\ RankInv

\* s is the code with new branches to blocks of T: in blocks that poll, of tests,
\* and from blocks of C to blocks of R.
Linked(s, C, R, T) ==
  /\ s \in Seq(BlockRec) /\ Len(blocks) <= Len(s)
  /\ \A b \in 1..Len(s) :
       /\ ~s[b].closed => s[b].to = {}
       /\ b \in Blocks /\ blocks[b].polls => s[b].polls
       /\ \A c \in s[b].to :
            \/ b \in Blocks /\ c \in blocks[b].to
            \/ c \in T /\ (s[b].polls \/ TestTo(open, b, c) \/ (b \in C /\ c \in R))

LEMMA LinkedStart ==
  ASSUME Inv, SinkInv, NEW C, NEW R, NEW T
  PROVE  Linked(blocks, C, R, T)
  <1>1. blocks \in Seq(BlockRec) /\ Len(blocks) \in Nat  BY DEF Inv, TypeInv
  <1> QED  BY <1>1 DEF Linked, SinkInv, Blocks

LEMMA LinkedBy ==
  ASSUME Inv, NEW s, NEW C, NEW R, NEW T, Linked(s, C, R, T), NEW t \in Seq(BlockRec),
         Len(s) <= Len(t),
         \A x \in 1..Len(s) :
           /\ s[x].polls => t[x].polls
           /\ s[x].closed => t[x].closed
           /\ \A c \in t[x].to :
                \/ c \in s[x].to
                \/ /\ t[x].closed /\ c \in T
                   /\ t[x].polls \/ TestTo(open, x, c) \/ (x \in C /\ c \in R),
         \A x \in Len(s) + 1..Len(t) : t[x].to = {}
  PROVE  Linked(t, C, R, T)
  <1>1. /\ s \in Seq(BlockRec) /\ Len(s) \in Nat /\ Len(t) \in Nat /\ Len(blocks) <= Len(s)
        /\ Len(blocks) \in Nat
    BY DEF Linked, Inv, TypeInv
  <1>2. \A x \in 1..Len(t) : x \in 1..Len(s) \/ x \in Len(s) + 1..Len(t)  BY <1>1
  <1>3. \A x \in Blocks : x \in 1..Len(s)  BY <1>1 DEF Blocks
  <1>4. Len(blocks) <= Len(t)  BY <1>1
  <1> SUFFICES ASSUME NEW b \in 1..Len(t)
               PROVE  /\ ~t[b].closed => t[b].to = {}
                      /\ b \in Blocks /\ blocks[b].polls => t[b].polls
                      /\ \A c \in t[b].to :
                           \/ b \in Blocks /\ c \in blocks[b].to
                           \/ c \in T /\ (t[b].polls \/ TestTo(open, b, c) \/ (b \in C /\ c \in R))
    BY <1>4 DEF Linked
  <1>5. CASE b \in Len(s) + 1..Len(t)
    <2>1. b \notin Blocks  BY <1>1, <1>5 DEF Blocks
    <2> QED  BY <1>5, <2>1
  <1>6. CASE b \in 1..Len(s)
    <2>1. /\ ~s[b].closed => s[b].to = {}
          /\ b \in Blocks /\ blocks[b].polls => s[b].polls
          /\ \A c \in s[b].to :
               \/ b \in Blocks /\ c \in blocks[b].to
               \/ c \in T /\ (s[b].polls \/ TestTo(open, b, c) \/ (b \in C /\ c \in R))
      BY <1>6 DEF Linked
    <2>2. /\ s[b].polls => t[b].polls
          /\ s[b].closed => t[b].closed
          /\ \A c \in t[b].to :
                \/ c \in s[b].to
                \/ /\ t[b].closed /\ c \in T
                   /\ t[b].polls \/ TestTo(open, b, c) \/ (b \in C /\ c \in R)
      BY <1>6
    <2>3. ~t[b].closed => t[b].to = {}
      <3> SUFFICES ASSUME ~t[b].closed, NEW c \in t[b].to PROVE FALSE  OBVIOUS
      <3>1. c \in s[b].to  BY <2>2
      <3> QED  BY <2>1, <2>2, <3>1
    <2> HIDE DEF TestTo
    <2> QED  BY <2>1, <2>2, <2>3
  <1> QED  BY <1>2, <1>5, <1>6

LEMMA LinkedInstr ==
  ASSUME Inv, NEW s, NEW C, NEW R, NEW T, Linked(s, C, R, T), NEW b
  PROVE  Linked(Instr(s, b), C, R, T) /\ Len(Instr(s, b)) = Len(s)
  <1> DEFINE t == Instr(s, b)
  <1>1. s \in Seq(BlockRec) /\ Len(s) \in Nat  BY DEF Linked
  <1>2. /\ t \in Seq(BlockRec) /\ Len(t) = Len(s)
        /\ \A x \in 1..Len(s) : /\ t[x].closed = s[x].closed /\ t[x].to = s[x].to
                                /\ t[x].polls = s[x].polls
    BY <1>1, InstrAt
  <1> HIDE DEF t
  <1>3. \A x \in Len(s) + 1..Len(t) : t[x].to = {}  BY <1>1, <1>2
  <1>4. Len(s) <= Len(t)  BY <1>1, <1>2
  <1>5. Linked(t, C, R, T)  BY <1>2, <1>3, <1>4, LinkedBy
  <1> QED  BY <1>2, <1>5 DEF t

LEMMA LinkedTermAll ==
  ASSUME Inv, NEW s, NEW C, NEW R, NEW T, Linked(s, C, R, T), NEW to,
         \A b \in DOMAIN to : to[b] \in SUBSET Nat,
         \A b \in DOMAIN to : \A c \in to[b] :
           /\ c \in T
           /\ \/ b \in 1..Len(s) => s[b].polls
              \/ TestTo(open, b, c)
              \/ b \in C /\ c \in R
  PROVE  Linked(TermAll(s, to), C, R, T) /\ Len(TermAll(s, to)) = Len(s)
  <1> DEFINE t == TermAll(s, to)
  <1>1. s \in Seq(BlockRec) /\ Len(s) \in Nat  BY DEF Linked
  <1>2. /\ t \in Seq(BlockRec) /\ Len(t) = Len(s)
        /\ \A x \in 1..Len(s) :
              /\ t[x].polls = s[x].polls
              /\ t[x].closed <=> s[x].closed \/ x \in DOMAIN to
              /\ x \in DOMAIN to => t[x].to = s[x].to \cup to[x]
              /\ x \notin DOMAIN to => t[x] = s[x]
    BY <1>1, TermAllAt
  <1> HIDE DEF t
  <1>3. \A x \in Len(s) + 1..Len(t) : t[x].to = {}  BY <1>1, <1>2
  <1>4. Len(s) <= Len(t)  BY <1>1, <1>2
  <1>5. ASSUME NEW x \in 1..Len(s)
        PROVE  /\ s[x].polls => t[x].polls
               /\ s[x].closed => t[x].closed
               /\ \A c \in t[x].to :
                    \/ c \in s[x].to
                    \/ /\ t[x].closed /\ c \in T
                       /\ t[x].polls \/ TestTo(open, x, c) \/ (x \in C /\ c \in R)
    <2>1. (s[x].polls => t[x].polls) /\ (s[x].closed => t[x].closed)  BY <1>2
    <2>2. CASE x \in DOMAIN to
      <3>1. t[x].to = s[x].to \cup to[x] /\ t[x].closed /\ t[x].polls = s[x].polls
        BY <1>2, <2>2
      <3>2. \A c \in to[x] : c \in T /\ (s[x].polls \/ TestTo(open, x, c) \/ (x \in C /\ c \in R))
        BY <2>2
      <3> QED  BY <2>1, <3>1, <3>2
    <2>3. CASE x \notin DOMAIN to
      <3>1. t[x] = s[x]  BY <1>2, <2>3
      <3> QED  BY <2>1, <3>1
    <2> QED  BY <2>2, <2>3
  <1>6. Linked(t, C, R, T)  BY <1>2, <1>3, <1>4, <1>5, LinkedBy
  <1> QED  BY <1>2, <1>6 DEF t

LEMMA LinkedTerm ==
  ASSUME Inv, NEW s, NEW C, NEW R, NEW T, Linked(s, C, R, T), NEW b, NEW to \in SUBSET Nat,
         \A c \in to : c \in T /\ ((b \in 1..Len(s) => s[b].polls) \/ (b \in C /\ c \in R))
  PROVE  Linked(Term(s, b, to), C, R, T) /\ Len(Term(s, b, to)) = Len(s)
  <1> DEFINE f == [x \in {b} |-> to]
  <1>1. DOMAIN f = {b} /\ f[b] = to  OBVIOUS
  <1>2. Term(s, b, to) = TermAll(s, f)  BY DEF Term
  <1> HIDE DEF f
  <1>3. /\ \A x \in DOMAIN f : f[x] \in SUBSET Nat
        /\ \A x \in DOMAIN f : \A c \in f[x] :
             /\ c \in T
             /\ \/ x \in 1..Len(s) => s[x].polls
                \/ TestTo(open, x, c)
                \/ x \in C /\ c \in R
    BY <1>1
  <1> QED  BY <1>2, <1>3, LinkedTermAll

LEMMA LinkedAppend ==
  ASSUME Inv, NEW s, NEW C, NEW R, NEW T, Linked(s, C, R, T), NEW n \in Nat, Method.fn \in Fns
  PROVE  Linked(AppendBlocks(s, n), C, R, T) /\ Len(AppendBlocks(s, n)) = Len(s) + n
  <1> DEFINE t == AppendBlocks(s, n)
  <1>1. s \in Seq(BlockRec) /\ Len(s) \in Nat  BY DEF Linked
  <1>2. /\ t \in Seq(BlockRec) /\ Len(t) = Len(s) + n
        /\ \A x \in 1..Len(s) : t[x] = s[x]
        /\ \A x \in Len(s) + 1..Len(s) + n : Empty(t[x], Method.fn)
    BY <1>1, AppendAt
  <1> HIDE DEF t
  <1>3. \A x \in Len(s) + 1..Len(t) : t[x].to = {}  BY <1>2 DEF Empty
  <1>4. Len(s) <= Len(t)  BY <1>1, <1>2
  <1>5. Linked(t, C, R, T)  BY <1>2, <1>3, <1>4, LinkedBy
  <1> QED  BY <1>2, <1>5 DEF t

LEMMA LinkedPush ==
  ASSUME Inv, NEW s, NEW C, NEW R, NEW T, Linked(s, C, R, T), NEW r \in BlockRec,
         r.to = {}
  PROVE  Linked(Append(s, r), C, R, T) /\ Len(Append(s, r)) = Len(s) + 1
  <1> DEFINE t == Append(s, r)
  <1>1. s \in Seq(BlockRec) /\ Len(s) \in Nat  BY DEF Linked
  <1>2. /\ t \in Seq(BlockRec) /\ Len(t) = Len(s) + 1 /\ t[Len(s) + 1] = r
        /\ \A x \in 1..Len(s) : t[x] = s[x]
    BY <1>1
  <1> HIDE DEF t
  <1>3. \A x \in Len(s) + 1..Len(t) : t[x].to = {}
    <2>1. \A x \in Len(s) + 1..Len(t) : x = Len(s) + 1  BY <1>1, <1>2
    <2> QED  BY <1>2, <2>1
  <1>4. Len(s) <= Len(t)  BY <1>1, <1>2
  <1>5. Linked(t, C, R, T)  BY <1>2, <1>3, <1>4, LinkedBy
  <1> QED  BY <1>2, <1>5 DEF t

LEMMA LinkedPoll ==
  ASSUME Inv, NEW s, NEW C, NEW R, NEW T, Linked(s, C, R, T), NEW b \in 1..Len(s)
  PROVE  LET t == [s EXCEPT ![b].polls = TRUE]
         IN  Linked(t, C, R, T) /\ Len(t) = Len(s) /\ t[b].polls
  <1> DEFINE r == [s[b] EXCEPT !.polls = TRUE]
             t == [s EXCEPT ![b].polls = TRUE]
  <1>1. s \in Seq(BlockRec) /\ Len(s) \in Nat /\ s[b] \in BlockRec  BY DEF Linked
  <1>2. /\ r \in BlockRec /\ r.to = s[b].to /\ r.closed = s[b].closed /\ r.polls = TRUE
    BY <1>1 DEF BlockRec
  <1>3. t = [s EXCEPT ![b] = r]  OBVIOUS
  <1> HIDE DEF r, t
  <1>4. /\ t \in Seq(BlockRec) /\ Len(t) = Len(s) /\ t[b] = r
        /\ \A x \in 1..Len(s) : x # b => t[x] = s[x]
    BY <1>1, <1>2, <1>3
  <1>5. \A x \in Len(s) + 1..Len(t) : t[x].to = {}  BY <1>1, <1>4
  <1>6. \A x \in 1..Len(s) : /\ t[x].to = s[x].to /\ t[x].closed = s[x].closed
                             /\ s[x].polls => t[x].polls
    BY <1>2, <1>4
  <1>7. Len(s) <= Len(t)  BY <1>1, <1>4
  <1>8. Linked(t, C, R, T)  BY <1>4, <1>5, <1>6, <1>7, LinkedBy
  <1> QED  BY <1>2, <1>4, <1>8 DEF t

\* A set of numbers has a least one.
LEMMA LeastNat ==
  ASSUME NEW S \in SUBSET Nat, S # {}
  PROVE  \E i \in S : \A j \in S : i <= j
  <1> DEFINE R == OpToRel(<, Nat)
  <1>1. IsWellFoundedOn(R, Nat)  BY NatLessThanWellFounded
  <1> HIDE DEF R
  <1>2. PICK i \in S : \A j \in S : ~(<<j, i>> \in R)  BY <1>1, WFMin
  <1>3. ASSUME NEW j \in S PROVE i <= j
    <2>1. i \in Nat /\ j \in Nat  OBVIOUS
    <2>2. ~(j < i)
      <3> SUFFICES ASSUME j < i PROVE FALSE  OBVIOUS
      <3> QED  BY <1>2, <2>1 DEF R, OpToRel
    <2> QED  BY <2>1, <2>2
  <1> QED  BY <1>3

\* A block that may be branched to: it has no branches itself.
Sink(r) ==
  /\ r \in Blocks => ~blocks[r].closed
  /\ \A c \in Nat : ~TestTo(open, r, c)

LEMMA LenNat == ASSUME NEW S, NEW s \in Seq(S) PROVE Len(s) \in Nat
  OBVIOUS

\* Below all blocks so far come those that are branched to.
LEMMA RankStep ==
  ASSUME Inv, Inv', SinkInv, EdgeInv, RankInv, NEW C, NEW R, NEW T, Linked(blocks', C, R, T),
         \A c \in T : c \in 2..Len(blocks'),
         \A r \in R : r \notin C /\ Sink(r),
         \A b, c \in Nat : TestTo(open', b, c) => TestTo(open, b, c) \/ (b \in C /\ c \in R)
  PROVE  SinkInv' /\ EdgeInv' /\ RankInv'
  <1>1. PICK rk \in [Nat -> Nat] : Ranked(rk)  BY DEF RankInv
  <1> DEFINE up == [x \in Nat |-> IF x \in R THEN 0 ELSE rk[x] + 1]
  <1>2. up \in [Nat -> Nat] /\ \A x \in Nat : up[x] = IF x \in R THEN 0 ELSE rk[x] + 1
    OBVIOUS
  <1> HIDE DEF up
  <1>3. Len(blocks) \in Nat /\ Len(blocks') \in Nat /\ Len(blocks) <= Len(blocks')
        /\ Blocks' = 1..Len(blocks') /\ Blocks = 1..Len(blocks)
    <2>1. blocks \in Seq(BlockRec) /\ blocks' \in Seq(BlockRec)  BY DEF Inv, TypeInv
    <2>2. Len(blocks) <= Len(blocks')  BY DEF Linked
    <2>3. Len(blocks) \in Nat /\ Len(blocks') \in Nat  BY <2>1, LenNat, Zenon
    <2>4. Blocks' = 1..Len(blocks') /\ Blocks = 1..Len(blocks)  BY Zenon DEF Blocks
    <2> QED  BY <2>2, <2>3, <2>4, Zenon
  <1>4. SinkInv'  BY <1>3 DEF Linked, SinkInv
  <1>5. EdgeInv'
    <2> SUFFICES ASSUME NEW b \in Blocks', NEW c \in blocks'[b].to PROVE c \in 2..Len(blocks')
      BY DEF EdgeInv
    <2>1. CASE b \in Blocks /\ c \in blocks[b].to
      <3>1. c \in 2..Len(blocks)  BY <2>1 DEF EdgeInv
      <3> QED  BY <1>3, <3>1
    <2>2. CASE c \in T  BY <2>2
    <2> QED  BY <1>3, <2>1, <2>2 DEF Linked
  <1>6. ASSUME NEW b \in Nat, NEW c \in Nat, b \notin R, rk[c] < rk[b] PROVE up[c] < up[b]
    <2>1. up[b] = rk[b] + 1 /\ rk[b] \in Nat /\ rk[c] \in Nat  BY <1>2, <1>6
    <2>2. up[c] = 0 \/ up[c] = rk[c] + 1  BY <1>2
    <2>3. rk[c] < rk[b]  BY <1>6
    <2>4. \A x, y \in Nat : x < y => 0 < y + 1 /\ x + 1 < y + 1  OBVIOUS
    <2>5. 0 < rk[b] + 1 /\ rk[c] + 1 < rk[b] + 1  BY <2>1, <2>3, <2>4, Zenon
    <2> QED  BY <2>1, <2>2, <2>5
  <1>7. ASSUME NEW b \in Nat, NEW c \in Nat, b \in C, c \in R PROVE up[c] < up[b]
    <2>1. up[b] = rk[b] + 1 /\ up[c] = 0 /\ rk[b] \in Nat  BY <1>2, <1>7
    <2> QED  BY <2>1
  <1>8. ASSUME NEW b \in Nat, NEW c \in Nat, TestTo(open, b, c) PROVE up[c] < up[b]
    <2>1. b \notin R  BY <1>8 DEF Sink
    <2>2. rk[c] < rk[b]  BY <1>1, <1>8 DEF Ranked
    <2> QED  BY <1>6, <2>1, <2>2
  <1>9. ASSUME NEW b \in Blocks', ~blocks'[b].polls, NEW c \in blocks'[b].to PROVE up[c] < up[b]
    <2>0. c \in 2..Len(blocks')  BY <1>5 DEF EdgeInv
    <2>1. b \in Nat /\ c \in Nat  BY <1>3, <2>0
    <2>2. CASE b \in Blocks /\ c \in blocks[b].to
      <3>1. ~blocks[b].polls  BY <1>3, <1>9, <2>2 DEF Linked
      <3>2. rk[c] < rk[b]  BY <1>1, <2>2, <3>1 DEF Ranked
      <3>3. b \notin R
        <4>1. blocks[b].to # {}  BY <2>2
        <4>2. blocks[b].closed  BY <2>2, <4>1 DEF SinkInv
        <4> QED  BY <2>2, <4>2 DEF Sink
      <3> QED  BY <1>6, <2>1, <3>2, <3>3
    <2>3. CASE TestTo(open, b, c)  BY <1>8, <2>1, <2>3
    <2>4. CASE b \in C /\ c \in R  BY <1>7, <2>1, <2>4
    <2> QED  BY <1>3, <1>9, <2>2, <2>3, <2>4 DEF Linked
  <1>10. \A b, c \in Nat : TestTo(open', b, c) => up[c] < up[b]  BY <1>7, <1>8
  <1>11. Ranked(up)'  BY <1>9, <1>10 DEF Ranked
  <1> QED  BY <1>2, <1>4, <1>5, <1>11 DEF RankInv

\* The blocks of waiting tests wait for their begin statement.
LEMMA TestPend ==
  ASSUME Inv, Flow, NEW b, NEW c, TestTo(open, b, c)
  PROVE  \E k \in 1..Len(open) : Testing(open[k]) /\ Pend(k, b) /\ Owned(open[k], c)
  <1>1. PICK k \in 1..Len(open) : /\ Testing(open[k]) /\ b \in DOMAIN open[k].type_tests
                                  /\ c = open[k].type_tests[b]
    BY DEF TestTo
  <1>2. Waits(open[k], b)  BY <1>1 DEF Waits, Testing
  <1>3. Owned(open[k], c)  BY <1>1 DEF Owned, Testing, Handling
  <1> QED  BY <1>1, <1>2, <1>3 DEF Pend

\* Any other block that waits may be branched to, and so may a new one.
LEMMA WaitSink ==
  ASSUME Inv, Flow, status = "unit", NEW k \in 1..Len(open), NEW r, Pend(k, r), ~Testing(open[k])
  PROVE  r \in Blocks /\ r # Cur /\ Sink(r)
  <1>1. r \in Blocks  BY PendBlock DEF Flow
  <1>2. Len(open) > 0  BY DEF Inv, TypeInv
  <1>3. ~blocks[r].closed /\ r # Cur /\ \A j \in 1..Len(open) : Pend(j, r) => j = k
    BY <1>2 DEF Flow, WaitInv
  <1>4. ASSUME NEW c \in Nat, TestTo(open, r, c) PROVE FALSE
    <2>1. \E j \in 1..Len(open) : Testing(open[j]) /\ Pend(j, r)  BY <1>4, TestPend
    <2> QED  BY <1>3, <2>1
  <1> QED  BY <1>1, <1>3, <1>4 DEF Sink

LEMMA NewSink ==
  ASSUME Inv, Flow, status = "unit", NEW r, r \notin Blocks
  PROVE  Sink(r)
  <1>1. ASSUME NEW c \in Nat, TestTo(open, r, c) PROVE FALSE
    <2>1. \E j \in 1..Len(open) : Pend(j, r)  BY <1>1, TestPend
    <2> QED  BY <2>1, PendBlock DEF Flow
  <1> QED  BY <1>1 DEF Sink

\* A statement's blocks come after pup_main's first.
LEMMA OwnedRange ==
  ASSUME Inv, Flow, status = "unit", NEW k \in 1..Len(open), NEW b, Owned(open[k], b)
  PROVE  b \in 2..Len(blocks) /\ b \in Blocks
  <1> DEFINE n == Len(open)
  <1>1. n \in Nat /\ k \in Nat /\ k <= n /\ Len(blocks) \in Nat  BY DEF Inv, TypeInv
  <1>2. Level(open, k) \in Nat /\ Level(open, k) >= 1  BY <1>1, IndexStep
  <1>3. Level(open, k) <= Level(open, n)  BY <1>1, IndexOrder
  <1>4. Level(open, n) = Len(methods) /\ Len(methods) \in Nat  BY IndexTop DEF Inv, TypeInv
  <1>5. Level(open, k) \in 1..Len(methods)  BY <1>2, <1>3, <1>4
  <1>6. FirstAt(k) \in Blocks  BY <1>5 DEF Flow, OwnInv, FirstAt
  <1>7. OwnAt(k) /\ AfterFirst(k)  BY DEF Flow, OwnInv, FirstInv
  <1>8. b \in Blocks /\ b > FirstAt(k)  BY <1>7 DEF OwnAt, AfterFirst
  <1> QED  BY <1>1, <1>6, <1>8 DEF Blocks

\* The active landing pad waits for a begin statement around the code, in this
\* function or in one around it.
LEMMA PadWaits ==
  ASSUME Inv, Flow, RootInv, status = "unit", landingpad # NoBlock
  PROVE  \E i \in 1..Len(open) : InBody(open[i]) /\ open[i].base = landingpad
  <1> DEFINE n == Len(open)
             Bad == {k \in 1..n : /\ PadAt(k) # NoBlock
                                  /\ \A i \in 1..n : InBody(open[i]) => open[i].base # PadAt(k)}
  <1>1. n \in Nat /\ n >= 1 /\ n \in 1..n  BY Where
  <1>2. SUFFICES ASSUME n \in Bad PROVE FALSE  BY <1>1 DEF PadAt
  <1>3. PICK k \in Bad : \A j \in Bad : k <= j
    <2>1. Bad \in SUBSET Nat /\ Bad # {}  BY <1>1, <1>2
    <2> HIDE DEF Bad
    <2> QED  BY <2>1, LeastNat
  <1>4. k \in 1..n /\ ~InBody(open[k]) /\ PadAt(k) = open[k].last_landingpad /\ PadAt(k) # NoBlock
    BY DEF Inv, PadInv
  <1>5. k # 1  BY <1>1, <1>4 DEF RootInv
  <1>6. k - 1 \in 1..n /\ k - 1 # n /\ (k - 1) + 1 = k /\ ~(k <= k - 1)  BY <1>1, <1>4, <1>5
  <1>7. PadAt(k - 1) = PadAt(k)  BY <1>4, <1>6 DEF PadAt
  <1>8. k - 1 \in Bad  BY <1>3, <1>6, <1>7
  <1> QED  BY <1>3, <1>6, <1>8

\* What the tests are after a statement is opened or closed, or the last one goes
\* on to its next part.
NoNewTests == \A b, c \in Nat : TestTo(open', b, c) => TestTo(open, b, c)

LEMMA TestsSame ==
  ASSUME RootInv, open' = open
  PROVE  NoNewTests /\ RootInv'
  BY DEF NoNewTests, RootInv

LEMMA TestsOpened ==
  ASSUME Inv, Flow, RootInv, status = "unit", NEW f, open' = Append(open, f), ~Testing(f)
  PROVE  NoNewTests /\ RootInv'
  <1>1. open \in Seq(FrameRec) /\ Len(open) \in Nat /\ Len(open) >= 1  BY Where DEF Inv, TypeInv
  <1>2. /\ Len(open') = Len(open) + 1 /\ open'[Len(open) + 1] = f
        /\ \A k \in 1..Len(open) : open'[k] = open[k]
    BY <1>1
  <1>3. \A k \in 1..Len(open') : k \in 1..Len(open) \/ k = Len(open) + 1  BY <1>1, <1>2
  <1>4. NoNewTests  BY <1>2, <1>3 DEF NoNewTests, TestTo
  <1>5. 1 \in 1..Len(open) /\ Len(open) > 0  BY <1>1
  <1> QED  BY <1>2, <1>4, <1>5 DEF RootInv

LEMMA TestsClosed ==
  ASSUME Inv, Flow, RootInv, status = "unit", Top.kind # "unit", open' = Closed
  PROVE  NoNewTests /\ RootInv'
  <1>1. open \in Seq(FrameRec) /\ Len(open) \in Nat /\ Len(open) >= 2  BY Where DEF Inv, TypeInv
  <1>2. Len(open') = Len(open) - 1 /\ \A k \in 1..Len(open) - 1 : open'[k] = open[k]
    BY <1>1 DEF Closed
  <1>3. \A k \in 1..Len(open') : k \in 1..Len(open) /\ open'[k] = open[k]  BY <1>1, <1>2
  <1>4. NoNewTests  BY <1>3 DEF NoNewTests, TestTo
  <1>5. 1 \in 1..Len(open') /\ Len(open) > 0  BY <1>1, <1>2
  <1> QED  BY <1>3, <1>4, <1>5 DEF RootInv

LEMMA TopAfter ==
  ASSUME Inv, Flow, RootInv, status = "unit", NEW f, open' = [open EXCEPT ![Len(open)] = f],
         f.last_landingpad = Top.last_landingpad
  PROVE  /\ Len(open') = Len(open) /\ open'[Len(open)] = f
         /\ \A k \in 1..Len(open) : k # Len(open) => open'[k] = open[k]
         /\ RootInv'
  <1>1. /\ open \in Seq(FrameRec) /\ Len(open) \in Nat /\ Len(open) >= 1
        /\ Len(open) \in 1..Len(open)
    BY Where DEF Inv, TypeInv
  <1>2. /\ Len(open') = Len(open) /\ open'[Len(open)] = f
        /\ \A k \in 1..Len(open) : k # Len(open) => open'[k] = open[k]
    BY <1>1
  <1>3. 1 \in 1..Len(open) /\ Len(open) > 0  BY <1>1
  <1>4. open'[1].last_landingpad = open[1].last_landingpad  BY <1>2, <1>3 DEF Top
  <1> QED  BY <1>2, <1>3, <1>4 DEF RootInv

LEMMA TestsTop ==
  ASSUME Inv, Flow, RootInv, status = "unit", NEW f, open' = [open EXCEPT ![Len(open)] = f],
         f.last_landingpad = Top.last_landingpad,
         \/ ~Testing(f)
         \/ DOMAIN f.type_tests = {}
         \/ Testing(Top) /\ f.type_tests = Top.type_tests
  PROVE  NoNewTests /\ RootInv'
  <1>1. /\ Len(open') = Len(open) /\ open'[Len(open)] = f
        /\ \A k \in 1..Len(open) : k # Len(open) => open'[k] = open[k]
        /\ RootInv'
    BY TopAfter
  <1> SUFFICES ASSUME NEW b \in Nat, NEW c \in Nat, TestTo(open', b, c) PROVE TestTo(open, b, c)
    BY <1>1 DEF NoNewTests
  <1>2. PICK k \in 1..Len(open) : /\ Testing(open'[k]) /\ b \in DOMAIN open'[k].type_tests
                                  /\ c = open'[k].type_tests[b]
    BY <1>1 DEF TestTo
  <1>3. CASE k = Len(open)
    <2>1. Testing(Top) /\ f.type_tests = Top.type_tests  BY <1>1, <1>2, <1>3
    <2> QED  BY <1>1, <1>2, <1>3, <2>1 DEF TestTo, Top
  <1>4. CASE k # Len(open)  BY <1>1, <1>2, <1>4 DEF TestTo
  <1> QED  BY <1>3, <1>4

-----------------------------------------------------------------------------
(* Steps that write no terminator.                                         *)

LEMMA LoopQuiet ==
  ASSUME Inv, Inv', LoopInv, Linked(blocks', {}, {}, {}), NoNewTests, RootInv'
  PROVE  LoopInv'
  <1>1. SinkInv' /\ EdgeInv' /\ RankInv'
    <2>1. /\ \A c \in {} : c \in 2..Len(blocks')
          /\ \A r \in {} : r \notin {} /\ Sink(r)
      OBVIOUS
    <2>2. \A b, c \in Nat : TestTo(open', b, c) => TestTo(open, b, c) \/ (b \in {} /\ c \in {})
      BY DEF NoNewTests
    <2> QED  BY <2>1, <2>2, RankStep DEF LoopInv
  <1> QED  BY <1>1 DEF LoopInv

LEMMA LinkedSlot ==
  ASSUME Inv, NEW s, NEW C, NEW R, NEW T, Linked(s, C, R, T), NEW need
  PROVE  LET t == IF need THEN Alloca(s) ELSE s
         IN  Linked(t, C, R, T) /\ Len(t) = Len(s)
  <1>1. Linked(Alloca(s), C, R, T) /\ Len(Alloca(s)) = Len(s)  BY LinkedInstr DEF Alloca
  <1> QED  BY <1>1

LEMMA SimpleLoop == ASSUME Inv, Inv', Flow, LoopInv, Simple PROVE LoopInv'
  <1>1. Linked(blocks, {}, {}, {})  BY LinkedStart DEF LoopInv
  <1>2. Linked(blocks', {}, {}, {})  BY <1>1, LinkedInstr DEF Simple
  <1>3. NoNewTests /\ RootInv'  BY TestsSame DEF Simple, LoopInv
  <1> QED  BY <1>2, <1>3, LoopQuiet

LEMMA AssignLocalLoop ==
  ASSUME NEW x \in Locals, Inv, Inv', Flow, LoopInv, AssignLocal(x)
  PROVE  LoopInv'
  <1> DEFINE s == IF NeedsSlot({x}) THEN Alloca(blocks) ELSE blocks
  <1>1. Linked(blocks, {}, {}, {})  BY LinkedStart DEF LoopInv
  <1>2. Linked(s, {}, {}, {})  BY <1>1, LinkedSlot
  <1>3. blocks' = Instr(s, Cur)  BY DEF AssignLocal, CreateLocal
  <1> HIDE DEF s
  <1>4. Linked(blocks', {}, {}, {})  BY <1>2, <1>3, LinkedInstr
  <1>5. NoNewTests /\ RootInv'  BY TestsSame DEF AssignLocal, LoopInv
  <1> QED  BY <1>4, <1>5, LoopQuiet

LEMMA CallLoop ==
  ASSUME NEW need \in BOOLEAN, Inv, Inv', Flow, LoopInv, Call(need)
  PROVE  LoopInv'
  <1> DEFINE s == IF need THEN Alloca(blocks) ELSE blocks
  <1>1. Linked(blocks, {}, {}, {})  BY LinkedStart DEF LoopInv
  <1>2. Linked(s, {}, {}, {})  BY <1>1, LinkedSlot
  <1>3. blocks' = Instr(s, Cur)  BY DEF Call, PassArgs
  <1> HIDE DEF s
  <1>4. Linked(blocks', {}, {}, {})  BY <1>2, <1>3, LinkedInstr
  <1>5. NoNewTests /\ RootInv'  BY TestsSame DEF Call, LoopInv
  <1> QED  BY <1>4, <1>5, LoopQuiet

LEMMA OpenClassLoop == ASSUME Inv, Inv', Flow, LoopInv, OpenClass PROVE LoopInv'
  <1>1. Linked(blocks, {}, {}, {})  BY LinkedStart DEF LoopInv
  <1>2. Linked(blocks', {}, {}, {})  BY <1>1, LinkedInstr DEF OpenClass
  <1>3. Frame("class", "body", NoBlock).kind = "class"  BY DEF Frame
  <1>4. ~Testing(Frame("class", "body", NoBlock))  BY <1>3 DEF Testing, Handling
  <1>5. status = "unit" /\ open' = Append(open, Frame("class", "body", NoBlock))
    BY DEF OpenClass, AtStatement, Opened
  <1>6. NoNewTests /\ RootInv'  BY <1>4, <1>5, TestsOpened DEF LoopInv
  <1> QED  BY <1>2, <1>6, LoopQuiet

LEMMA CloseClassLoop == ASSUME Inv, Inv', Flow, LoopInv, CloseClass PROVE LoopInv'
  <1>1. Linked(blocks', {}, {}, {})  BY LinkedStart DEF LoopInv, CloseClass
  <1>2. status = "unit" /\ Top.kind # "unit" /\ open' = Closed  BY DEF CloseClass, At
  <1>3. NoNewTests /\ RootInv'  BY <1>2, TestsClosed DEF LoopInv
  <1> QED  BY <1>1, <1>3, LoopQuiet

LEMMA OpenBeginLoop ==
  ASSUME NEW r \in BOOLEAN, Inv, Inv', Flow, LoopInv, OpenBegin(r)
  PROVE  LoopInv'
  <1> DEFINE pad == IF r THEN Fresh ELSE NoBlock
             f == Frame("begin", "body", pad)
             new == [NewBlock(Method.fn) EXCEPT !.pad = TRUE]
  <1>1. status = "unit" /\ open' = Append(open, f)  BY DEF OpenBegin, AtStatement, Opened
  <1>2. f.kind = "begin" /\ f.hole = "body"  BY DEF Frame
  <1> HIDE DEF f
  <1>3. ~Testing(f)  BY <1>2 DEF Testing, Handling
  <1>4. NoNewTests /\ RootInv'  BY <1>1, <1>3, TestsOpened DEF LoopInv
  <1>5. Linked(blocks, {}, {}, {})  BY LinkedStart DEF LoopInv
  <1>6. Linked(Alloca(blocks), {}, {}, {})  BY <1>5, LinkedInstr DEF Alloca
  <1>7. new \in BlockRec /\ new.to = {}
    <2>1. Method.fn \in Fns  BY <1>1, Where
    <2> QED  BY <2>1 DEF NewBlock, BlockRec
  <1> HIDE DEF new
  <1>8. Linked(Append(Alloca(blocks), new), {}, {}, {})  BY <1>6, <1>7, LinkedPush
  <1>9. blocks' = IF r THEN Append(Alloca(blocks), new) ELSE Alloca(blocks)
    BY DEF OpenBegin, new
  <1>10. Linked(blocks', {}, {}, {})  BY <1>6, <1>8, <1>9
  <1> QED  BY <1>4, <1>10, LoopQuiet

LEMMA OpenDefLoop == ASSUME NEW xs, Inv, Inv', Flow, LoopInv, OpenDef(xs) PROVE LoopInv'
  <1> DEFINE f == Frame("def", "body", Fresh)
             new == NewBlock(serial + 1)
  <1>1. status = "unit" /\ open' = Append(open, f)  BY DEF OpenDef, AtStatement, Opened
  <1>2. f.kind = "def"  BY DEF Frame
  <1> HIDE DEF f
  <1>3. ~Testing(f)  BY <1>2 DEF Testing, Handling
  <1>4. NoNewTests /\ RootInv'  BY <1>1, <1>3, TestsOpened DEF LoopInv
  <1>5. Linked(blocks, {}, {}, {})  BY LinkedStart DEF LoopInv
  <1>6. new \in BlockRec /\ new.to = {}
    <2>1. serial + 1 \in Fns
      BY BoundsAssumption DEF OpenDef, Inv, TypeInv, Fns, PupMain, CMain
    <2> QED  BY <2>1, NewBlockType DEF NewBlock
  <1> HIDE DEF new
  <1>7. blocks' = Append(blocks, new)  BY DEF OpenDef, new
  <1>8. Linked(blocks', {}, {}, {})  BY <1>5, <1>6, <1>7, LinkedPush
  <1> QED  BY <1>4, <1>8, LoopQuiet

LEMMA BeginBodyLoop == ASSUME Inv, Inv', Flow, LoopInv, BeginBody PROVE LoopInv'
  <1> DEFINE f == [Top EXCEPT !.hole = "clauses", !.begin_block = Cur]
             s == Instr(blocks, Cur)
  <1>1. status = "unit" /\ Top.kind = "begin" /\ Top.hole = "body"  BY DEF BeginBody, At
  <1>2. Top \in FrameRec /\ Len(open) \in 1..Len(open)  BY <1>1, Where
  <1>3. open' = [open EXCEPT ![Len(open)] = f]  BY DEF BeginBody, Top
  <1>4. f.last_landingpad = Top.last_landingpad /\ f.type_tests = Top.type_tests
    BY <1>2 DEF FrameRec
  <1> HIDE DEF f
  <1>5. DOMAIN Top.type_tests = {}
    <2>1. ClauseAt(Len(open))  BY <1>2 DEF Flow, ClauseInv
    <2> QED  BY <1>1, <2>1 DEF ClauseAt, InBody, Top
  <1>6. NoNewTests /\ RootInv'  BY <1>1, <1>3, <1>4, <1>5, TestsTop DEF LoopInv
  <1>7. Linked(blocks, {}, {}, {})  BY LinkedStart DEF LoopInv
  <1>8. Linked(s, {}, {}, {})  BY <1>7, LinkedInstr
  <1> HIDE DEF s
  <1>9. Linked(blocks', {}, {}, {})  BY <1>8, LinkedInstr DEF BeginBody, s
  <1> QED  BY <1>6, <1>9, LoopQuiet

LEMMA RescueTypeLoop == ASSUME Inv, Inv', Flow, LoopInv, RescueType PROVE LoopInv'
  <1> DEFINE f == [Top EXCEPT !.hole = "type"]
  <1>1. status = "unit" /\ Top.kind = "begin" /\ Top.hole \in {"clauses", "tested"}
    BY DEF RescueType, At
  <1>2. Top \in FrameRec  BY <1>1, Where
  <1>3. open' = [open EXCEPT ![Len(open)] = f]  BY DEF RescueType, InHole, Top
  <1>4. f.last_landingpad = Top.last_landingpad /\ f.type_tests = Top.type_tests
    BY <1>2 DEF FrameRec
  <1>5. Testing(Top)  BY <1>1 DEF Testing, Handling
  <1> HIDE DEF f
  <1>6. NoNewTests /\ RootInv'  BY <1>1, <1>3, <1>4, <1>5, TestsTop DEF LoopInv
  <1>7. Linked(blocks', {}, {}, {})  BY LinkedStart DEF LoopInv, RescueType
  <1> QED  BY <1>6, <1>7, LoopQuiet

LEMMA RescueClauseEndLoop == ASSUME Inv, Inv', Flow, LoopInv, RescueClauseEnd PROVE LoopInv'
  <1> DEFINE none == [b \in {} |-> NoBlock]
             f == [Top EXCEPT !.hole = "clauses", !.type_tests = none]
  <1>1. status = "unit" /\ Top.kind = "begin" /\ Top.hole = "clause"  BY DEF RescueClauseEnd, At
  <1>2. Top \in FrameRec  BY <1>1, Where
  <1>3. open' = [open EXCEPT ![Len(open)] = f]  BY DEF RescueClauseEnd, Top
  <1>4. DOMAIN none = {}  OBVIOUS
  <1> HIDE DEF none
  <1>5. f.last_landingpad = Top.last_landingpad /\ f.type_tests = none
    BY <1>2 DEF FrameRec
  <1> HIDE DEF f
  <1>6. NoNewTests /\ RootInv'  BY <1>1, <1>3, <1>4, <1>5, TestsTop DEF LoopInv
  <1>7. Linked(blocks, {}, {}, {})  BY LinkedStart DEF LoopInv
  <1>8. Linked(blocks', {}, {}, {})  BY <1>7, LinkedInstr DEF RescueClauseEnd
  <1> QED  BY <1>6, <1>8, LoopQuiet

\* A test is put into the current block, and goes on in a new one.
LEMMA TypeTestLoop == ASSUME Inv, Inv', Flow, LoopInv, TypeTest PROVE LoopInv'
  <1> DEFINE old == Top.type_tests
             new == [b \in DOMAIN old \cup {Cur} |-> IF b = Cur THEN Fresh ELSE old[b]]
             f == [Top EXCEPT !.hole = "tested", !.type_tests = new]
             s == Instr(blocks, Cur)
             C == {Cur}
             R == {Fresh}
  <1>1. status = "unit" /\ Top.kind = "begin" /\ Top.hole = "type"  BY DEF TypeTest, At
  <1>2. /\ Top \in FrameRec /\ Len(open) \in 1..Len(open) /\ Cur \in Blocks /\ Method.fn \in Fns
        /\ Len(blocks) \in Nat
    BY <1>1, Where
  <1>3. open' = [open EXCEPT ![Len(open)] = f]  BY DEF TypeTest, Top
  <1>4. DOMAIN new = DOMAIN old \cup {Cur}
        /\ \A x \in DOMAIN new : new[x] = IF x = Cur THEN Fresh ELSE old[x]
    OBVIOUS
  <1> HIDE DEF new
  <1>5. f.last_landingpad = Top.last_landingpad /\ f.type_tests = new
    BY <1>2 DEF FrameRec
  <1>6. Testing(Top)  BY <1>1 DEF Testing, Handling
  <1> HIDE DEF f
  <1>7. /\ Len(open') = Len(open) /\ open'[Len(open)] = f
        /\ \A k \in 1..Len(open) : k # Len(open) => open'[k] = open[k]
        /\ RootInv'
    BY <1>1, <1>3, <1>5, TopAfter DEF LoopInv
  <1>8. ASSUME NEW b \in Nat, NEW c \in Nat, TestTo(open', b, c)
        PROVE  TestTo(open, b, c) \/ (b \in C /\ c \in R)
    <2>1. PICK k \in 1..Len(open) : /\ Testing(open'[k]) /\ b \in DOMAIN open'[k].type_tests
                                    /\ c = open'[k].type_tests[b]
      BY <1>7, <1>8 DEF TestTo
    <2>2. CASE k # Len(open)  BY <1>7, <2>1, <2>2 DEF TestTo
    <2>3. CASE k = Len(open)
      <3>1. b \in DOMAIN new /\ c = new[b]  BY <1>5, <1>7, <2>1, <2>3
      <3>2. CASE b = Cur  BY <1>4, <3>1, <3>2
      <3>3. CASE b # Cur
        <4>1. b \in DOMAIN old /\ c = old[b]  BY <1>4, <3>1, <3>3
        <4> QED  BY <1>2, <1>6, <4>1 DEF TestTo, Top
      <3> QED  BY <3>2, <3>3
    <2> QED  BY <2>2, <2>3
  <1>9. Linked(blocks, C, R, R)  BY LinkedStart DEF LoopInv
  <1>10. Linked(s, C, R, R) /\ Len(s) = Len(blocks)  BY <1>9, LinkedInstr
  <1>11. blocks' = AppendBlocks(s, 1)  BY DEF TypeTest
  <1> HIDE DEF s
  <1>12. Linked(blocks', C, R, R) /\ Len(blocks') = Len(blocks) + 1
    <2>1. 1 \in Nat  OBVIOUS
    <2> QED  BY <1>2, <1>10, <1>11, <2>1, LinkedAppend
  <1>13. Fresh = Len(blocks) + 1 /\ Fresh \notin Blocks  BY <1>2 DEF Fresh, Blocks
  <1>14. Sink(Fresh)  BY <1>1, <1>13, NewSink
  <1>15. \A c \in R : c \in 2..Len(blocks')  BY <1>2, <1>12, <1>13 DEF Blocks
  <1>16. \A r \in R : r \notin C /\ Sink(r)  BY <1>2, <1>13, <1>14
  <1> HIDE DEF C, R
  <1>17. SinkInv' /\ EdgeInv' /\ RankInv'  BY <1>8, <1>12, <1>15, <1>16, RankStep DEF LoopInv
  <1> QED  BY <1>7, <1>17 DEF LoopInv

-----------------------------------------------------------------------------
(* Steps that close the current block: it branches to blocks that are open. *)

LEMMA LoopTerm ==
  ASSUME Inv, Inv', Flow, LoopInv, status = "unit", NEW R, Linked(blocks', {Cur}, R, R),
         \A r \in R : r # Cur /\ Sink(r) /\ r \in 2..Len(blocks'), NoNewTests, RootInv'
  PROVE  LoopInv'
  <1> DEFINE C == {Cur}
  <1>1. \A r \in R : r \notin C /\ Sink(r)  OBVIOUS
  <1>2. Linked(blocks', C, R, R)  OBVIOUS
  <1>3. \A b, c \in Nat : TestTo(open', b, c) => TestTo(open, b, c) \/ (b \in C /\ c \in R)
    BY DEF NoNewTests
  <1> HIDE DEF C
  <1>4. SinkInv' /\ EdgeInv' /\ RankInv'  BY <1>1, <1>2, <1>3, RankStep DEF LoopInv
  <1> QED  BY <1>4 DEF LoopInv

LEMMA InvokeLoop ==
  ASSUME NEW need \in BOOLEAN, Inv, Inv', Flow, LoopInv, Invoke(need)
  PROVE  LoopInv'
  <1> DEFINE C == {Cur}
             R == {Fresh, landingpad}
             s == IF need THEN Alloca(blocks) ELSE blocks
             t == Instr(s, Cur)
             u == Term(t, Cur, R)
  <1>1. status = "unit" /\ landingpad # NoBlock  BY DEF Invoke, AtExpression
  <1>2. Cur \in Blocks /\ Method.fn \in Fns /\ Len(blocks) \in Nat  BY <1>1, Where
  <1>3. Fresh = Len(blocks) + 1 /\ Fresh \notin Blocks  BY <1>2 DEF Fresh, Blocks
  <1>4. landingpad # Cur /\ Sink(landingpad) /\ landingpad \in 2..Len(blocks)
    <2>1. PICK i \in 1..Len(open) : InBody(open[i]) /\ open[i].base = landingpad
      BY <1>1, PadWaits DEF LoopInv
    <2>2. Owned(open[i], landingpad)  BY <1>1, <2>1 DEF Owned, InBody
    <2>3. Pend(i, landingpad) /\ ~Testing(open[i])
      BY <1>1, <2>1 DEF Pend, Waits, InBody, Testing, Handling
    <2> QED  BY <1>1, <2>2, <2>3, WaitSink, OwnedRange
  <1>5. Fresh # Cur /\ Sink(Fresh)  BY <1>1, <1>2, <1>3, NewSink
  <1>6. R \in SUBSET Nat  BY <1>2, <1>3, <1>4
  <1>7. Linked(blocks, C, R, R)  BY LinkedStart DEF LoopInv
  <1>8. Linked(s, C, R, R)  BY <1>7, LinkedSlot
  <1>9. blocks' = AppendBlocks(u, 1)  BY DEF Invoke, PassArgs
  <1> HIDE DEF s
  <1>10. Linked(t, C, R, R)  BY <1>8, LinkedInstr
  <1>l. Len(t) = Len(blocks)
    <2>1. Len(s) = Len(blocks)  BY <1>7, LinkedSlot DEF s
    <2> QED  BY <1>8, <2>1, LinkedInstr
  <1> HIDE DEF t
  <1>11. Linked(u, C, R, R) /\ Len(u) = Len(blocks)
    <2>1. \A c \in R : c \in R /\ Cur \in C  OBVIOUS
    <2> HIDE DEF R, C
    <2> QED  BY <1>6, <1>10, <1>l, <2>1, LinkedTerm
  <1> HIDE DEF u
  <1>12. Linked(blocks', C, R, R) /\ Len(blocks') = Len(blocks) + 1
    <2>1. 1 \in Nat  OBVIOUS
    <2> QED  BY <1>2, <1>9, <1>11, <2>1, LinkedAppend
  <1>13. \A r \in R : r # Cur /\ Sink(r) /\ r \in 2..Len(blocks')
    <2>1. Fresh \in 2..Len(blocks') /\ landingpad \in 2..Len(blocks')
      BY <1>2, <1>3, <1>4, <1>12 DEF Blocks
    <2> QED  BY <1>4, <1>5, <2>1
  <1>14. NoNewTests /\ RootInv'  BY TestsSame DEF Invoke, LoopInv
  <1> HIDE DEF R
  <1> QED  BY <1>1, <1>12, <1>13, <1>14, LoopTerm

LEMMA OpenTestLoop ==
  ASSUME NEW kind, NEW n \in Nat, kind \in {"if", "while"}, n >= 1,
         Inv, Inv', Flow, LoopInv, OpenTest(kind, n)
  PROVE  LoopInv'
  <1> DEFINE C == {Cur}
             R == {Fresh}
             t == Alloca(blocks)
             u == Term(t, Cur, R)
             f == Frame(kind, "cond", Fresh)
  <1>1. status = "unit" /\ open' = Append(open, f)  BY DEF OpenTest, AtStatement, Opened
  <1>2. f.kind = kind  BY DEF Frame
  <1> HIDE DEF f
  <1>3. ~Testing(f)  BY <1>2 DEF Testing, Handling
  <1>4. NoNewTests /\ RootInv'  BY <1>1, <1>3, TestsOpened DEF LoopInv
  <1>5. Cur \in Blocks /\ Method.fn \in Fns /\ Len(blocks) \in Nat  BY <1>1, Where
  <1>6. Fresh = Len(blocks) + 1 /\ Fresh \notin Blocks  BY <1>5 DEF Fresh, Blocks
  <1>7. Fresh # Cur /\ Sink(Fresh)  BY <1>1, <1>5, <1>6, NewSink
  <1>8. R \in SUBSET Nat  BY <1>5, <1>6
  <1>9. Linked(blocks, C, R, R)  BY LinkedStart DEF LoopInv
  <1>10. Linked(t, C, R, R) /\ Len(t) = Len(blocks)  BY <1>9, LinkedInstr DEF Alloca
  <1>11. blocks' = AppendBlocks(u, n)  BY DEF OpenTest
  <1> HIDE DEF t
  <1>12. Linked(u, C, R, R) /\ Len(u) = Len(blocks)
    <2>1. \A c \in R : c \in R /\ Cur \in C  OBVIOUS
    <2> HIDE DEF R, C
    <2> QED  BY <1>8, <1>10, <2>1, LinkedTerm
  <1> HIDE DEF u
  <1>13. Linked(blocks', C, R, R) /\ Len(blocks') = Len(blocks) + n
    BY <1>5, <1>11, <1>12, LinkedAppend
  <1>14. \A r \in R : r # Cur /\ Sink(r) /\ r \in 2..Len(blocks')
    <2>1. Fresh \in 2..Len(blocks')  BY <1>5, <1>6, <1>13 DEF Blocks
    <2> QED  BY <1>7, <2>1
  <1> HIDE DEF R
  <1> QED  BY <1>1, <1>4, <1>13, <1>14, LoopTerm

\* The current block branches to blocks that wait for the statement, and the next
\* part of the statement begins, or its end is reached.
LEMMA PartLoop ==
  ASSUME Inv, Inv', Flow, LoopInv, status = "unit", ~Testing(Top), NEW to,
         \A x \in to : Waits(Top, x) /\ Owned(Top, x), NEW b,
         \/ blocks' = Term(Instr(blocks, Cur), Cur, to)
         \/ blocks' = Instr(Term(Instr(blocks, Cur), Cur, to), b),
         NoNewTests, RootInv'
  PROVE  LoopInv'
  <1> DEFINE C == {Cur}
             s == Instr(blocks, Cur)
             t == Term(s, Cur, to)
  <1>1. Len(open) \in 1..Len(open) /\ Top = open[Len(open)] /\ Len(blocks) \in Nat
    BY Where DEF Top
  <1>2. \A x \in to : x # Cur /\ Sink(x) /\ x \in 2..Len(blocks)
    <2> SUFFICES ASSUME NEW x \in to PROVE x # Cur /\ Sink(x) /\ x \in 2..Len(blocks)
      OBVIOUS
    <2>1. Pend(Len(open), x)  BY <1>1 DEF Pend
    <2> QED  BY <1>1, <2>1, WaitSink, OwnedRange
  <1>3. to \in SUBSET Nat  BY <1>2
  <1>4. Linked(blocks, C, to, to)  BY LinkedStart DEF LoopInv
  <1>5. Linked(s, C, to, to) /\ Len(s) = Len(blocks)  BY <1>4, LinkedInstr
  <1> HIDE DEF s
  <1>6. Linked(t, C, to, to) /\ Len(t) = Len(blocks)
    <2>1. \A c \in to : c \in to /\ Cur \in C  OBVIOUS
    <2> HIDE DEF C
    <2> QED  BY <1>3, <1>5, <2>1, LinkedTerm
  <1> HIDE DEF t
  <1>7. Linked(Instr(t, b), C, to, to) /\ Len(Instr(t, b)) = Len(blocks)
    BY <1>6, LinkedInstr
  <1>8. Linked(blocks', C, to, to) /\ Len(blocks') = Len(blocks)
    BY <1>6, <1>7 DEF t, s
  <1>9. \A r \in to : r # Cur /\ Sink(r) /\ r \in 2..Len(blocks')  BY <1>2, <1>8
  <1> QED  BY <1>8, <1>9, LoopTerm

LEMMA NextPartLoop ==
  ASSUME Inv, Inv', Flow, LoopInv, NEW kind \in {"if", "while"}, NEW hole,
         NEW nextHole \in Holes
  PROVE  \A to : \A b : NextPart(kind, hole, to, b, nextHole)
                        /\ (\A x \in to : Waits(Top, x) /\ Owned(Top, x)) => LoopInv'
  <1> SUFFICES ASSUME NEW to, NEW b, NextPart(kind, hole, to, b, nextHole),
                      \A x \in to : Waits(Top, x) /\ Owned(Top, x)
               PROVE  LoopInv'
    OBVIOUS
  <1> DEFINE f == [Top EXCEPT !.hole = nextHole]
  <1>1. status = "unit" /\ Top.kind = kind  BY DEF NextPart, At
  <1>2. /\ f.kind = kind /\ open' = [open EXCEPT ![Len(open)] = f]
        /\ f.last_landingpad = Top.last_landingpad
    BY <1>1, InHoleType DEF Inv, NextPart
  <1> HIDE DEF f
  <1>3. ~Testing(f) /\ ~Testing(Top)  BY <1>1, <1>2 DEF Testing, Handling
  <1>4. NoNewTests /\ RootInv'  BY <1>1, <1>2, <1>3, TestsTop DEF LoopInv
  <1>5. blocks' = Term(Instr(blocks, Cur), Cur, to)  BY DEF NextPart
  <1> QED  BY <1>1, <1>3, <1>4, <1>5, PartLoop

LEMMA IfCondLoop == ASSUME Inv, Inv', Flow, LoopInv, IfCond PROVE LoopInv'
  <1>1. NextPart("if", "cond", IfTargets, BkThen, "then")  BY DEF IfCond
  <1>2. status = "unit" /\ Top.kind = "if" /\ Top.hole = "cond"  BY <1>1 DEF NextPart, At
  <1>3. Top.base \in Nat  BY <1>2, Where DEF FrameRec
  <1>4. \A x \in IfTargets : x = Top.base + 1 \/ x = Top.base + 2
    BY DEF IfTargets, BkThen, BkElse
  <1>5. \A x \in IfTargets : Waits(Top, x) /\ Owned(Top, x)
    BY <1>2, <1>3, <1>4 DEF Waits, Owned
  <1>6. "if" \in {"if", "while"} /\ "then" \in Holes  BY DEF Holes
  <1> QED  BY <1>1, <1>5, <1>6, NextPartLoop

LEMMA IfThenLoop == ASSUME Inv, Inv', Flow, LoopInv, IfThen PROVE LoopInv'
  <1>1. NextPart("if", "then", {BkContinue}, BkElse, "else")  BY DEF IfThen
  <1>2. status = "unit" /\ Top.kind = "if" /\ Top.hole = "then"  BY <1>1 DEF NextPart, At
  <1>3. Top.base \in Nat  BY <1>2, Where DEF FrameRec
  <1>4. \A x \in {BkContinue} : Waits(Top, x) /\ Owned(Top, x)
    BY <1>2, <1>3 DEF Waits, Owned, BkContinue
  <1>5. "if" \in {"if", "while"} /\ "else" \in Holes  BY DEF Holes
  <1> QED  BY <1>1, <1>4, <1>5, NextPartLoop

LEMMA WhileCondLoop == ASSUME Inv, Inv', Flow, LoopInv, WhileCond PROVE LoopInv'
  <1>1. NextPart("while", "cond", {BkAfter, BkBody}, BkBody, "body")  BY DEF WhileCond
  <1>2. status = "unit" /\ Top.kind = "while" /\ Top.hole = "cond"  BY <1>1 DEF NextPart, At
  <1>3. Top.base \in Nat  BY <1>2, Where DEF FrameRec
  <1>4. \A x \in {BkAfter, BkBody} : Waits(Top, x) /\ Owned(Top, x)
    BY <1>2, <1>3 DEF Waits, Owned, BkAfter, BkBody
  <1>5. "while" \in {"if", "while"} /\ "body" \in Holes  BY DEF Holes
  <1> QED  BY <1>1, <1>4, <1>5, NextPartLoop

LEMMA IfElseLoop == ASSUME Inv, Inv', Flow, LoopInv, IfElse PROVE LoopInv'
  <1>1. status = "unit" /\ Top.kind = "if" /\ Top.hole = "else" /\ open' = Closed
    BY DEF IfElse, At
  <1>2. Top.base \in Nat /\ ~Testing(Top) /\ Top.kind # "unit"
    BY <1>1, Where DEF FrameRec, Testing, Handling
  <1>3. \A x \in {BkContinue} : Waits(Top, x) /\ Owned(Top, x)
    BY <1>1, <1>2 DEF Waits, Owned, BkContinue
  <1>4. NoNewTests /\ RootInv'  BY <1>1, <1>2, TestsClosed DEF LoopInv
  <1>5. blocks' = Instr(Term(Instr(blocks, Cur), Cur, {BkContinue}), BkContinue)  BY DEF IfElse
  <1> QED  BY <1>1, <1>2, <1>3, <1>4, <1>5, PartLoop

\* The only branch back comes from a block that polls.
LEMMA WhileBodyLoop == ASSUME Inv, Inv', Flow, LoopInv, WhileBody PROVE LoopInv'
  <1> DEFINE T == {Top.base}
             s == Instr(blocks, Cur)
             p == [s EXCEPT ![Cur].polls = TRUE]
             t == Term(p, Cur, T)
  <1>1. status = "unit" /\ Top.kind = "while" /\ open' = Closed  BY DEF WhileBody, At
  <1>2. /\ Top.base \in Nat /\ Top.kind # "unit" /\ Cur \in Blocks /\ Len(blocks) \in Nat
        /\ Len(open) \in 1..Len(open) /\ Top = open[Len(open)]
    BY <1>1, Where DEF FrameRec, Top
  <1>3. Owned(Top, Top.base)  BY <1>1, <1>2 DEF Owned
  <1>4. Top.base \in 2..Len(blocks)  BY <1>1, <1>2, <1>3, OwnedRange
  <1>5. NoNewTests /\ RootInv'  BY <1>1, <1>2, TestsClosed DEF LoopInv
  <1>6. T \in SUBSET Nat /\ \A c \in T : c \in 2..Len(blocks)  BY <1>4
  <1>7. blocks' = Instr(t, BkAfter)  BY DEF WhileBody, PollBlock
  <1>8. Linked(blocks, {}, {}, T)  BY LinkedStart DEF LoopInv
  <1>9. Linked(s, {}, {}, T) /\ Len(s) = Len(blocks)  BY <1>8, LinkedInstr
  <1> HIDE DEF s
  <1>10. Linked(p, {}, {}, T) /\ Len(p) = Len(blocks) /\ p[Cur].polls
    <2>1. Cur \in 1..Len(s)  BY <1>2, <1>9 DEF Blocks
    <2> QED  BY <1>9, <2>1, LinkedPoll
  <1> HIDE DEF p
  <1>11. Linked(t, {}, {}, T) /\ Len(t) = Len(blocks)
    <2> HIDE DEF T
    <2> QED  BY <1>6, <1>10, LinkedTerm
  <1> HIDE DEF t
  <1>12. Linked(blocks', {}, {}, T) /\ Len(blocks') = Len(blocks)  BY <1>7, <1>11, LinkedInstr
  <1>13. /\ \A c \in T : c \in 2..Len(blocks')
         /\ \A r \in {} : r \notin {} /\ Sink(r)
    BY <1>6, <1>12
  <1>14. \A b, c \in Nat : TestTo(open', b, c) => TestTo(open, b, c) \/ (b \in {} /\ c \in {})
    BY <1>5 DEF NoNewTests
  <1> HIDE DEF T
  <1>15. SinkInv' /\ EdgeInv' /\ RankInv'  BY <1>12, <1>13, <1>14, RankStep DEF LoopInv
  <1> QED  BY <1>5, <1>15 DEF LoopInv

LEMMA CloseDefLoop == ASSUME Inv, Inv', Flow, LoopInv, CloseDef PROVE LoopInv'
  <1> DEFINE none == {}
             t == Term(blocks, Cur, none)
  <1>1. status = "unit" /\ Top.kind # "unit" /\ open' = Closed  BY DEF CloseDef, At
  <1>2. NoNewTests /\ RootInv'  BY <1>1, TestsClosed DEF LoopInv
  <1>3. Linked(blocks, {}, {}, {})  BY LinkedStart DEF LoopInv
  <1>4. none \in SUBSET Nat /\ \A c \in none : FALSE  OBVIOUS
  <1>5. blocks' = Instr(t, builder[Len(builder) - 1])  BY DEF CloseDef
  <1> HIDE DEF none
  <1>6. Linked(t, {}, {}, {})  BY <1>3, <1>4, LinkedTerm
  <1> HIDE DEF t
  <1>7. Linked(blocks', {}, {}, {})  BY <1>5, <1>6, LinkedInstr
  <1> QED  BY <1>2, <1>7, LoopQuiet

-----------------------------------------------------------------------------
(* Steps that close several blocks.                                        *)

LEMMA RescueClauseLoop ==
  ASSUME NEW xs, Inv, Inv', Flow, LoopInv, RescueClause(xs)
  PROVE  LoopInv'
  <1> DEFINE tests == Top.type_tests
             C == DOMAIN tests
             R == {Fresh}
             T == {Fresh} \cup {tests[b] : b \in C}
             to == [b \in C |-> {Fresh, tests[b]}]
             t == TermAll(blocks, to)
             u == AppendBlocks(t, 1)
             f == [Top EXCEPT !.hole = "clause", !.next_rescue_block = Cur, !.bkrescue = Fresh,
                              !.rescue_impls = @ \cup {Fresh}]
  <1>1. status = "unit" /\ Top.kind = "begin" /\ Top.hole = "tested"  BY DEF RescueClause, At
  <1>2. /\ Top \in FrameRec /\ Len(open) \in 1..Len(open) /\ Top = open[Len(open)]
        /\ Method.fn \in Fns /\ Len(blocks) \in Nat
    BY <1>1, Where DEF Top
  <1>3. open' = [open EXCEPT ![Len(open)] = f]  BY DEF RescueClause, Top
  <1>4. f.hole = "clause" /\ f.last_landingpad = Top.last_landingpad  BY <1>2 DEF FrameRec
  <1> HIDE DEF f
  <1>5. ~Testing(f) /\ Testing(Top)  BY <1>1, <1>4 DEF Testing, Handling
  <1>6. NoNewTests /\ RootInv'  BY <1>1, <1>3, <1>4, <1>5, TestsTop DEF LoopInv
  <1>7. Fresh = Len(blocks) + 1 /\ Fresh \notin Blocks  BY <1>2 DEF Fresh, Blocks
  <1>8. Sink(Fresh)  BY <1>1, <1>7, NewSink
  <1>9. ASSUME NEW b \in C
        PROVE  TestTo(open, b, tests[b]) /\ tests[b] \in 2..Len(blocks) /\ b \in Blocks
    <2>1. TestTo(open, b, tests[b])  BY <1>2, <1>5 DEF TestTo
    <2>2. Owned(Top, b) /\ Owned(Top, tests[b])  BY <1>1 DEF Owned
    <2> QED  BY <1>1, <1>2, <2>1, <2>2, OwnedRange
  <1>10. /\ DOMAIN to = C
         /\ \A b \in C : to[b] = {Fresh, tests[b]}
    OBVIOUS
  <1>11. \A b \in DOMAIN to : to[b] \in SUBSET Nat  BY <1>2, <1>7, <1>9, <1>10
  <1>12. \A b \in DOMAIN to : \A c \in to[b] :
           c \in T /\ (TestTo(open, b, c) \/ (b \in C /\ c \in R))
    BY <1>9, <1>10
  <1>13. \A c \in T : c \in 2..Len(blocks) + 1
    <2>1. Cur \in 1..Len(blocks)  BY <1>1, Where DEF Blocks
    <2>2. Fresh \in 2..Len(blocks) + 1  BY <1>2, <1>7, <2>1
    <2>3. \A b \in C : tests[b] \in 2..Len(blocks) + 1  BY <1>2, <1>9
    <2> QED  BY <2>2, <2>3
  <1>14. \A r \in R : r \notin C /\ Sink(r)  BY <1>7, <1>8, <1>9
  <1>15. blocks' = IF NeedsSlot(xs) THEN Alloca(u) ELSE u  BY DEF RescueClause, CreateLocal
  <1> HIDE DEF to, C, R, T
  <1>16. Linked(blocks, C, R, T)  BY LinkedStart DEF LoopInv
  <1>17. Linked(t, C, R, T) /\ Len(t) = Len(blocks)  BY <1>11, <1>12, <1>16, LinkedTermAll
  <1> HIDE DEF t
  <1>18. Linked(u, C, R, T) /\ Len(u) = Len(blocks) + 1
    <2>1. 1 \in Nat  OBVIOUS
    <2> QED  BY <1>2, <1>17, <2>1, LinkedAppend
  <1> HIDE DEF u
  <1>19. Linked(blocks', C, R, T) /\ Len(blocks') = Len(blocks) + 1
    BY <1>15, <1>18, LinkedSlot
  <1>20. \A c \in T : c \in 2..Len(blocks')  BY <1>13, <1>19
  <1>21. \A b, c \in Nat : TestTo(open', b, c) => TestTo(open, b, c) \/ (b \in C /\ c \in R)
    BY <1>6 DEF NoNewTests
  <1>22. SinkInv' /\ EdgeInv' /\ RankInv'
    BY <1>14, <1>19, <1>20, <1>21, RankStep DEF LoopInv
  <1> QED  BY <1>6, <1>22 DEF LoopInv

LEMMA BeginEndLoop == ASSUME Inv, Inv', Flow, LoopInv, BeginEnd PROVE LoopInv'
  <1> DEFINE C == BranchOut
             R == {Fresh}
             none == {}
             to == [b \in C |-> {Fresh}]
             s == Instr(blocks, Cur)
             t == Term(s, Cur, none)
             u == AppendBlocks(t, 1)
             v == TermAll(u, to)
  <1>1. /\ status = "unit" /\ Top.kind = "begin" /\ Top.hole = "clauses" /\ open' = Closed
        /\ Top.kind # "unit"
    BY DEF BeginEnd, At
  <1>2. /\ Len(open) \in 1..Len(open) /\ Top = open[Len(open)] /\ Len(open) >= 2
        /\ Method.fn \in Fns /\ Len(blocks) \in Nat
    BY <1>1, Where DEF Top
  <1>3. NoNewTests /\ RootInv'  BY <1>1, TestsClosed DEF LoopInv
  <1>4. Fresh = Len(blocks) + 1 /\ Fresh \notin Blocks  BY <1>2 DEF Fresh, Blocks
  <1>5. Sink(Fresh)  BY <1>1, <1>4, NewSink
  <1>6. \A b \in C : b \in Blocks
    <2>1. \A b \in Top.rescue_impls : b \in Blocks
      <3>1. \A b \in Top.rescue_impls : Owned(Top, b)  BY <1>1 DEF Owned
      <3> QED  BY <1>1, <1>2, <3>1, OwnedRange
    <2>2. Top.begin_block \in Blocks
      <3>1. ClauseAt(Len(open))  BY <1>2 DEF Flow, ClauseInv
      <3>2. Top.begin_block = CodeAt(Len(open) - 1)  BY <1>1, <1>2, <3>1 DEF ClauseAt, Handling
      <3>3. Len(open) - 1 \in 1..Len(open)  BY <1>2
      <3> QED  BY <3>2, <3>3 DEF Flow, OwnInv, OwnAt
    <2> QED  BY <2>1, <2>2 DEF BranchOut
  <1>7. none \in SUBSET Nat /\ \A c \in none : FALSE  OBVIOUS
  <1>8. DOMAIN to = C /\ \A b \in C : to[b] = {Fresh}  OBVIOUS
  <1>9. blocks' = Instr(v, Fresh)  BY DEF BeginEnd
  <1>10. \A r \in R : r \notin C /\ Sink(r)  BY <1>4, <1>5, <1>6
  <1>11. \A c \in R : c = Fresh  OBVIOUS
  <1>12. \A b \in DOMAIN to : to[b] \in SUBSET Nat /\ \A c \in to[b] : c \in R /\ b \in C
    BY <1>2, <1>4, <1>8
  <1> HIDE DEF to, C, R, none
  <1>13. Linked(blocks, C, R, R)  BY LinkedStart DEF LoopInv
  <1>14. Linked(s, C, R, R) /\ Len(s) = Len(blocks)  BY <1>13, LinkedInstr
  <1> HIDE DEF s
  <1>15. Linked(t, C, R, R) /\ Len(t) = Len(blocks)  BY <1>7, <1>14, LinkedTerm
  <1> HIDE DEF t
  <1>16. Linked(u, C, R, R) /\ Len(u) = Len(blocks) + 1
    <2>1. 1 \in Nat  OBVIOUS
    <2> QED  BY <1>2, <1>15, <2>1, LinkedAppend
  <1> HIDE DEF u
  <1>17. Linked(v, C, R, R) /\ Len(v) = Len(blocks) + 1  BY <1>12, <1>16, LinkedTermAll
  <1> HIDE DEF v
  <1>18. Linked(blocks', C, R, R) /\ Len(blocks') = Len(blocks) + 1  BY <1>9, <1>17, LinkedInstr
  <1>19. \A c \in R : c \in 2..Len(blocks')
    <2>1. Len(blocks) >= 1  BY <1>1, Where DEF Blocks
    <2> QED  BY <1>2, <1>4, <1>11, <1>18, <2>1
  <1>20. \A b, c \in Nat : TestTo(open', b, c) => TestTo(open, b, c) \/ (b \in C /\ c \in R)
    BY <1>3 DEF NoNewTests
  <1>21. SinkInv' /\ EdgeInv' /\ RankInv'
    BY <1>10, <1>18, <1>19, <1>20, RankStep DEF LoopInv
  <1> QED  BY <1>3, <1>21 DEF LoopInv

\* The entry block of pup_main comes above all others: nothing branches to it.
LEMMA CloseUnitLoop == ASSUME Inv, Inv', Flow, LoopInv, CloseUnit PROVE LoopInv'
  <1> DEFINE none == {}
             dest == {Top.base}
             s == Term(blocks, Cur, none)
  <1>1. status = "unit" /\ Top.kind = "unit"  BY DEF CloseUnit, At
  <1>2. /\ Top \in FrameRec /\ Len(open) \in 1..Len(open) /\ Top = open[Len(open)]
        /\ Len(blocks) \in Nat
    BY <1>1, Where DEF Top
  <1>3. Len(open) = 1  BY <1>1, <1>2 DEF Inv, StacksInv
  <1>4. Method = methods[1] /\ methods[1].first = 1 /\ 1 \in Blocks
    <2>1. Level(open, Len(open)) = Len(methods)  BY <1>1, IndexTop
    <2> QED  BY <1>1, <1>3, <2>1, UnitPlace DEF Method
  <1>5. Pend(1, 1)  BY <1>1, <1>2, <1>3 DEF Pend, Waits
  <1>6. ~blocks[1].closed /\ 1 # Cur  BY <1>2, <1>3, <1>5 DEF Flow, WaitInv
  <1>7. blocks[1].to = {}  BY <1>4, <1>6 DEF LoopInv, SinkInv
  <1>8. Owned(Top, Top.base)  BY <1>1 DEF Owned
  <1>9. Top.base \in 2..Len(blocks)  BY <1>1, <1>2, <1>8, OwnedRange
  <1>10. /\ blocks \in Seq(BlockRec) /\ none \in SUBSET Nat /\ dest \in SUBSET Nat
         /\ \A c : c \in dest <=> c = Top.base
    BY <1>9 DEF Inv, TypeInv
  <1>11. blocks' = Term(s, 1, dest)  BY <1>4 DEF CloseUnit
  <1>12. \A c : c \notin none  OBVIOUS
  <1> HIDE DEF none, dest
  <1>13. /\ s \in Seq(BlockRec) /\ Len(s) = Len(blocks)
         /\ \A x \in 1..Len(blocks) :
              /\ s[x].polls = blocks[x].polls
              /\ s[x].closed <=> blocks[x].closed \/ x = Cur
              /\ x = Cur => s[x].to = blocks[x].to \cup none
              /\ x # Cur => s[x] = blocks[x]
    BY <1>10, TermAt
  <1> HIDE DEF s
  <1>14. /\ Len(blocks') = Len(s)
         /\ \A x \in 1..Len(s) :
              /\ blocks'[x].polls = s[x].polls
              /\ blocks'[x].closed <=> s[x].closed \/ x = 1
              /\ x = 1 => blocks'[x].to = s[x].to \cup dest
              /\ x # 1 => blocks'[x] = s[x]
    BY <1>10, <1>11, <1>13, TermAt
  <1>15. Blocks' = Blocks /\ Len(blocks') = Len(blocks)  BY <1>13, <1>14 DEF Blocks
  <1>16. ASSUME NEW x \in Blocks
         PROVE  /\ blocks'[x].polls = blocks[x].polls
                /\ blocks'[x].closed <=> blocks[x].closed \/ x = Cur \/ x = 1
                /\ x # 1 => \A c : c \in blocks'[x].to <=> c \in blocks[x].to
                /\ x = 1 => \A c : c \in blocks'[x].to <=> c = Top.base
    <2>1. x \in 1..Len(blocks) /\ x \in 1..Len(s)  BY <1>13 DEF Blocks
    <2>2. /\ blocks'[x].polls = blocks[x].polls
          /\ blocks'[x].closed <=> blocks[x].closed \/ x = Cur \/ x = 1
      BY <1>13, <1>14, <2>1
    <2>3. \A c : c \in s[x].to <=> c \in blocks[x].to  BY <1>12, <1>13, <2>1
    <2>4. x # 1 => \A c : c \in blocks'[x].to <=> c \in blocks[x].to  BY <1>14, <2>1, <2>3
    <2>5. x = 1 => \A c : c \in blocks'[x].to <=> c = Top.base
      BY <1>7, <1>10, <1>14, <2>1, <2>3
    <2> QED  BY <2>2, <2>4, <2>5
  <1>17. SinkInv'
    <2> SUFFICES ASSUME NEW x \in Blocks', ~blocks'[x].closed, NEW c \in blocks'[x].to PROVE FALSE
      BY DEF SinkInv
    <2>1. x \in Blocks /\ ~blocks[x].closed /\ x # 1 /\ c \in blocks[x].to  BY <1>15, <1>16
    <2> QED  BY <2>1 DEF LoopInv, SinkInv
  <1>18. EdgeInv'
    <2> SUFFICES ASSUME NEW x \in Blocks', NEW c \in blocks'[x].to PROVE c \in 2..Len(blocks')
      BY DEF EdgeInv
    <2>1. x \in Blocks /\ (c \in blocks[x].to \/ c = Top.base)  BY <1>15, <1>16
    <2> QED  BY <1>9, <1>15, <2>1 DEF LoopInv, EdgeInv
  <1>19. open' = <<>>  BY DEF CloseUnit
  <1>20. Len(open') = 0  BY <1>19
  <1>21. RootInv' /\ \A b, c : ~TestTo(open', b, c)  BY <1>20 DEF RootInv, TestTo
  <1>22. PICK rk \in [Nat -> Nat] : Ranked(rk)  BY DEF LoopInv, RankInv
  <1>b. PICK base \in Nat : base = Top.base /\ base # 1
    <2>1. \A x \in 2..Len(blocks) : x \in Nat /\ x # 1  BY <1>2
    <2>2. Top.base \in Nat /\ Top.base # 1  BY <1>9, <2>1
    <2> QED  BY <2>2
  <1> DEFINE up == [rk EXCEPT ![1] = rk[base] + 1]
  <1>23. /\ up \in [Nat -> Nat] /\ up[1] = rk[base] + 1 /\ rk[base] \in Nat
         /\ \A x \in Nat : x # 1 => up[x] = rk[x]
    OBVIOUS
  <1> HIDE DEF up
  <1>24. ASSUME NEW x \in Blocks', ~blocks'[x].polls, NEW c \in blocks'[x].to PROVE up[c] < up[x]
    <2>a. x \in Blocks  BY <1>15, <1>24
    <2>b. x \in Nat  BY <2>a DEF Blocks
    <2>c. ~blocks[x].polls  BY <1>16, <1>24, <2>a
    <2>1. x \in Blocks /\ ~blocks[x].polls /\ x \in Nat  BY <2>a, <2>b, <2>c
    <2>2. CASE x = 1
      <3>1. c = base /\ c # 1 /\ c \in Nat  BY <1>16, <1>b, <2>1, <2>2
      <3>2. up[c] = rk[c] /\ up[x] = rk[c] + 1 /\ rk[c] \in Nat  BY <1>23, <2>2, <3>1
      <3> QED  BY <3>2
    <2>3. CASE x # 1
      <3>1. c \in blocks[x].to  BY <1>16, <2>1, <2>3
      <3>2. c \in 2..Len(blocks)  BY <2>1, <3>1 DEF LoopInv, EdgeInv
      <3>3. c \in Nat /\ c # 1  BY <3>2
      <3>4. rk[c] < rk[x]  BY <1>22, <2>1, <3>1 DEF Ranked
      <3> QED  BY <1>23, <2>1, <2>3, <3>3, <3>4
    <2> QED  BY <2>2, <2>3
  <1>25. Ranked(up)'  BY <1>21, <1>24 DEF Ranked
  <1> QED  BY <1>17, <1>18, <1>21, <1>23, <1>25 DEF LoopInv, RankInv

\* main() of the program branches only forward, among its own blocks.
LEMMA BuildMainLoop == ASSUME Inv, Inv', MainInv, LoopInv, BuildMain PROVE LoopInv'
  <1> DEFINE new == [i \in 1..3 |-> NewBlock(CMain)]
             s == blocks \o new
             to == [b \in {Fresh, Fresh + 1, Fresh + 2} |->
                      CASE b = Fresh -> {Fresh + 2, Fresh + 1}
                        [] b = Fresh + 1 -> {Fresh + 2}
                        [] b = Fresh + 2 -> {}]
  <1>1. status = "main" /\ Len(open) = 0  BY DEF BuildMain, MainInv
  <1>2. open' = open  BY DEF BuildMain
  <1>3. PICK n \in Nat : n = Len(blocks) /\ blocks \in Seq(BlockRec) /\ Fresh = n + 1
    BY DEF Inv, TypeInv, Fresh
  <1>4. new \in Seq(BlockRec) /\ Len(new) = 3 /\ \A i \in 1..3 : new[i] = NewBlock(CMain)
    <2>1. NewBlock(CMain) \in BlockRec  BY FnFacts, NewBlockType
    <2> QED  BY <2>1
  <1>5. blocks' = TermAll(s, to)  BY DEF BuildMain
  <1>6. /\ DOMAIN to = {n + 1, n + 2, n + 3}
        /\ \A b \in DOMAIN to : to[b] \in SUBSET Nat
        /\ \A b \in DOMAIN to : \A c \in to[b] : c > b /\ c \in {n + 2, n + 3}
    BY <1>3
  <1> HIDE DEF new, to
  <1>7. /\ s \in Seq(BlockRec) /\ Len(s) = n + 3
        /\ \A b \in 1..n : s[b] = blocks[b]
        /\ \A i \in 1..3 : s[n + i] = NewBlock(CMain)
    <2>1. blocks \in Seq(BlockRec) /\ new \in Seq(BlockRec)  BY <1>3, <1>4
    <2>2. /\ s \in Seq(BlockRec) /\ Len(s) = Len(blocks) + Len(new)
          /\ \A b \in 1..Len(blocks) : s[b] = blocks[b]
          /\ \A i \in 1..Len(new) : s[Len(blocks) + i] = new[i]
      BY <2>1
    <2> QED  BY <1>3, <1>4, <2>2
  <1> HIDE DEF s
  <1>8. /\ Len(blocks') = n + 3
        /\ \A x \in 1..n + 3 :
             /\ blocks'[x].closed <=> s[x].closed \/ x \in DOMAIN to
             /\ x \in DOMAIN to => blocks'[x].to = s[x].to \cup to[x]
             /\ x \notin DOMAIN to => blocks'[x] = s[x]
    BY <1>5, <1>6, <1>7, TermAllAt
  <1>9. Blocks = 1..n /\ Blocks' = 1..n + 3  BY <1>3, <1>8 DEF Blocks
  <1>10. ASSUME NEW x \in 1..n PROVE x \in Blocks /\ blocks'[x] = blocks[x]
    <2>1. x \in 1..n + 3 /\ x \notin DOMAIN to  BY <1>6
    <2> QED  BY <1>7, <1>8, <1>9, <2>1
  <1>11. ASSUME NEW x \in {n + 1, n + 2, n + 3}
         PROVE  /\ blocks'[x].closed
                /\ \A c \in blocks'[x].to : c > x /\ c \in {n + 2, n + 3}
    <2>1. s[x] = NewBlock(CMain)  BY <1>7
    <2>2. Empty(s[x], CMain)  BY <2>1, NewBlockEmpty
    <2>3. s[x].to = {}  BY <2>2 DEF Empty
    <2>4. x \in 1..n + 3 /\ x \in DOMAIN to  BY <1>6
    <2>5. blocks'[x].to = s[x].to \cup to[x]  BY <1>8, <2>4
    <2> QED  BY <1>6, <1>8, <2>3, <2>4, <2>5
  <1>12. \A x \in Blocks' : x \in 1..n \/ x \in {n + 1, n + 2, n + 3}  BY <1>9
  <1>13. SinkInv'
    <2> SUFFICES ASSUME NEW x \in Blocks', ~blocks'[x].closed PROVE blocks'[x].to = {}
      BY DEF SinkInv
    <2>1. x \in 1..n  BY <1>11, <1>12
    <2> QED  BY <1>10, <2>1 DEF LoopInv, SinkInv
  <1>14. ASSUME NEW x \in 1..n, NEW c \in blocks'[x].to PROVE c \in 2..n /\ c \in blocks[x].to
    <2>1. x \in Blocks /\ c \in blocks[x].to  BY <1>10, <1>14
    <2> QED  BY <1>3, <2>1 DEF LoopInv, EdgeInv
  <1>15. EdgeInv'
    <2> SUFFICES ASSUME NEW x \in Blocks', NEW c \in blocks'[x].to PROVE c \in 2..Len(blocks')
      BY DEF EdgeInv
    <2>1. c \in 2..n \/ c \in {n + 2, n + 3}  BY <1>11, <1>12, <1>14
    <2> QED  BY <1>8, <2>1
  <1>16. Len(open') = 0  BY <1>1, <1>2
  <1>17. RootInv' /\ \A b, c : ~TestTo(open', b, c)  BY <1>16 DEF RootInv, TestTo
  <1>18. PICK rk \in [Nat -> Nat] : Ranked(rk)  BY DEF LoopInv, RankInv
  <1> DEFINE up == [x \in Nat |-> IF x \in n + 1..n + 3 THEN n + 3 - x ELSE rk[x]]
  <1>19. /\ up \in [Nat -> Nat]
         /\ \A x \in Nat : up[x] = IF x \in n + 1..n + 3 THEN n + 3 - x ELSE rk[x]
    OBVIOUS
  <1> HIDE DEF up
  <1>20. ASSUME NEW x \in Blocks', ~blocks'[x].polls, NEW c \in blocks'[x].to PROVE up[c] < up[x]
    <2>1. CASE x \in 1..n
      <3>1. x \in Blocks /\ ~blocks[x].polls /\ c \in blocks[x].to /\ c \in 2..n
        BY <1>10, <1>14, <1>20, <2>1
      <3>2. rk[c] < rk[x]  BY <1>18, <3>1 DEF Ranked
      <3>3. c \in Nat /\ x \in Nat /\ c \notin n + 1..n + 3 /\ x \notin n + 1..n + 3
        BY <2>1, <3>1
      <3>4. up[c] = rk[c] /\ up[x] = rk[x]  BY <1>19, <3>3
      <3> QED  BY <3>2, <3>4
    <2>2. CASE x \in {n + 1, n + 2, n + 3}
      <3>1. c > x /\ c \in {n + 2, n + 3}  BY <1>11, <1>20, <2>2
      <3>2. c \in Nat /\ x \in Nat /\ c \in n + 1..n + 3 /\ x \in n + 1..n + 3
        BY <2>2, <3>1
      <3>3. up[c] = n + 3 - c /\ up[x] = n + 3 - x  BY <1>19, <3>2
      <3> QED  BY <3>1, <3>2, <3>3
    <2> QED  BY <1>12, <2>1, <2>2
  <1>21. Ranked(up)'  BY <1>17, <1>20 DEF Ranked
  <1> QED  BY <1>13, <1>15, <1>17, <1>19, <1>21 DEF LoopInv, RankInv

LEMMA InitLoop == ASSUME Init PROVE LoopInv
  <1>1. /\ Len(blocks) = 2 /\ blocks[1] = NewBlock(PupMain) /\ blocks[2] = NewBlock(PupMain)
    BY DEF Init
  <1>2. \A b \in Blocks : blocks[b].to = {}
    <2>1. \A b \in Blocks : b = 1 \/ b = 2  BY <1>1 DEF Blocks
    <2>2. Empty(NewBlock(PupMain), PupMain)  BY NewBlockEmpty
    <2> QED  BY <1>1, <2>1, <2>2 DEF Empty
  <1>3. Len(open) = 1 /\ open[1].kind = "unit" /\ open[1].last_landingpad = NoBlock
    BY DEF Init
  <1>4. \A k \in 1..Len(open) : k = 1  BY <1>3
  <1>5. \A b, c : ~TestTo(open, b, c)  BY <1>3, <1>4 DEF TestTo, Testing, Handling
  <1>6. SinkInv /\ EdgeInv /\ RootInv  BY <1>2, <1>3 DEF SinkInv, EdgeInv, RootInv
  <1> DEFINE rk == [x \in Nat |-> 0]
  <1>7. rk \in [Nat -> Nat]  OBVIOUS
  <1> HIDE DEF rk
  <1>8. Ranked(rk)  BY <1>2, <1>5 DEF Ranked
  <1> QED  BY <1>6, <1>7, <1>8 DEF LoopInv, RankInv

PollInv == status # "failed" => LoopInv

LEMMA BeginLoop ==
  ASSUME Inv, Inv', Flow, LoopInv, Begin, status' # "failed"
  PROVE  LoopInv'
  <1>1. ASSUME BeginBodyWithoutRescue PROVE FALSE  BY <1>1 DEF BeginBodyWithoutRescue
  <1>2. ASSUME NEW r \in BOOLEAN, OpenBegin(r) PROVE LoopInv'  BY <1>2, OpenBeginLoop
  <1>3. ASSUME NEW xs \in OneName, RescueClause(xs) PROVE LoopInv'  BY <1>3, RescueClauseLoop
  <1>4. CASE BeginBody  BY <1>4, BeginBodyLoop
  <1>5. CASE RescueType  BY <1>5, RescueTypeLoop
  <1>6. CASE TypeTest  BY <1>6, TypeTestLoop
  <1>7. CASE RescueClauseEnd  BY <1>7, RescueClauseEndLoop
  <1>8. CASE BeginEnd  BY <1>8, BeginEndLoop
  <1> QED  BY <1>1, <1>2, <1>3, <1>4, <1>5, <1>6, <1>7, <1>8 DEF Begin

LEMMA ExpressionLoop ==
  ASSUME Inv, Inv', Flow, LoopInv, Expression
  PROVE  LoopInv'
  <1>1. CASE Simple  BY <1>1, SimpleLoop
  <1>2. ASSUME NEW x \in Locals, AssignLocal(x) PROVE LoopInv'  BY <1>2, AssignLocalLoop
  <1>3. ASSUME NEW h \in BOOLEAN, Call(h) PROVE LoopInv'  BY <1>3, CallLoop
  <1>4. ASSUME NEW h \in BOOLEAN, Invoke(h) PROVE LoopInv'  BY <1>4, InvokeLoop
  <1> QED  BY <1>1, <1>2, <1>3, <1>4 DEF Expression

LEMMA TestLoop ==
  ASSUME Inv, Inv', Flow, LoopInv,
         OpenIf \/ IfCond \/ IfThen \/ IfElse \/ OpenWhile \/ WhileCond \/ WhileBody
  PROVE  LoopInv'
  <1>1. CASE OpenIf
    <2>1. OpenTest("if", 4)  BY <1>1 DEF OpenIf
    <2> QED  BY <2>1, OpenTestLoop
  <1>2. CASE OpenWhile
    <2>1. OpenTest("while", 3)  BY <1>2 DEF OpenWhile
    <2> QED  BY <2>1, OpenTestLoop
  <1>3. CASE IfCond  BY <1>3, IfCondLoop
  <1>4. CASE IfThen  BY <1>4, IfThenLoop
  <1>5. CASE WhileCond  BY <1>5, WhileCondLoop
  <1>6. CASE IfElse  BY <1>6, IfElseLoop
  <1>7. CASE WhileBody  BY <1>7, WhileBodyLoop
  <1> QED  BY <1>1, <1>2, <1>3, <1>4, <1>5, <1>6, <1>7

LEMMA LoopNext == Inv /\ Inv' /\ FlowInv /\ PollInv /\ [Next]_vars => PollInv'
  <1> SUFFICES ASSUME Inv, Inv', FlowInv, PollInv, [Next]_vars, status' # "failed"
               PROVE  LoopInv'
    BY DEF PollInv
  <1>1. CASE UNCHANGED vars
    <2>1. LoopInv  BY <1>1 DEF vars, PollInv
    <2>2. blocks' = blocks /\ open' = open /\ Blocks' = Blocks  BY <1>1 DEF vars, Blocks
    <2>3. SinkInv' /\ EdgeInv' /\ RootInv'
      BY <2>1, <2>2 DEF LoopInv, SinkInv, EdgeInv, RootInv
    <2>4. PICK rk \in [Nat -> Nat] : Ranked(rk)  BY <2>1 DEF LoopInv, RankInv
    <2>5. Ranked(rk)'  BY <2>2, <2>4 DEF Ranked
    <2> QED  BY <2>3, <2>5 DEF LoopInv, RankInv
  <1>2. CASE Next
    <2>1. Flow /\ MainInv /\ LoopInv
      <3>1. status # "failed"
        BY <1>2
        DEF Next, Expression, Begin, Simple, AssignLocal, Call, Invoke, OpenBegin,
            BeginBodyWithoutRescue, BeginBody, RescueType, TypeTest, RescueClause,
            RescueClauseEnd, BeginEnd, OpenIf, OpenTest, IfCond, IfThen, NextPart,
            IfThenWithoutElse, IfElse, OpenWhile, WhileCond, WhileBody, OpenClass,
            ClassNotImplemented, CloseClass, OpenDef, CloseDef, CloseUnit, BuildMain, At,
            AtStatement, AtExpression
      <3> QED  BY <3>1 DEF FlowInv, PollInv
    <2>2. CASE Expression  BY <2>1, <2>2, ExpressionLoop
    <2>3. CASE Begin  BY <2>1, <2>3, BeginLoop
    <2>4. CASE OpenIf \/ IfCond \/ IfThen \/ IfElse \/ OpenWhile \/ WhileCond \/ WhileBody
      BY <2>1, <2>4, TestLoop
    <2>5. CASE OpenClass  BY <2>1, <2>5, OpenClassLoop
    <2>6. CASE CloseClass  BY <2>1, <2>6, CloseClassLoop
    <2>7. CASE CloseDef  BY <2>1, <2>7, CloseDefLoop
    <2>8. ASSUME NEW xs \in OneName, OpenDef(xs) PROVE LoopInv'  BY <2>1, <2>8, OpenDefLoop
    <2>9. ASSUME Raises PROVE FALSE
      BY <2>9 DEF Raises, IfThenWithoutElse, BeginBodyWithoutRescue, ClassNotImplemented
    <2>10. CASE CloseUnit  BY <2>1, <2>10, CloseUnitLoop
    <2>11. CASE BuildMain  BY <2>1, <2>11, BuildMainLoop
    <2> QED
      BY <1>2, <2>2, <2>3, <2>4, <2>5, <2>6, <2>7, <2>8, <2>9, <2>10, <2>11 DEF Next, Raises
  <1> QED  BY <1>1, <1>2

\* The lowest block of a set branches to none of the set, unless it polls.
LEMMA RankedPolls ==
  ASSUME Inv, LoopInv, NEW S \in SUBSET {b \in Blocks : ~blocks[b].polls}, S # {}
  PROVE  \E b \in S : blocks[b].to \cap S = {}
  <1>1. PICK rk \in [Nat -> Nat] : Ranked(rk)  BY DEF LoopInv, RankInv
  <1>2. \A b \in S : b \in Blocks /\ ~blocks[b].polls /\ b \in Nat  BY DEF Blocks
  <1> DEFINE heights == {rk[b] : b \in S}
  <1>3. heights \in SUBSET Nat /\ heights # {}  BY <1>2
  <1>4. PICK i \in heights : \A j \in heights : i <= j  BY <1>3, LeastNat
  <1>5. PICK b \in S : i = rk[b]  BY <1>4
  <1>6. \A c \in S : rk[b] <= rk[c]  BY <1>4, <1>5
  <1>7. ASSUME NEW c \in blocks[b].to, c \in S PROVE FALSE
    <2>1. rk[c] < rk[b]  BY <1>1, <1>2, <1>7 DEF Ranked
    <2>2. rk[b] <= rk[c] /\ rk[b] \in Nat /\ rk[c] \in Nat  BY <1>2, <1>6, <1>7
    <2> QED  BY <2>1, <2>2
  <1> QED  BY <1>7

-----------------------------------------------------------------------------
(* The theorems.                                                           *)

\* The inductive invariant holds, for every program.
THEOREM InvHolds == Spec => []Inv
  BY InvInit, InvNext, PTL DEF Spec

\* The generator's stacks never run empty while it walks the program, and its
\* builders stand in blocks that exist: with_builder_at_end is left as often as
\* it is entered, and no part of an if, while or begin is generated into a block
\* that was not appended.
THEOREM StacksSound == Spec => [](TypeInv /\ StacksInv /\ PartsInv)
  <1>1. Inv => TypeInv /\ StacksInv /\ PartsInv  BY DEF Inv
  <1> QED  BY <1>1, InvHolds, PTL

\* A call in the body of a begin statement unwinds to the landing pad of that
\* statement, however begin, def, class and control statements are nested:
\* eh_begin restores in @landingpad exactly what it replaced.
THEOREM CallsUnwind == Spec => []CallsUnwindToTheirBegin
  <1>1. Inv => CallsUnwindToTheirBegin  BY DEF Inv, CallsInv, CallsUnwindToTheirBegin
  <1> QED  BY <1>1, InvHolds, PTL

\* The statements that are open account for every block without a terminator, as
\* long as the generator has not raised.
THEOREM FlowHolds == Spec => []FlowInv
  <1>1. Init => FlowInv  BY InitFlow DEF FlowInv
  <1> QED  BY <1>1, FlowNext, InvHolds, PTL DEF Spec

\* Which programs compile to well-formed code, for every nesting of statements
\* and every number of methods, blocks and locals: a complete function has a block
\* without a terminator, an instruction after one, or a branch out of the function
\* exactly if one of the three causes has occurred while ast_codegen.rb wrote it.
THEOREM BrokenExactly == Spec => []BrokenExactlyBy
  <1>1. Inv /\ FlowInv /\ status # "failed" => BrokenExactlyBy  BY FlowBroken DEF FlowInv
  <1>2. Inv /\ Inv' /\ BrokenExactlyBy /\ [Next]_vars /\ ~(status # "failed")' => BrokenExactlyBy'
    BY FailedCode
  <1>3. Init => status # "failed"  BY DEF Init
  <1> QED  BY <1>1, <1>2, <1>3, InvHolds, FlowHolds, PTL DEF Spec

\* Branches lead down, until the generator raises.
THEOREM PollsHold == Spec => []PollInv
  <1>1. Init => PollInv  BY InitLoop DEF PollInv
  <1> QED  BY <1>1, LoopNext, InvHolds, FlowHolds, PTL DEF Spec

\* Generated code polls, for every nesting of statements and every number of
\* methods, blocks and locals: when ast_codegen.rb is done, every cycle of branches
\* in the module contains a block that calls pup_env_safepoint(), which
\* WhileStmt#codegen puts at the end of the body of each while.
THEOREM LoopsAlwaysPoll == Spec => []LoopsPoll
  <1>1. Inv /\ PollInv => LoopsPoll
    <2> SUFFICES ASSUME Inv, PollInv, status = "done",
                        NEW S \in SUBSET {b \in Blocks : ~blocks[b].polls}, S # {}
                 PROVE  \E b \in S : blocks[b].to \cap S = {}
      BY DEF LoopsPoll
    <2>1. LoopInv  BY DEF PollInv
    <2> QED  BY <2>1, RankedPolls
  <1> QED  BY <1>1, InvHolds, PollsHold, PTL
=============================================================================
