----------------------------- MODULE RescueRules ----------------------------
(***************************************************************************)
(* The exception classes that runtime_init() creates, and which rescue     *)
(* clause an exception belongs to.  Pup programs cannot derive classes     *)
(* from the exception classes (ClassDef#find_superclass), so these are     *)
(* all there are.                                                          *)
(***************************************************************************)
EXTENDS Naturals, Sequences

CONSTANT Begins   \* the begin statements of the program

\* pup_create_class() in runtime_init(); "String" stands for all other classes.
superclass ==
  [String |-> "Object", Exception |-> "Object",
   StandardError |-> "Exception", RuntimeError |-> "StandardError"]

Class == DOMAIN superclass \cup {"Object"}

ancestors[c \in Class] ==
  {c} \cup IF c = "Object" THEN {} ELSE ancestors[superclass[c]]

pup_is_descendant_or_same(ancestor, descendant) == ancestor \in ancestors[descendant]

Exceptions == {c \in Class : pup_is_descendant_or_same("Exception", c)}

-----------------------------------------------------------------------------
(* A begin statement is the sequence of its rescue clauses, a clause the   *)
(* sequence of the constants it names.  A name that is no constant raises  *)
(* RuntimeError when it is looked up (pup_const_get_required).             *)
Undefined == "undefined constant"

BeginStmt(b) ==
  /\ b \in Seq(Seq(Class \cup {Undefined}))
  /\ b # <<>> /\ \A i \in DOMAIN b : b[i] # <<>>

ASSUME BeginsAssumption == \A b \in Begins : BeginStmt(b)

Positions(b)    == UNION {{i} \X DOMAIN b[i] : i \in DOMAIN b}
TypeAt(b, p)    == b[p[1]][p[2]]
Precedes(p, q)  == p[1] < q[1] \/ (p[1] = q[1] /\ p[2] < q[2])
Matches(b, p, c) ==
  TypeAt(b, p) # Undefined /\ pup_is_descendant_or_same(TypeAt(b, p), c)

\* Where the search through the clauses of b ends for an exception of class
\* c: at the first type that is unknown or matches, or nowhere.
Hits(b, c) == {p \in Positions(b) : TypeAt(b, p) = Undefined \/ Matches(b, p, c)}

Nowhere == <<0, 0>>

firstHit ==
  [b \in Begins |-> [c \in Exceptions |->
     IF Hits(b, c) = {} THEN Nowhere
     ELSE CHOOSE p \in Hits(b, c) : \A q \in Hits(b, c) : ~Precedes(q, p)]]

-----------------------------------------------------------------------------
(* What becomes of a stack of methods when an exception of class e comes   *)
(* out of a method called by stack[n].  stack[i].nest holds the begin      *)
(* statements whose bodies method i is in, outermost first; only the       *)
(* innermost is asked, then the caller's, and so on.                       *)
NotRescuing == [clause |-> 0, excep |-> "none"]

Catcher(stack, n, e) ==
  LET catch[k \in 0 .. n] ==
        [c \in Exceptions |->
           LET nest == stack[k].nest
               b    == nest[Len(nest)]
               hit  == firstHit[b][c]
           IN  IF k = 0 THEN [depth |-> 0, rescue |-> NotRescuing]
               ELSE IF nest = <<>> THEN catch[k - 1][c]
               ELSE IF hit = Nowhere THEN catch[k - 1][c]
               ELSE IF TypeAt(b, hit) = Undefined THEN catch[k - 1]["RuntimeError"]
               ELSE [depth |-> k, rescue |-> [clause |-> hit[1], excep |-> c]]]
  IN  catch[n][e]

\* The stack once the exception is caught; empty if nobody catches it.
Unwound(stack, n, e) ==
  LET c == Catcher(stack, n, e)
      f == stack[c.depth]
  IN  IF c.depth = 0 THEN <<>>
      ELSE Append(SubSeq(stack, 1, c.depth - 1),
                  [nest |-> SubSeq(f.nest, 1, Len(f.nest) - 1), rescue |-> c.rescue])
=============================================================================
