-------------------------------- MODULE GcMap --------------------------------
(***************************************************************************)
(* The table of stack roots of one compiled function: how pupgcprinter.cpp  *)
(* prints it, and how find_safepoint() of gc.c walks it for the return      *)
(* address of a frame.  Memory is a sequence of 4-byte words, word 1 at an  *)
(* address that is a multiple of 8.                                         *)
(***************************************************************************)
EXTENDS Naturals, Sequences

CONSTANTS
  MaxPoints,   \* bound: safepoints of the function
  MaxRoots,    \* bound: roots in its frame
  Offsets,     \* the offsets roots have in a frame, in bytes
  FrameSize    \* getFrameSize()

\* No count, size or offset in the table is as large as a code address.
CodeBase == 1000000

ASSUME GcMapAssumption ==
  /\ MaxPoints \in Nat
  /\ MaxRoots \in 0..CodeBase /\ FrameSize \in 0..CodeBase
  /\ \A o \in Offsets : o \in 0..CodeBase

VARIABLES
  image,       \* the words printed so far
  left,        \* safepoints still to print
  live,        \* the offsets of the function's roots: the same at every safepoint
  starts,      \* history: the word at which each safepoint begins
  ip,          \* the address looked up
  addr,        \* find_safepoint(): the word the walk is at
  i,           \* find_safepoint(): the loop counter
  lookup       \* "print", "walk", "found", "aborted" or "wild"

gcMapVars == <<image, left, live, starts, ip, addr, i, lookup>>

\* The low word of the address of the k-th label; the high word is zero.
CodeAddress(k) == CodeBase + k

\* EmitAlignment(3).
Aligned(words) == IF Len(words) % 2 = 0 THEN words ELSE words \o <<0>>

\* finishAssembly(): the number of safepoints, for some function.
GcMapInit ==
  /\ \E n \in 1..MaxPoints : image = <<n>> /\ left = n
  /\ \E n \in 0..MaxRoots : live \in [1..n -> Offsets]
  /\ starts = <<>>
  /\ ip = 0
  /\ addr = 0
  /\ i = 0
  /\ lookup = "print"

\* Negative control: the printer leaves out the stack frame size.
PointWords_NoFrameSize(k) == <<CodeAddress(k), 0, Len(live)>> \o live

\* Address, frame size, number of roots and their offsets.
PointWords(k) == <<CodeAddress(k), 0, FrameSize, Len(live)>> \o live

PrintPoint ==
  /\ lookup = "print" /\ left > 0
  /\ image' = Aligned(image) \o PointWords(Len(starts) + 1)
  /\ starts' = Append(starts, Len(Aligned(image)) + 1)
  /\ left' = left - 1
  /\ UNCHANGED <<live, ip, addr, i, lookup>>

\* A frame of the function is suspended in a call: its ip is the label after
\* that call.  points[0] is at the first multiple of 8 after point_count.
StartLookup ==
  /\ lookup = "print" /\ left = 0
  /\ \E k \in 1..Len(starts) : ip' = CodeAddress(k)
  /\ addr' = 3
  /\ lookup' = "walk"
  /\ UNCHANGED <<image, left, live, starts, i>>

\* Negative control: the walk adds no padding.
Skip_NoPadding(live_count) == 4 + live_count

\* sizeof(struct PupGCSafepoint), the offsets, and 4 bytes of "alignment hack".
Skip(live_count) == 4 + live_count + 1

\* One iteration.  The table of another function, or anything else, may follow
\* this one: what a walk that leaves it comes across is left open.
WalkStep ==
  /\ lookup = "walk" /\ i < image[1]
  /\ IF addr + 3 > Len(image)
     THEN lookup' = "wild" /\ UNCHANGED <<addr, i>>
     ELSE IF <<image[addr], image[addr + 1]>> = <<ip, 0>>
     THEN lookup' = "found" /\ UNCHANGED <<addr, i>>
     ELSE /\ addr' = addr + Skip(image[addr + 3])
          /\ i' = i + 1
          /\ UNCHANGED lookup
  /\ UNCHANGED <<image, left, live, starts, ip>>

\* ABORTF("no safepoint in %s() for ip=%p").
WalkFails ==
  /\ lookup = "walk" /\ i = image[1]
  /\ lookup' = "aborted"
  /\ UNCHANGED <<image, left, live, starts, ip, addr, i>>

GcMapNext == PrintPoint \/ StartLookup \/ WalkStep \/ WalkFails

GcMapSpec == GcMapInit /\ [][GcMapNext]_gcMapVars

-----------------------------------------------------------------------------
\* What the caller reads at the safepoint that was returned.
RootsAt(a) == SubSeq(image, a + 4, a + 3 + image[a + 3])

\* Whatever find_safepoint() returns is the safepoint of the frame's call, with
\* all of the frame's roots, inside the table: a walk that is out of step with
\* the printer never takes other words of the table for it.
FoundSafepointIsRight ==
  lookup = "found" => /\ \E k \in 1..Len(starts) : addr = starts[k] /\ ip = CodeAddress(k)
                      /\ addr + 3 + image[addr + 3] <= Len(image)
                      /\ RootsAt(addr) = live

\* The 4 bytes that the walk adds are right for a function with an odd number of
\* roots: there every call's safepoint is found.  In any function the first is.
OddRootsFound ==
  lookup \in {"aborted", "wild"} => Len(live) % 2 = 0 /\ ip # CodeAddress(1)
=============================================================================
