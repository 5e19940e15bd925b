------------------------------ MODULE MCMarking -----------------------------
(* The instance of Marking.  No frame has the slot s2: the program holds a *)
(* reference there that no root map lists.                                 *)
EXTENDS Marking

CONSTANTS a, b, s1, s2

TwoSlots   == {s1, s2}
OneFrame   == << <<s1>> >>
AllObjects == {Class, a, b}
=============================================================================
