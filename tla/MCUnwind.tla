------------------------------ MODULE MCUnwind ------------------------------
(* Begin statements for Unwind: two clauses that leave Exception unmatched *)
(* (the first is the default of a clause without types), a clause with two *)
(* types, and one with an unknown constant that only some exceptions reach.*)
EXTENDS Unwind

ThreeBegins ==
  { << <<"RuntimeError">>, <<"StandardError">> >>,
    << <<"StandardError", "Exception">> >>,
    << <<"RuntimeError", Undefined>>, <<"Exception">> >> }
=============================================================================
