----------------------------- MODULE MCCollector ----------------------------
(* Instances of Collector.  No definition tells cells, regions or slots    *)
(* apart.                                                                  *)
EXTENDS Collector

Interchangeable ==
  Permutations(Cells) \cup Permutations(Regions) \cup Permutations(Slots)
=============================================================================
