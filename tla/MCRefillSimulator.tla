------------------------ MODULE MCRefillSimulator -------------------------
(* TLC instances of RefillSimulator: every small case at once. *)
EXTENDS RefillSimulator

SmallCapacities == 2 .. 6
SmallBatches    == 1 .. 4
SmallTimes      == 0 .. 9
SmallIntervals  == 1 .. 3
SmallTargets    == {12}
=============================================================================
