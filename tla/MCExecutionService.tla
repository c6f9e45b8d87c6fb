------------------------ MODULE MCExecutionService ------------------------
(* Instances of ExecutionService for TLC. *)
EXTENDS ExecutionService, TLC

SignalSymmetry == Permutations(Signals)
NoAmounts == {}
LossThenProfit == {-2, 2}
=============================================================================
