----------------------------- MODULE MCFetchJob -----------------------------
(* Instances of FetchJob for TLC: every job's window covers every candle. *)
EXTENDS FetchJob, TLC

SharedWindow == [j \in Jobs |-> Candles]
FetchSymmetry == Permutations(Workers) \cup Permutations(Jobs) \cup Permutations(Versions)
=============================================================================
