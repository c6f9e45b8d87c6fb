-------------------------- MODULE MCHistoryPlanner --------------------------
(* Small instances of HistoryPlanner. *)
EXTENDS HistoryPlanner
CONSTANT i1
OneRank == [i \in Identities |-> 0]
ExpiresOn5 == [i \in Identities |-> 5]
OneWindow == {<<3, 4>>}
=============================================================================
