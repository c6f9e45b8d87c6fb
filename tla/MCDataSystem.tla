----------------------------- MODULE MCDataSystem -----------------------------
(* The schedules of the data system: one family, three masters, a day without  *)
(* a session, an outage of two days.  The stages share the roots and nothing   *)
(* else: each is watched with them.  Beside it the two other users of the      *)
(* compare-and-swap on a shared document: the provider budget and the ledger   *)
(* of paper trades.  One instance of each, only one of which moves in a        *)
(* behaviour.                                                                *)
EXTENDS DataSystem, ProviderBudget, PaperLedger, TLC

CONSTANTS i1, i2, i3, byHand, past

MCCatalogues == <<{i1}, {i1, i2}, {i1, i3}>>
Hand(role, family, from, to, state) ==
  [role |-> role, family |-> family, from |-> from, to |-> to, scope |-> {i1}, cat |-> 1,
   state |-> state, user |-> FALSE, pinned |-> TRUE, started |-> TRUE]
ByHand(job) == [j \in {byHand} |-> job]
Roots == <<"backfill", "daily">>
Sweeping == [jobs |-> <<>>, core |-> Unset, attended |-> {<<"sweep", "quotes">>}]
MCStarts ==
  LET Begun(made, core, pairs) == [jobs |-> made, core |-> core, attended |-> pairs]
      Release1 == [j \in {past} |-> Hand("core", "daily", 3, 4, "completed")]
  IN {Begun(<<>>, Unset, {Roots, <<"daily", "daily">>}),
      Begun(<<>>, Unset, {Roots, <<"equity", "daily">>}),
      Begun(ByHand(Hand("manual", "daily", 1, 6, "running")), Unset, {Roots, <<"earlier", "daily">>}),
      Begun(Release1, [job |-> past, start |-> 3, end |-> 4, version |-> 1], {<<"daily", "core">>}),
      Begun(ByHand(Hand("manual", "quotes", 5, 6, "running")), Unset, {<<"sweep", "quotes">>}),
      Sweeping}

MCSpacing == [f \in Endpoints |-> IF f = "chain" THEN 3 ELSE 1]

VARIABLE side

MCExits == {-2, -1, 1}
MCRisks ==
  {[risk |-> 2, cap |-> 3, unit |-> 1, realised |-> 0, open |-> 0, current |-> TRUE],
   [risk |-> 3, cap |-> 4, unit |-> 2, realised |-> 1, open |-> 0, current |-> TRUE],
   [risk |-> 2, cap |-> 3, unit |-> 1, realised |-> 0, open |-> 0, current |-> FALSE]}

SharedInit ==
  /\ Init /\ BudgetInit /\ PaperInit /\ side \in {"data", "budget", "paper"}
  /\ side # "data" => jobs = Sweeping.jobs /\ attended = Sweeping.attended
DataSide == side = "data" /\ Next /\ UNCHANGED <<side, budgetVars, paperVars>>
BudgetSide == side = "budget" /\ BudgetNext /\ UNCHANGED <<side, vars, paperVars>>
PaperSide == side = "paper" /\ PaperNext /\ UNCHANGED <<side, vars, budgetVars>>
SharedSpec == SharedInit /\ [][DataSide \/ BudgetSide \/ PaperSide]_<<side, vars, budgetVars, paperVars>>

\* Callers run the same code, and so do handlers.
Symmetry == Permutations(Callers) \cup Permutations(Handlers)
=============================================================================
