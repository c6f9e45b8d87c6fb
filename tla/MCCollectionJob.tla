-------------------------- MODULE MCCollectionJob --------------------------
(* Jobs of a small plan in the hands of the worker, and beside them the      *)
(* recorder of the live feed, which the same worker runs.  Two instances of  *)
(* the job: one with every answer of the provider and a retry, one in which  *)
(* runs overlap.  Only one of the three moves in a behaviour.                *)
EXTENDS CollectionJob, Recorder, TLC

Entry(id, segment, instrument, expiry, reason) ==
    [id |-> id, symbol |-> id, exchange |-> "NSE", segment |-> segment,
     instrument |-> instrument, expiry |-> expiry, reason |-> reason,
     chain_underlying |-> TRUE, flags |-> {}]

Share == Entry("share", "NSE_EQ", "EQUITY", 0, None)
Index == Entry("index", "IDX_I", "INDEX", 0, None)
Future == Entry("future", "NSE_FNO", "FUTIDX", 8, None)

MCWindow == [rolling |-> 1, intraday |-> 2]
MCBatch == [quotes |-> 2, live |-> 2, depth20 |-> 1]
MCIndexRows == {Index}
Plain == [start |-> 6, end |-> 9, segments |-> {}, symbols |-> {}, atm |-> TRUE,
          intervals |-> {1}]

\* A chain with its expiries, then live instruments of which one has expired.
FeedPages == << [family |-> "chain", items |-> <<Index>>],
                [family |-> "live", items |-> <<Share, Future>>] >>
\* A minute history of two windows.
HistoryPages == << [family |-> "intraday", items |-> <<Share>>] >>
MCListed == <<7, 10>>

\* A run may be overtaken by another that found the lease expired.
CONSTANT OverlapRunners
Overlap == INSTANCE CollectionJob WITH
  Runners <- OverlapRunners, Pages <- HistoryPages,
  Errors <- {"auth", "rejected"}, Bodies <- {"rows"}, LastDay <- 10, Overrun <- TRUE

VARIABLE side

MCCatalogues == <<{"a", "b"}, {"a", "b", "c"}>>

CollectorInit ==
  /\ FeedInit
  /\ \/ side \in {"jobs", "feed"} /\ Init
     \/ side = "overlap" /\ Overlap!Init
JobsSide == side = "jobs" /\ Next /\ UNCHANGED <<side, feedVars>>
OverlapSide == side = "overlap" /\ Overlap!Next /\ UNCHANGED <<side, feedVars>>
FeedSide == side = "feed" /\ FeedNext /\ UNCHANGED <<side, vars>>

\* The recorder goes on; nothing is asked of the jobs.
CollectorSpec ==
  /\ CollectorInit /\ [][JobsSide \/ OverlapSide \/ FeedSide]_<<side, vars, feedVars>>
  /\ WF_feedVars(side = "feed" /\ Record) /\ WF_feedVars(side = "feed" /\ Check)
  /\ WF_feedVars(side = "feed" /\ Publish) /\ WF_feedVars(side = "feed" /\ Discover)

\* Each instance has the pages of its own plan.
OutcomesBacked == IF side = "overlap" THEN Overlap!ItemsAccounted ELSE ItemsAccounted
PlanFollowed == side = "feed" => ScopeFollowed
=============================================================================
