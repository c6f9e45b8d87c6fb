-------------------------------- MODULE MCLive --------------------------------
(* The two halves of the live process, which share nothing but the          *)
(* checkpoint, and a window on its way through dispatcher and workers, as a  *)
(* repair asks for it.  One instance of each, only one of which moves in a   *)
(* behaviour.                                                               *)
EXTENDS LiveTicks, LiveGaps

CONSTANTS j1, Workers, Bars, Versions, Attempts, MaxMessages, MaxDisturbances
VARIABLES
  side,       \* the part that moves
  job, receipts, rows, mapping, locks, messages, cooldown, worker, requested,
  received, evidence, spent

Fetch == INSTANCE FetchJob WITH
  Jobs <- {j1}, Candles <- Bars, Covers <- [j \in {j1} |-> Bars], MaxAttempts <- Attempts,
  candles <- rows, lock <- locks, calls <- requested
fetchVars == <<job, receipts, rows, mapping, locks, messages, cooldown, worker, requested,
               received, evidence, spent>>

Init == TicksInit /\ GapsInit /\ Fetch!Init /\ side \in {"ticks", "gaps", "fetch"}
TicksSide == side = "ticks" /\ TicksNext /\ UNCHANGED <<side, gapVars, fetchVars>>
GapsSide == side = "gaps" /\ GapsNext /\ UNCHANGED <<side, tickVars, fetchVars>>
FetchSide == side = "fetch" /\ Fetch!Next /\ UNCHANGED <<side, tickVars, gapVars>>
Next == TicksSide \/ GapsSide \/ FetchSide

Spec == Init /\ [][Next]_<<side, tickVars, gapVars, fetchVars>>
\* The writer of a running process goes on, one that lost its lock leaves, a
\* process waits for the lock.
Ticks(A) == side = "ticks" /\ A
TicksFairness ==
  /\ \A p \in Owners : WF_tickVars(Ticks(Writer(p))) /\ WF_tickVars(Ticks(owner # p /\ Leave(p)))
  /\ WF_tickVars(Ticks(\E p \in Owners : Acquire(p)))

\* The loops of the feed and of maintenance go on, ticks come while the feed is
\* up, the dispatcher publishes what is due; nobody has to save a token.
Gaps(A) == side = "gaps" /\ A
GapsFairness ==
  /\ WF_gapVars(Gaps(Minute)) /\ WF_gapVars(Gaps(Tick)) /\ WF_gapVars(Gaps(Connect))
  /\ WF_gapVars(Gaps(ReadReceipt \/ PlanSession)) /\ WF_gapVars(Gaps(CatchUp))
  /\ WF_gapVars(Gaps(ResumeAuthGaps))
  /\ WF_gapVars(Gaps(\E g \in DOMAIN gaps : Gap(g)))

\* FetchJob's: the dispatcher and the workers go on, due times and cooldowns pass.
Fetching(A) == side = "fetch" /\ A
FetchFairness ==
  /\ WF_fetchVars(Fetching(Fetch!Dispatch(j1))) /\ WF_fetchVars(Fetching(Fetch!BecomesDue(j1)))
  /\ SF_fetchVars(Fetching(\E w \in Workers :
                             Fetch!Ignore(w, j1) \/ Fetch!Stop(w, j1) \/ Fetch!Claim(w, j1)))
  /\ \A w \in Workers : WF_fetchVars(Fetching(Fetch!Work(w)))
  /\ WF_fetchVars(Fetching(Fetch!CooldownEnds))

FairSpec == Spec /\ TicksFairness /\ GapsFairness /\ FetchFairness

\* Ticks are stored, outages are repaired.
LiveMoves == EveryTickStored /\ OutagesRepaired
JobsSettle == Fetch!JobsSettle
=============================================================================
