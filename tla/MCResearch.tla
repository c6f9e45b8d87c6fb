------------------------------ MODULE MCResearch ------------------------------
(* What is shown of the market and what is concluded from it: the trading    *)
(* room with its sheet; the evidence of two short days, with the indicator   *)
(* engine over every set of minutes of four days, one of them a holiday; and *)
(* replays of small datasets with their reports.  One instance of each, only *)
(* one of which moves in a behaviour.                                       *)
EXTENDS ControlRoom, CandleEvidence, TLC

CONSTANTS
  Undefined, SignalStart, SignalEnd, SignalCooldown, StrikeInterval, AtmRange, PcrLookback,
  PcrFlatBand, PriceLookback, MinimumScore, ReversalDelta, DayLength, TargetPoints, StopPoints,
  MinimumDays, MinimumSnapshots, NearPoints
VARIABLES side, loaded, dataset, signals, outcomes, report, stage

Research == INSTANCE ResearchReport WITH Cooldown <- SignalCooldown
replayVars == <<dataset, signals, outcomes, report, stage>>
Engine == INSTANCE IndicatorEngine WITH Days <- 1 .. 4, Holidays <- {2}, DayMinutes <- 3

TabNames == <<"PCR_DATA", "SIGNAL">>

\* Four markets: rising spot, put interest and call premium; the last one is a
\* market whose tick is too old.
Strikes(spot) == {Research!AtmStrike(spot) + k * StrikeInterval : k \in {-1, 0, 1}}
Quote(ltp, oi) == [ltp |-> ltp, oi |-> oi]
Market(level, stale) ==
  LET spot == 100 + 15 * level IN
  [tick |-> [open |-> spot, high |-> spot, low |-> spot, close |-> spot, volume |-> 1],
   tickStale |-> stale, chainStale |-> FALSE,
   chain |-> [k \in Strikes(spot) |-> [ce |-> Quote(10 + 8 * level, 5 - level),
                                       pe |-> Quote(50 - 8 * level, 1 + level)]]]
Markets == <<Market(0, FALSE), Market(2, FALSE), Market(4, FALSE), Market(4, TRUE)>>

\* When the snapshots are taken, in one session or two, one of them with a tie,
\* and the ids they carry.
Times == {<<1, 2, 3, 4, 5, 6>>, <<1, 2, 3, 101, 102, 103>>, <<1, 2, 2, 3, 4, 5>>}
Labels == {<<1, 2, 3, 4, 5, 6>>, <<1, 3, 2, 6, 5, 4>>}
Dataset(ids, times, series) ==
  [i \in 1 .. 6 |-> [id |-> ids[i], at |-> times[i]] @@ Markets[series[i]]]
\* The dataset of the behaviours in which nothing is replayed.
Unused == Dataset(<<1, 2, 3, 4, 5, 6>>, <<1, 2, 3, 4, 5, 6>>, [i \in 1 .. 6 |-> 2])

StudyInit ==
  /\ RoomInit /\ EvidenceInit
  /\ \/ /\ side = "room" /\ loaded = {} /\ Research!ReplayInit(Unused)
     \/ /\ side = "evidence" /\ loaded = {} /\ connected = FALSE /\ Research!ReplayInit(Unused)
     \/ /\ side = "engine" /\ loaded \in SUBSET ({0, 1, 2} \cup 6 .. 11) /\ connected = FALSE
        /\ Research!ReplayInit(Unused)
     \/ /\ side = "replay" /\ loaded = {} /\ connected = FALSE
        /\ \E ids \in Labels, times \in Times, series \in [1 .. 6 -> 1 .. 4] :
             series[1] = 2 /\ Research!ReplayInit(Dataset(ids, times, series))
RoomSide ==
  side = "room" /\ RoomNext /\ UNCHANGED <<side, loaded, evidenceVars, replayVars>>
EvidenceSide ==
  side = "evidence" /\ EvidenceNext /\ UNCHANGED <<side, loaded, roomVars, replayVars>>
ReplaySide ==
  side = "replay" /\ Research!ReplayNext /\ UNCHANGED <<side, loaded, roomVars, evidenceVars>>
StudySpec ==
  StudyInit /\ [][RoomSide \/ EvidenceSide \/ ReplaySide]_<<side, loaded, roomVars, evidenceVars, replayVars>>

\* The two callers of a tick run the same code.
Symmetry == Permutations(Callers)

\* What is computed from snapshots and from candles does not depend on the way
\* they came: replay, reports and the live path agree, and after a gap, whatever
\* minutes are loaded at whatever clock, an average is that of the part behind it.
AnalysisAgrees ==
  /\ Research!ReplayAgrees
  /\ side = "engine" => \A minutes \in {1, 2} : \A at \in {14, 18, 21, 24} : Engine!GapForgets(loaded, at, minutes)

\* What a cached session or a view shows as closed is final (neither holds: see README).
CachedViewIsFinal ==
  LET doc == snapshot["session"] IN
  (Minute(clock) < EndOfDays /\ Cached("session")) => \A r \in SessionView(doc, clock) : r.value = "final"
ViewIsFinal == \A r \in SavedCandles(clock) : r.value = "final"
=============================================================================
