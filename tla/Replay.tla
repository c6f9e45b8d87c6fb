------------------------------- MODULE Replay -------------------------------
(***************************************************************************)
(* backend/replay and backend/research: an offline run of the same engines *)
(* over a dataset of snapshots, its outcomes, metrics and analytics, and   *)
(* the audits that accompany a validation report.                          *)
(*                                                                         *)
(* One instrument and one expiry; at counts minutes, DayLength of them to  *)
(* a day.  Costs are zero, so net points are gross points.                 *)
(***************************************************************************)
EXTENDS SignalEngine, MarketFeatures, TLC
LOCAL INSTANCE SequencesExt

CONSTANTS
  DayLength,                 \* minutes of a day
  TargetPoints, StopPoints,  \* config.target_points, stoploss_points
  MinimumSnapshots,          \* research.quality.MIN_SNAPSHOTS
  MinimumDays,               \* research.oos.MIN_DAYS_FOR_OOS
  NearPoints                 \* config.vwap_near_points

VARIABLES
  dataset,    \* the snapshots as loaded
  signals,    \* ReplayResult.signals
  outcomes,   \* ReplayResult.outcomes
  report,     \* metrics, analytics and audits
  stage

replayVars == <<dataset, signals, outcomes, report, stage>>

Day(x) == x.at \div DayLength
Minute(x) == x.at % DayLength

-----------------------------------------------------------------------------
(* Ordering and replay *)

Ordered(snaps, Before(_, _)) ==
  LET order == SortSeq([n \in DOMAIN snaps |-> n], LAMBDA i, j :
                 Before(snaps[i], snaps[j]) \/ (~Before(snaps[j], snaps[i]) /\ i < j))
  IN [n \in DOMAIN snaps |-> snaps[order[n]]]
Earlier(a, b) == a.at < b.at
\* ReplayFeed sorts by timestamp and snapshot_id, everybody else by timestamp.
ByTime(snaps) == Ordered(snaps, Earlier)
ById(snaps) == Ordered(snaps, LAMBDA a, b : a.id < b.id)     \* bug: ids alone
ByTimeAndId(snaps) ==
  Ordered(snaps, LAMBDA a, b : Earlier(a, b) \/ (a.at = b.at /\ a.id < b.id))

SessionBar(s) == [high |-> s.tick.high, low |-> s.tick.low, close |-> s.tick.close,
                  volume |-> s.tick.volume]

NewSession(day, done) ==
  [day |-> day, bars |-> <<>>, history |-> <<>>, prev |-> Undefined,
   memory |-> EmptyMemory, signalPcr |-> Undefined, done |-> done]
KeepMemory(run, day) ==                                \* bug: the cooldown crosses the day
  IF run.day = day THEN run ELSE [NewSession(day, run.done) EXCEPT !.memory = run.memory]
Session(run, day) == IF run.day = day THEN run ELSE NewSession(day, run.done)

\* What evaluate looks at: the rest of it is abstracted by SignalEngine.
Observed(f, signalPcr) ==
  IF f.health = "OK"
  THEN [clear |-> TRUE, qualifies |-> Qualifies(f), against |-> Against(f, signalPcr)]
  ELSE [clear |-> FALSE, qualifies |-> {}, against |-> {}]

SignalPcr(before, d, m, f) ==
  IF d.kind = "SETUP" THEN f.pcr.total ELSE IF m = EmptyMemory THEN Undefined ELSE before

\* One snapshot: bars first, then features, decision, memory and history.
Recorded(run, s, bars, f, d, m) ==
  [run EXCEPT !.bars = bars, !.prev = s, !.memory = m,
     !.signalPcr = SignalPcr(run.signalPcr, d, m, f),
     !.history = IF f.pcr.total = Undefined THEN @ ELSE Append(@, f.pcr.total),
     !.done = Append(@, [id |-> s.id, at |-> s.at, kind |-> d.kind, side |-> d.side,
                         state |-> m.state, atm |-> f.atm, health |-> f.health,
                         score |-> [side \in Sides |-> Score(side, f)],
                         pcr |-> f.pcr.total, trend |-> f.trend, vwap |-> f.vwap,
                         spot |-> f.spot, position |-> f.side])]
Evaluation(last, s) ==
  Bind(Session(last, Day(s)), LAMBDA run :
    Bind(Append(run.bars, SessionBar(s)), LAMBDA bars :
      Bind(BuildFeatures(s, bars, bars, s.tick.close, run.history, run.prev), LAMBDA f :
        Bind(Evaluate(run.memory, Observed(f, run.signalPcr), Minute(s)), LAMBDA d :
          Recorded(run, s, bars, f, d, Apply(run.memory, d, Minute(s)))))))

Start == NewSession(-1, <<>>)
Replayed(ordered) ==
  FoldLeft(LAMBDA run, s : Bind(run, LAMBDA last : Evaluation(last, s)), Start, ordered).done
ReplaySignals(snaps) == Replayed(ByTimeAndId(snaps))
\* research.parity: the same engines, in the order of the timestamps alone.
LivePathSignals(snaps) == Replayed(ByTime(snaps))

-----------------------------------------------------------------------------
(* Outcomes *)

Setups(sigs) == SelectSeq(sigs, LAMBDA s : s.kind = "SETUP")
Leg(sig) == IF sig.side = "CE" THEN "ce" ELSE "pe"

\* Later snapshots of the day that still list the strike of the signal.
Observations(snaps, sig) ==
  LET future == SelectSeq(snaps, LAMBDA s :
                  s.at > sig.at /\ Day(s) = Day(sig) /\ sig.atm \in DOMAIN s.chain)
  IN [i \in DOMAIN future |-> [at |-> future[i].at, ltp |-> future[i].chain[sig.atm][Leg(sig)].ltp]]

EntryPrice(snaps, sig) ==
  LET i == CHOOSE i \in DOMAIN snaps : snaps[i].id = sig.id /\ \A j \in 1 .. i - 1 : snaps[j].id # sig.id
  IN IF sig.atm \in DOMAIN snaps[i].chain THEN snaps[i].chain[sig.atm][Leg(sig)].ltp ELSE Undefined

\* The first invalidation of its side after the setup, on the same day.
InvalidationAt(sigs, sig) ==
  LET later == {i \in DOMAIN sigs : sigs[i].kind = "INVALIDATED" /\ sigs[i].side = sig.side
                                    /\ Day(sigs[i]) = Day(sig) /\ sigs[i].at > sig.at}
  IN IF later = {} THEN Undefined ELSE sigs[CHOOSE i \in later : \A j \in later : i <= j].at

\* One observation that reaches both levels could be told apart only by its high
\* and low, which observations of snapshots do not carry.
Touch(o, entry) ==
  IF o.ltp >= entry + TargetPoints THEN "TARGET"
  ELSE IF o.ltp <= entry - StopPoints THEN "STOPLOSS" ELSE "none"

EvaluateOutcome(sig, entry, obs, inv) ==
  LET ended(o) == inv # Undefined /\ o.at > inv
      exits == {i \in DOMAIN obs : ended(obs[i]) \/ Touch(obs[i], entry) # "none"}
      first == CHOOSE i \in exits : \A j \in exits : i <= j
      result(state, at, points, used) ==
        [id |-> sig.id, at |-> sig.at, side |-> sig.side, state |-> state, exit |-> at,
         points |-> points, used |-> used]
  IN IF entry = Undefined \/ obs = <<>> THEN result("NO_DATA", Undefined, Undefined, 0)
     ELSE IF entry <= 0 THEN result("NO_DATA", Undefined, Undefined, 0)
     ELSE IF exits = {}
       THEN result("EXPIRED", obs[Len(obs)].at, obs[Len(obs)].ltp - entry, Len(obs))
     ELSE IF ended(obs[first]) THEN result("INVALIDATED", inv, Undefined, first)
     ELSE IF Touch(obs[first], entry) = "TARGET"
       THEN result("TARGET", obs[first].at, TargetPoints, first)
     ELSE result("STOPLOSS", obs[first].at, -StopPoints, first)

BuildOutcomes(sigs, snaps) ==
  LET setups == Setups(sigs) IN
  [i \in DOMAIN setups |->
     EvaluateOutcome(setups[i], EntryPrice(snaps, setups[i]), Observations(snaps, setups[i]),
                     InvalidationAt(sigs, setups[i]))]
=============================================================================
