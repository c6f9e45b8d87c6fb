---------------------------- MODULE ResearchReport ----------------------------
(***************************************************************************)
(* backend/replay/metrics.py and backend/research: what is reported of a   *)
(* replay, and the audits of a validation (validate_dataset).  The stages  *)
(* run one after the other and only read what the stage before them made.  *)
(***************************************************************************)
EXTENDS Replay
LOCAL INSTANCE SequencesExt
LOCAL INSTANCE FiniteSetsExt

Tally(seq, P(_)) == Cardinality({i \in DOMAIN seq : P(seq[i])})
Ids(seq) == {seq[i].id : i \in DOMAIN seq}
SumOf(seq, f(_)) == FoldLeft(LAMBDA total, x : total + f(x), 0, seq)
Points(o) == IF o.points = Undefined THEN 0 ELSE o.points

-----------------------------------------------------------------------------
(* Metrics: counts of the outcomes whose signal is in the segment *)

OutcomeStates == {"TARGET", "STOPLOSS", "INVALIDATED", "EXPIRED", "NO_DATA"}
Segment(sigs, outs) ==
  [signals |-> Len(sigs),
   states |-> [state \in OutcomeStates |->
                 Tally(outs, LAMBDA o : o.state = state /\ o.id \in Ids(sigs))]]

\* One segment per value of a key; what has no value is in no segment.
Segments(sigs, outs, keys, Key(_)) ==
  [k \in keys |-> Segment(SelectSeq(sigs, LAMBDA s : Key(s) = k), outs)]
BySide(sigs, outs) == Segments(sigs, outs, Sides, LAMBDA s : s.side)

CloseToVwap(s) == s.vwap # Undefined /\ Abs(s.spot * Scale - s.vwap) <= NearPoints * Scale
Metrics(sigs, outs) ==
  LET setups == Setups(sigs) IN
  [evaluations |-> Len(sigs), signals |-> Len(setups),
   waits |-> Tally(sigs, LAMBDA s : s.kind = "WAIT"),
   invalidations |-> Tally(sigs, LAMBDA s : s.kind = "INVALIDATED"),
   suppressed |-> Tally(sigs, LAMBDA s : s.kind = "WAIT" /\ s.health # "OK"),
   states |-> [state \in OutcomeStates |-> Tally(outs, LAMBDA o : o.state = state)],
   gross |-> SumOf(outs, Points),
   bySide |-> BySide(setups, outs),
   byPcr |-> Segments(setups, outs, {"UP", "DOWN", "FLAT"}, LAMBDA s : s.trend),
   byVwap |-> Segments(setups, outs, {"above", "below"}, LAMBDA s : s.position),
   byDistance |-> Segments(setups, outs, BOOLEAN, CloseToVwap)]

-----------------------------------------------------------------------------
(* Analytics: rates, drawdown and periods over the outcomes by signal id *)

OutcomeOf(outs, id) == outs[CHOOSE i \in DOMAIN outs : outs[i].id = id]

\* The deepest fall of the cumulative points below their running peak.
Drawdown(outs) ==
  FoldLeft(LAMBDA run, o :
             LET now == run.now + Points(o)
                 peak == IF now > run.peak THEN now ELSE run.peak
             IN [now |-> now, peak |-> peak,
                 deepest |-> IF now - peak < run.deepest THEN now - peak ELSE run.deepest],
           [now |-> 0, peak |-> 0, deepest |-> 0],
           SelectSeq(outs, LAMBDA o : o.points # Undefined)).deepest

PeriodPnl(setups, outs) ==
  LET days == {Day(setups[i]) : i \in DOMAIN setups} IN
  [d \in days |->
     LET mine == SelectSeq(setups, LAMBDA s : Day(s) = d)
     IN [n |-> Len(mine), gross |-> SumOf(mine, LAMBDA s : Points(OutcomeOf(outs, s.id)))]]

\* The buckets of by_score_bucket.
ScoreBuckets == {<<0, 34>>, <<35, 49>>, <<50, 64>>, <<65, 79>>, <<80, 100>>}
InBucket(s, b) == s.score[s.side] >= b[1] /\ s.score[s.side] <= b[2]

Analytics(sigs, outs) ==
  LET setups == Setups(sigs)
      resolved == SelectSeq(outs, LAMBDA o : o.state \in {"TARGET", "STOPLOSS"})
  IN [signals |-> Len(setups), resolved |-> Len(resolved),
      gross |-> SumOf(outs, Points),
      drawdown |-> Drawdown(outs),
      byScore |-> [b \in ScoreBuckets |-> Segment(SelectSeq(setups, LAMBDA s : InBucket(s, b)), outs)],
      daily |-> PeriodPnl(setups, outs),
      evidence |-> SelectSeq(sigs, LAMBDA s : s.kind # "WAIT")]

-----------------------------------------------------------------------------
(* Data quality and the chronological split *)

Repeats(seq, Key(_)) == Cardinality({i \in DOMAIN seq : \E j \in 1 .. i - 1 : Key(seq[j]) = Key(seq[i])})
NegativeLegs(s) == {<<k, leg, field>> \in (DOMAIN s.chain) \X Legs \X {"ltp", "oi"} : s.chain[k][leg][field] < 0}
Quality(snaps) ==
  [duplicates |-> Repeats(snaps, LAMBDA s : s.id) + Repeats(snaps, LAMBDA s : s.at),
   disorder |-> Cardinality({i \in 1 .. Len(snaps) - 1 : snaps[i + 1].at < snaps[i].at}),
   empty |-> Tally(snaps, LAMBDA s : s.chain = <<>>),
   invalid |-> Tally(snaps, LAMBDA s : s.tick.close < 0)
               + SumOf(snaps, LAMBDA s : Cardinality(NegativeLegs(s))),
   enough |-> Len(snaps) >= MinimumSnapshots]
ProductionQuality(q) ==
  q.enough /\ \A field \in {"duplicates", "disorder", "empty", "invalid"} : q[field] = 0

\* dataset_hash: the fingerprints, whatever the order of the snapshots.
DatasetHash(snaps) == [print \in {snaps[i] : i \in DOMAIN snaps} |-> Tally(snaps, LAMBDA s : s = print)]

DaysOf(snaps) == SetToSortSeq({Day(snaps[i]) : i \in DOMAIN snaps}, <)
Share(n, fifths) == (fifths * n) \div 5
\* Whole days, 60/20/20, in order.
SplitByDay(snaps) ==
  LET days == DaysOf(snaps)
      trainEnd == Share(Len(days), 3)
      validEnd == trainEnd + Share(Len(days), 1)
      window(from, to) == SelectSeq(ByTime(snaps), LAMBDA s : \E n \in from .. to : days[n] = Day(s))
  IN <<window(1, trainEnd), window(trainEnd + 1, validEnd), window(validEnd + 1, Len(days))>>

\* Each window is replayed on its own.
RunReplay(snaps) ==
  LET sigs == ReplaySignals(snaps) IN [signals |-> sigs, outcomes |-> BuildOutcomes(sigs, ByTime(snaps))]
Evaluated(snaps) == LET run == RunReplay(snaps) IN Metrics(run.signals, run.outcomes)
RunOos(snaps) ==
  IF Len(DaysOf(snaps)) < MinimumDays THEN Undefined
  ELSE LET windows == SplitByDay(snaps) IN [w \in DOMAIN windows |-> Evaluated(windows[w])]

-----------------------------------------------------------------------------
(* Audits *)

OfDay(seq, d) == SelectSeq(seq, LAMBDA x : Day(x) = d)
\* Replaying day by day equals replaying the whole range.
AuditSessionReset(snaps, sigs) ==
  \A d \in {Day(snaps[i]) : i \in DOMAIN snaps} :
    LET decisions(seq) == [i \in DOMAIN seq |-> <<seq[i].kind, seq[i].side, seq[i].score, seq[i].at>>]
    IN decisions(ReplaySignals(OfDay(ByTime(snaps), d))) = decisions(OfDay(sigs, d))

\* No signal is older than its snapshot, no outcome older than its signal.
AuditLeakage(snaps, sigs, outs) ==
  /\ \A i \in DOMAIN sigs : \A j \in DOMAIN snaps : snaps[j].id = sigs[i].id => snaps[j].at <= sigs[i].at
  /\ \A i \in DOMAIN outs : outs[i].exit # Undefined => outs[i].exit >= outs[i].at

\* Every later snapshot distorted: what was decided up to the cut is the same.
Distorted(s) == [s EXCEPT !.tick.close = @ + StrikeInterval, !.tick.high = @ + StrikeInterval,
                   !.tick.volume = @ + 1,
                   !.chain = [k \in DOMAIN @ |-> [leg \in Legs |-> [ltp |-> @[k][leg].ltp + 1,
                                                                  oi |-> @[k][leg].oi + 1]]]]
AuditMutationLeakage(snaps, sigs) ==
  LET ordered == ByTime(snaps)
      cut == ordered[Len(ordered) \div 2 + 1].at
      upTo(seq) == SelectSeq(seq, LAMBDA x : x.at <= cut)
      later == [i \in DOMAIN ordered |-> IF ordered[i].at <= cut THEN ordered[i] ELSE Distorted(ordered[i])]
  IN upTo(ReplaySignals(later)) = upTo(sigs)

\* A second run gives the same signals, the reversed dataset the same identity.
AuditDeterminism(snaps, sigs) ==
  /\ ReplaySignals(ByTime(snaps)) = sigs
  /\ DatasetHash(Reverse(snaps)) = DatasetHash(snaps)

LiveReplayParity(snaps) == LivePathSignals(ByTime(snaps)) = ReplaySignals(ByTime(snaps))

-----------------------------------------------------------------------------
(* validate_dataset, stage by stage *)

NoReport == [descriptor |-> Undefined, production |-> FALSE, quality |-> Undefined,
             metrics |-> Undefined, analytics |-> Undefined, audits |-> Undefined, oos |-> Undefined]
ReplayInit(snapshots) ==
  /\ dataset = snapshots
  /\ signals = <<>> /\ outcomes = <<>> /\ report = NoReport /\ stage = "loaded"

Assess ==
  /\ stage = "loaded" /\ stage' = "assessed"
  /\ report' = [report EXCEPT !.quality = Quality(dataset), !.descriptor = DatasetHash(dataset),
                              !.production = ProductionQuality(Quality(dataset))]
  /\ UNCHANGED <<dataset, signals, outcomes>>

Run ==
  /\ stage = "assessed" /\ stage' = "replayed"
  /\ signals' = RunReplay(ByTime(dataset)).signals
  /\ outcomes' = RunReplay(ByTime(dataset)).outcomes
  /\ UNCHANGED <<dataset, report>>

Audit ==
  /\ stage = "replayed" /\ stage' = "audited"
  /\ report' = [report EXCEPT
       !.audits = [session |-> AuditSessionReset(dataset, signals),
                   leakage |-> AuditLeakage(dataset, signals, outcomes),
                   mutation |-> AuditMutationLeakage(dataset, signals),
                   determinism |-> AuditDeterminism(dataset, signals),
                   parity |-> LiveReplayParity(dataset)]]
  /\ UNCHANGED <<dataset, signals, outcomes>>

Analyse ==
  /\ stage = "audited" /\ stage' = "reported"
  /\ report' = [report EXCEPT !.metrics = Metrics(signals, outcomes),
                              !.analytics = Analytics(signals, outcomes),
                              !.oos = RunOos(dataset)]
  /\ UNCHANGED <<dataset, signals, outcomes>>

ReplayNext == Assess \/ Run \/ Audit \/ Analyse

-----------------------------------------------------------------------------
(* Properties *)

\* On every dataset of good structure the audits that validate_dataset reports
\* pass: no state crosses a day, nothing later is read; and the order in which
\* the snapshots are loaded does not matter to a replay.
AuditsPass ==
  report.audits # Undefined =>
    /\ report.audits.session /\ report.audits.leakage /\ report.audits.mutation
    /\ report.audits.determinism
    /\ stage = "audited" => ReplaySignals(Reverse(dataset)) = signals

\* Live path and replay agree on every dataset in which no two snapshots have
\* the same time: only then do the two orders differ.
ParityUnlessTied ==
  report.audits # Undefined => report.audits.parity \/ report.quality.duplicates > 0

\* The two independent reports agree on one replay: every setup has one outcome
\* and is in one segment of each partition, the points add up by day, and the
\* windows of a split are the whole range when no signal crosses a day.
ReportsAgree ==
  stage = "reported" =>
    LET m == report.metrics
        a == report.analytics
        over(S, f(_)) == MapThenSumSet(f, S)
        inSegments(segments) == over(DOMAIN segments, LAMBDA k : segments[k].signals)
        classified(x) == over(OutcomeStates, LAMBDA state : x.states[state])
    IN /\ classified(m) = m.signals
       /\ inSegments(m.bySide) = m.signals /\ inSegments(m.byDistance) = m.signals
       /\ inSegments(a.byScore) = m.signals /\ inSegments(m.byPcr) <= m.signals
       /\ over(Sides, LAMBDA k : classified(m.bySide[k])) = m.signals
       /\ over(DOMAIN a.daily, LAMBDA d : a.daily[d].n) = a.signals
       /\ over(DOMAIN a.daily, LAMBDA d : a.daily[d].gross) = a.gross /\ a.gross = m.gross
       /\ Len(a.evidence) = m.signals + m.invalidations
       /\ report.oos # Undefined =>
            /\ over(DOMAIN report.oos, LAMBDA w : report.oos[w].evaluations) = m.evaluations
            /\ over(DOMAIN report.oos, LAMBDA w : report.oos[w].signals) = m.signals

\* Replay, live path and the two reports tell the same story.
ReplayAgrees == AuditsPass /\ ParityUnlessTied /\ ReportsAgree
=============================================================================
