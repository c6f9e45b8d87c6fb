--------------------------- MODULE IndicatorEngine ---------------------------
(***************************************************************************)
(* live-app/indicator_engine.py over the minutes of a few trading days.    *)
(*                                                                         *)
(* Minutes are numbered through, DayMinutes of them to a day.  What an      *)
(* average is worth is left out: a value is the set of the bars it is       *)
(* computed from, which is what a gap must empty.                          *)
(***************************************************************************)
EXTENDS Integers, FiniteSets, Sequences

CONSTANTS
  Days, Holidays,    \* 1 .. n, and the closed days of the exchange calendar
  DayMinutes,        \* 375
  Averages,          \* periods of the two averages, 20 and 50
  Smoothing,         \* Wilder's period, 14
  NoValue

ASSUME IndicatorAssumption ==
  /\ Days = 1 .. Cardinality(Days) /\ Cardinality(Days) \in Nat
  /\ Holidays \subseteq Days /\ DayMinutes \in Nat \ {0}
  /\ Smoothing \in Nat \ {0} /\ Averages \subseteq Nat \ {0}

DayOf(t) == t \div DayMinutes + 1
Origin(day) == (day - 1) * DayMinutes
ClosedBy(t, clock) == 2 * (t + 1) <= clock     \* the clock counts half minutes

\* normalized: closed minutes of the days the exchange trades.
Normalized(times, clock) == {t \in times : ClosedBy(t, clock) /\ DayOf(t) \notin Holidays}

\* grid: the buckets of every day with rows, up to the clock; a bucket that lacks
\* a minute is a gap.
Grid(times, minutes, clock) ==
  LET count(day) == LET past == (clock - 2 * Origin(day)) \div 2 IN IF past < DayMinutes THEN past ELSE DayMinutes
      starts == {t \in Origin(1) .. Origin(Cardinality(Days) + 1) - 1 :
                   /\ \E u \in times : DayOf(u) = DayOf(t)
                   /\ (t - Origin(DayOf(t))) % minutes = 0
                   /\ t - Origin(DayOf(t)) + minutes <= count(DayOf(t))}
  IN [i \in 1 .. Cardinality(starts) |->
        LET t == CHOOSE u \in starts : Cardinality({v \in starts : v < u}) = i - 1
         IN [time |-> t, full |-> t .. t + minutes - 1 \subseteq times]]

\* A plausible error: any night is bridged.
OverNight(previous, current, minutes) ==
  IF DayOf(previous) = DayOf(current) THEN current - previous = minutes ELSE current = Origin(DayOf(current))

\* consecutive: within a day the next bucket; over night only from the last full
\* bucket to the next open, and only over closed days.
Consecutive(previous, current, minutes) ==
  IF DayOf(previous) = DayOf(current) THEN current - previous = minutes
  ELSE /\ DayOf(previous) + 1 .. DayOf(current) - 1 \subseteq Holidays
       /\ DayOf(current) \notin Holidays
       /\ previous = Origin(DayOf(previous)) + (DayMinutes \div minutes - 1) * minutes
       /\ current = Origin(DayOf(current))

\* calculate: the accumulators, and what a gap clears.
Nothing ==
  [n |-> 0, sums |-> [p \in Averages |-> {}], average |-> [p \in Averages |-> NoValue], previous |-> NoValue,
   changes |-> 0, seed |-> {}, smoothed |-> NoValue, count |-> 0, strength |-> {}, adx |-> NoValue]

Forget(a) == Nothing

\* One bar into the averages, then its change into the smoothed values.
Averaged(a, t) ==
  LET n == a.n + 1
      sums == [p \in Averages |-> IF n <= p THEN a.sums[p] \cup {t} ELSE a.sums[p]]
  IN [a EXCEPT !.n = n, !.sums = sums,
        !.average = [p \in Averages |-> IF n = p THEN sums[p] ELSE IF n > p THEN a.average[p] \cup {t} ELSE NoValue]]

Smoothed(a, t) ==
  IF a.previous = NoValue THEN a
  ELSE LET changes == a.changes + 1
           seed == IF changes <= Smoothing THEN a.seed \cup {a.previous, t} ELSE a.seed
           smoothed == IF changes < Smoothing THEN NoValue
                       ELSE IF changes = Smoothing THEN seed ELSE a.smoothed \cup {a.previous, t}
           count == IF smoothed = NoValue THEN a.count ELSE a.count + 1
           strength == IF smoothed # NoValue /\ count <= Smoothing THEN a.strength \cup smoothed ELSE a.strength
       IN [a EXCEPT !.changes = changes, !.seed = seed, !.smoothed = smoothed, !.count = count,
             !.strength = strength,
             !.adx = IF count < Smoothing THEN NoValue
                     ELSE IF count = Smoothing THEN strength ELSE a.adx \cup smoothed]

Calculate(bars, minutes) ==
  LET fed[i \in 0 .. Len(bars)] ==
        IF i = 0 THEN Nothing
        ELSE LET bar == bars[i]
                 follows == i = 1 \/ Consecutive(bars[i - 1].time, bar.time, minutes)
                 kept == IF bar.full /\ follows THEN fed[i - 1] ELSE Forget(fed[i - 1])
             IN IF bar.full THEN [Smoothed(Averaged(kept, bar.time), bar.time) EXCEPT !.previous = bar.time]
                ELSE kept
  IN [i \in DOMAIN bars |-> fed[i]]

\* snapshot: what a frame says of itself.
FrameState(bars, minutes) ==
  LET last == Calculate(bars, minutes)[Len(bars)] IN
  IF bars = <<>> THEN "MISSING" ELSE IF ~bars[Len(bars)].full THEN "GAP"
  ELSE IF last.adx = NoValue \/ \E p \in Averages : last.average[p] = NoValue THEN "WARMUP" ELSE "CALCULATED"

\* opening_range: all of the first minutes of the loaded day, once they are over.
OpeningRange(times, width, clock) ==
  LET first == Origin(DayOf(CHOOSE t \in times : \A u \in times : u <= t))
      opening == first .. first + width - 1
  IN IF times # {} /\ opening \subseteq times /\ 2 * (first + width) <= clock THEN opening ELSE {}

-----------------------------------------------------------------------------
(* Properties                                                              *)

\* Every value of a frame is computed from the whole of the unbroken run of bars
\* that ends at its bar, and exists once the run is long enough: a missing minute,
\* a missing day and nothing else starts it again.
Buckets(minutes) ==
  {t \in 0 .. Origin(Cardinality(Days) + 1) - 1 :
     DayOf(t) \notin Holidays /\ (t - Origin(DayOf(t))) % minutes = 0 /\ t - Origin(DayOf(t)) + minutes <= DayMinutes}
RunTo(bars, i, minutes) ==
  LET full == {bars[n].time : n \in {m \in 1 .. i : bars[m].full}} IN
  {t \in full : \A b \in Buckets(minutes) : b \in t .. bars[i].time => b \in full}
GapForgets(times, clock, minutes) ==
  LET bars == Grid(Normalized(times, clock), minutes, clock)
      values == Calculate(bars, minutes)
      due(have, n, run) == have = IF Cardinality(run) >= n THEN run ELSE NoValue
  IN \A i \in DOMAIN bars :
       LET run == RunTo(bars, i, minutes) IN
       /\ \A p \in Averages : due(values[i].average[p], p, run)
       /\ due(values[i].smoothed, Smoothing + 1, run)
       /\ due(values[i].adx, 2 * Smoothing, run)
=============================================================================
