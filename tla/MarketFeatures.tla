--------------------------- MODULE MarketFeatures ---------------------------
(***************************************************************************)
(* backend/engines: from a snapshot of the market, the bars and the PCR    *)
(* history to the features, their data health, the six rules of each side  *)
(* and the two scores.  Prices and open interest are integers, ratios are  *)
(* integers in units of 1/Scale; text is left out.                         *)
(*                                                                         *)
(* A snapshot holds the index tick, whether tick and chain are older than  *)
(* max_data_age_seconds, and the chain: a function from strikes to rows.   *)
(***************************************************************************)
EXTENDS Integers, Sequences, FiniteSets
LOCAL INSTANCE FiniteSetsExt

CONSTANTS
  StrikeInterval, AtmRange,     \* chain.strike_interval, config.atm_range
  PcrLookback, PcrFlatBand,     \* config.pcr_lookback, pcr_flat_band
  PriceLookback,                \* config.price_lookback; its flat band is 0 here
  MinimumScore,                 \* config.minimum_score
  ReversalDelta,                \* config.invalidation.pcr_reversal_delta
  Undefined                     \* None

Scale == 100                    \* units of a ratio; the code keeps four decimals
Abs(x) == IF x < 0 THEN -x ELSE x
Rounded(num, den) == (2 * num + den) \div (2 * den)
Total(S, f(_)) == MapThenSumSet(f, S)
\* LET that evaluates its value once.
Bind(value, body(_)) == CHOOSE result \in {body(x) : x \in {value}} : TRUE

-----------------------------------------------------------------------------
(* Strikes, PCR and OI *)

AtmStrike(spot) == Rounded(spot, StrikeInterval) * StrikeInterval
Window(atm) == {atm + k * StrikeInterval : k \in -AtmRange .. AtmRange}

Interest(chain, leg, strikes) == Total(strikes, LAMBDA k : chain[k][leg].oi)
Ratio(put, call) == IF call = 0 THEN Undefined ELSE Rounded(put * Scale, call)

\* compute_pcr: an incomplete window still counts as valid here.
Pcr(chain, atm) ==
  LET all == DOMAIN chain
      band == {k \in all : Abs(k - atm) <= AtmRange * StrikeInterval}
      total == Ratio(Interest(chain, "pe", all), Interest(chain, "ce", all))
      near == Ratio(Interest(chain, "pe", band), Interest(chain, "ce", band))
  IN [total |-> total, near |-> near,
      put |-> Interest(chain, "pe", band), call |-> Interest(chain, "ce", band),
      valid |-> all # {} /\ total # Undefined /\ near # Undefined]

\* The last sample against the first of the window, never a single tick.
PcrTrend(history) ==
  LET n == Len(history) IN
  IF n < PcrLookback \/ n < 2 THEN "INSUFFICIENT_DATA"
  ELSE LET delta == history[n] - history[n - PcrLookback + 1]
       IN IF delta > PcrFlatBand THEN "UP" ELSE IF delta < -PcrFlatBand THEN "DOWN" ELSE "FLAT"

PcrChange(now, before) ==
  IF now = Undefined \/ before = Undefined THEN Undefined ELSE now - before

Oi(chain, leg) == Interest(chain, leg, DOMAIN chain)
OiChange(snap, prev, leg) ==
  IF prev = Undefined THEN Undefined ELSE Oi(snap.chain, leg) - Oi(prev.chain, leg)

-----------------------------------------------------------------------------
(* VWAP and price structure; a bar is [high, low, close, volume] *)

BadBar(b) ==
  \/ b.volume < 0 \/ b.low <= 0 \/ b.high < b.low
  \/ b.close < b.low \/ b.close > b.high

\* The typical price is the mean of three: 3 * Scale keeps it whole.
Vwap(bars) ==
  LET volume == Total(DOMAIN bars, LAMBDA i : bars[i].volume)
      paid == Total(DOMAIN bars, LAMBDA i : (bars[i].high + bars[i].low + bars[i].close) * bars[i].volume)
  IN IF volume <= 0 \/ \E i \in DOMAIN bars : BadBar(bars[i]) THEN Undefined
     ELSE Rounded(paid * Scale, 3 * volume)

Direction(spot, bars) ==
  IF Len(bars) < 2 THEN Undefined
  ELSE LET first == IF Len(bars) >= PriceLookback THEN Len(bars) - PriceLookback + 1 ELSE 1
           reference == bars[first].close
       IN IF spot > reference THEN "UP" ELSE IF spot < reference THEN "DOWN" ELSE "FLAT"

-----------------------------------------------------------------------------
(* Data health *)

Severity == [OK |-> 0, INCOMPLETE |-> 1, STALE |-> 2, MISSING |-> 3, INVALID |-> 4]
Aggregate(checks) == CHOOSE c \in checks : \A d \in checks : Severity[d] <= Severity[c]

Legs == {"ce", "pe"}
\* chain_issues, in the order they are found; the last one names the check.
ChainCheck(snap) ==
  LET rows == snap.chain
      silent == {k \in DOMAIN rows : \A leg \in Legs : rows[k][leg].oi = 0}
      negative == {k \in DOMAIN rows : \E leg \in Legs : rows[k][leg].oi < 0 \/ rows[k][leg].ltp < 0}
  IN IF rows = <<>> \/ silent # {} THEN "INCOMPLETE"
     ELSE IF negative # {} THEN "INVALID"
     ELSE IF snap.chainStale THEN "STALE" ELSE "OK"

TickCheck(t) ==
  IF t.close <= 0 \/ t.open <= 0 \/ t.high <= 0 \/ t.low <= 0 \/ t.high < t.low \/ t.volume < 0
  THEN "INVALID" ELSE "OK"

\* snapshot_health, overlaid by build_features: what it finds missing in the ATM
\* window replaces what was found wrong with the chain.
Health(snap, pcr, vwap, missing) ==
  Aggregate({IF snap.tickStale THEN "STALE" ELSE "OK", TickCheck(snap.tick),
             IF missing # {} THEN "INCOMPLETE" ELSE ChainCheck(snap),
             IF pcr.valid THEN "OK" ELSE "INVALID",
             IF vwap = Undefined THEN "INVALID" ELSE "OK",
             IF snap.chain = <<>> THEN "MISSING" ELSE "OK"})

-----------------------------------------------------------------------------
(* build_features *)

\* history holds the PCR of earlier snapshots, oldest first; prev is the
\* previous snapshot.  reference is the spot, or the future the VWAP is of.
BuildFeatures(snap, bars, vwapBars, reference, history, prev) ==
  LET spot == snap.tick.close
      atm == AtmStrike(spot)
      missing == Window(atm) \ DOMAIN snap.chain
      pcr == Pcr(snap.chain, atm)
      vwap == Vwap(vwapBars)
      samples == history \o (IF pcr.total = Undefined THEN <<>> ELSE <<pcr.total>>)
  IN [spot |-> spot, atm |-> atm,
      quotes |-> atm \in DOMAIN snap.chain /\ missing = {},
      ltps |-> IF atm \in DOMAIN snap.chain
               THEN \A leg \in Legs : snap.chain[atm][leg].ltp > 0 ELSE FALSE,
      pcr |-> pcr,
      change |-> IF prev = Undefined THEN Undefined
                 ELSE PcrChange(pcr.total, Pcr(prev.chain, AtmStrike(prev.tick.close)).total),
      trend |-> PcrTrend(samples),
      oi |-> [leg \in Legs |-> OiChange(snap, prev, leg)],
      vwap |-> vwap,
      side |-> IF vwap = Undefined \/ reference * Scale = vwap THEN "none"
               ELSE IF reference * Scale > vwap THEN "above" ELSE "below",
      direction |-> Direction(spot, bars),
      health |-> Health(snap, pcr, vwap, missing)]

-----------------------------------------------------------------------------
(* Rules and scores *)

Weights == [PCR |-> 20, VWAP |-> 25, OI |-> 20, OI_CHANGE |-> 15, ATM |-> 10, PRICE |-> 10]

\* What a side needs to be confirmed: PE mirrors CE.
Wanted == [CE |-> [trend |-> "UP", side |-> "above", leg |-> "pe", other |-> "ce"],
           PE |-> [trend |-> "DOWN", side |-> "below", leg |-> "ce", other |-> "pe"]]
Near(f, leg) == IF leg = "pe" THEN f.pcr.put ELSE f.pcr.call

\* The rules that could be checked, and those of them that passed.  A rule that
\* could not be checked earns nothing and the scale stays 100.
Available(f) ==
  {"ATM"} \cup (IF f.pcr.valid THEN {"OI"} ELSE {})
          \cup (IF f.pcr.valid /\ f.trend # "INSUFFICIENT_DATA" THEN {"PCR"} ELSE {})
          \cup (IF f.vwap # Undefined THEN {"VWAP"} ELSE {})
          \cup (IF \A leg \in Legs : f.oi[leg] # Undefined THEN {"OI_CHANGE"} ELSE {})
          \cup (IF f.direction # Undefined THEN {"PRICE"} ELSE {})
Passed(side, f) ==
  LET w == Wanted[side] IN
  {rule \in Available(f) :
     CASE rule = "PCR" -> f.trend = w.trend
       [] rule = "VWAP" -> f.side = w.side
       [] rule = "OI" -> Near(f, w.leg) >= Near(f, w.other)
       [] rule = "OI_CHANGE" -> f.oi[w.leg] >= f.oi[w.other]
       [] rule = "ATM" -> f.quotes /\ f.ltps
       [] rule = "PRICE" -> f.direction = w.trend}

Score(side, f) == Total(Passed(side, f), LAMBDA rule : Weights[rule])
Qualifies(f) == {side \in DOMAIN Wanted : Score(side, f) >= MinimumScore}

\* invalidation_reason: VWAP crossed, or PCR turned against the side since the
\* signal.
Against(f, signalPcr) ==
  LET rise == PcrChange(f.pcr.total, signalPcr) IN
  {side \in DOMAIN Wanted :
     \/ f.side # "none" /\ f.side # Wanted[side].side
     \/ rise # Undefined /\ (IF side = "CE" THEN -rise ELSE rise) >= ReversalDelta}
=============================================================================
