--------------------------- MODULE SignalPipeline ---------------------------
(***************************************************************************)
(* backend/pipeline.py: Pipeline.tick, from the feed to the paper book.    *)
(* A tick fixes its time, awaits the feed, evaluates and applies in one    *)
(* synchronous block, may await the alert provider, and then updates the   *)
(* paper book.  The tick loop and POST /pipeline/tick may run at the same  *)
(* time; they share the memory, the markers, the alert keys and the book.  *)
(*                                                                         *)
(* Times are minutes of one session day.  A tick starts in every minute,   *)
(* one whose feed fails standing for a minute without a tick.  Alerts are  *)
(* enabled and the provider is configured.                                 *)
(***************************************************************************)
EXTENDS SignalEngine, Sequences
LOCAL INSTANCE TLC

CONSTANTS
  Ticks,              \* concurrent callers of tick: the loop, a request
  MarketClose,        \* config.market_close
  LastMinute          \* bound of the model: no tick starts later

ASSUME ClockAssumption == MarketClose \in Nat /\ LastMinute \in Nat

\* The callers are interchangeable.
TickSymmetry == Permutations(Ticks)

VARIABLES
  clock,      \* time of the latest tick start
  memory,     \* Pipeline.memory
  decision,   \* Pipeline.decision, what the dashboard shows
  tick,       \* per caller: program counter, time, decision, marker
  newest,     \* the chart marker with the latest timestamp
  sentKeys,   \* AlertService._sent_keys
  paper,      \* the open paper position, if any
  usedIds,    \* PaperTradingEngine._signal_ids
  delivered,  \* history: the alerts the provider got, each with the time of its tick
  ramp,       \* history: setups emitted since the memory was last in WAIT
  last,       \* history: the latest setup
  overlapped, \* history: two ticks have run at the same time
  closed,     \* history: the book has seen a tick after the market close
  exit        \* history: the position closed last, why, and by which side's decision

market == <<clock, newest, sentKeys, delivered>>
engine == <<memory, decision, ramp, last>>
book == <<paper, usedIds, closed, exit>>
vars == <<market, engine, book, tick, overlapped>>

-----------------------------------------------------------------------------
(* Markers and alerts *)

\* marker_from_decision; signal_id_for is the timestamp and the decision.
Marker(d, now) == [at |-> now, kind |-> d.kind, side |-> d.side]
NoMarker == [at |-> 0, kind |-> "WAIT", side |-> "none"]

FirstByTime(old, new) == IF old = NoMarker THEN new ELSE old  \* bug: [0] instead of [-1]
\* link_invalidations sorts the markers by timestamp; tick takes the last.
LastByTime(old, new) == IF new.at >= old.at THEN new ELSE old

Alertable(m) == m.kind # "WAIT"

-----------------------------------------------------------------------------
(* The paper book *)

NoPosition == [open |-> FALSE, id |-> NoMarker, side |-> "none", opened |-> 0, orphan |-> FALSE]

\* An observation of the position's option leg: none, or a price that is
\* between the levels, at the target or at the stop.
Observations == {"none", "between", "target", "stop"}

KeepsOnGap(obs, invalidated, expired) ==      \* bug: nothing closes in a data gap
  CASE obs = "none" -> "OPEN"
    [] obs \in {"target", "stop"} -> obs
    [] OTHER -> IF invalidated THEN "INVALIDATED" ELSE IF expired THEN "EXPIRED" ELSE "OPEN"
\* PaperTradingEngine.update: the state of the position after one observation.
Outcome(obs, invalidated, expired) ==
  CASE obs \in {"target", "stop"} -> obs
    [] invalidated /\ obs \notin {"target", "stop"} -> "INVALIDATED"
    [] expired /\ ~invalidated /\ obs \notin {"target", "stop"} -> "EXPIRED"
    [] OTHER -> "OPEN"

\* open_from_decision, with or without a price for the entry.
Opens(d, id) == d.kind = "SETUP" /\ id \notin usedIds
OpenPosition(d, id, now, orphan) ==
  /\ Opens(d, id)
  /\ usedIds' = usedIds \cup {id}
  /\ \/ paper' = [open |-> TRUE, id |-> id, side |-> d.side, opened |-> now, orphan |-> orphan]
     \/ UNCHANGED paper       \* NO_DATA: recorded, never opened
  /\ UNCHANGED exit

\* on_tick: an open position is updated, and only otherwise is one opened.
OnTick(d, id, now, orphan) ==
  LET expired == now > MarketClose
      invalidated == d.kind = "INVALIDATED"
  IN
  /\ closed' = (closed \/ expired)
  /\ IF paper.open
     THEN \E obs \in Observations :
            LET outcome == Outcome(obs, invalidated, expired) IN
            /\ paper' = IF outcome = "OPEN" THEN paper ELSE NoPosition
            /\ exit' = IF outcome = "OPEN" THEN exit
                       ELSE [why |-> outcome, by |-> d.side, side |-> paper.side, orphan |-> paper.orphan]
            /\ UNCHANGED usedIds
     ELSE \/ OpenPosition(d, id, now, orphan)
          \/ ~Opens(d, id) /\ UNCHANGED <<paper, usedIds, exit>>

-----------------------------------------------------------------------------
(* Pipeline.tick *)

NoDecision == Wait("none")
IdleTick == [pc |-> "idle", now |-> 0, decision |-> NoDecision, marker |-> NoMarker,
             orphan |-> FALSE]
NoSetup == [at |-> 0, side |-> "none", orphan |-> FALSE]

Init ==
  /\ clock = 0
  /\ memory = EmptyMemory /\ decision = NoDecision
  /\ tick = [t \in Ticks |-> IdleTick]
  /\ newest = NoMarker
  /\ sentKeys = {} /\ usedIds = {}
  /\ paper = NoPosition
  /\ delivered = {}
  /\ ramp = <<>> /\ last = NoSetup
  /\ overlapped = FALSE /\ closed = FALSE
  /\ exit = [why |-> "none", by |-> "none", side |-> "none", orphan |-> FALSE]

\* now is fixed, then the feed is awaited.
Begin(t) ==
  /\ tick[t].pc = "idle"
  /\ clock < LastMinute
  /\ clock' = clock + 1
  /\ tick' = [tick EXCEPT ![t].pc = "feed", ![t].now = clock + 1]
  /\ overlapped' = (overlapped \/ \E u \in Ticks : tick[u].pc # "idle")
  /\ UNCHANGED <<engine, book, newest, sentKeys, delivered>>

\* get_snapshot raises: the tick ends, and a displayed decision is blocked.
FeedFailed(t) ==
  /\ tick[t].pc = "feed"
  /\ tick' = [tick EXCEPT ![t] = IdleTick]
  /\ decision' = IF decision = NoDecision THEN NoDecision ELSE Wait("DATA_BLOCKED")
  /\ UNCHANGED <<market, book, memory, ramp, last, overlapped>>

\* The signals emitted since the memory left WAIT.
Emission(d, now) == [at |-> now, side |-> d.side, orphan |-> memory.state \in ExitStates]
RampAfter(m, d, now) ==
  IF m.state = "WAIT" THEN <<>>
  ELSE IF d.kind = "SETUP" THEN Append(ramp, Emission(d, now)) ELSE ramp

\* evaluate_and_apply, the marker, and the first part of dispatch, with no
\* await between them.  Without a message to send the book follows at once.
Evaluated(t) ==
  LET now == tick[t].now IN
  /\ tick[t].pc = "feed"
  /\ \E f \in Features :
       LET d == Evaluate(memory, f, now)
           marker == LastByTime(newest, Marker(d, now))
           orphan == d.kind = "SETUP" /\ memory.state \in ExitStates
       IN
       /\ memory' = Apply(memory, d, now)
       /\ decision' = d
       /\ newest' = LastByTime(newest, Marker(d, now))
       /\ ramp' = RampAfter(memory', d, now)
       /\ last' = IF d.kind = "SETUP" THEN Emission(d, now) ELSE last
       /\ \/ /\ Alertable(marker) /\ marker \notin sentKeys
             /\ tick' = [tick EXCEPT ![t] = [pc |-> "alert", now |-> now, decision |-> d,
                                             marker |-> marker, orphan |-> orphan]]
             /\ UNCHANGED book
          \/ /\ ~(Alertable(marker) /\ marker \notin sentKeys)
             /\ tick' = [tick EXCEPT ![t] = IdleTick]
             /\ OnTick(d, marker, now, orphan)
  /\ UNCHANGED <<clock, sentKeys, delivered, overlapped>>

\* The provider answers or fails; either way the tick goes on to the book with
\* the decision and the marker it held before the await.
Alerted(t) ==
  /\ tick[t].pc = "alert"
  /\ \/ /\ sentKeys' = sentKeys \cup {tick[t].marker}
        /\ delivered' = delivered \cup {[alert |-> tick[t].marker, at |-> tick[t].now]}
     \/ UNCHANGED <<sentKeys, delivered>>
  /\ OnTick(tick[t].decision, tick[t].marker, tick[t].now, tick[t].orphan)
  /\ tick' = [tick EXCEPT ![t] = IdleTick]
  /\ UNCHANGED <<engine, clock, newest, overlapped>>

Next == \E t \in Ticks : Begin(t) \/ FeedFailed(t) \/ Evaluated(t) \/ Alerted(t)

Spec == Init /\ [][Next]_vars

-----------------------------------------------------------------------------
(* Properties *)

Times == 0 .. LastMinute
Reasons == {"none", "DATA_BLOCKED", Unsuitable, AfterEnd, ScoreReason, TurnReason}
Decisions == [kind : {"WAIT", "SETUP", "INVALIDATED"}, side : Sides \cup {"none"},
              reasons : {{r} : r \in Reasons}]
Markers == [at : Times, kind : {"WAIT", "SETUP", "INVALIDATED"}, side : Sides \cup {"none"}]
Positions == [open : BOOLEAN, id : Markers, side : Sides \cup {"none"}, opened : Times,
              orphan : BOOLEAN]
Setups == [at : Times, side : Sides \cup {"none"}, orphan : BOOLEAN]

\* Every variable has the shape the code gives it.
TypeOK ==
  /\ clock \in Times
  /\ memory \in Memories
  /\ decision \in Decisions
  /\ tick \in [Ticks -> [pc : {"idle", "feed", "alert"}, now : Times, decision : Decisions,
                         marker : Markers, orphan : BOOLEAN]]
  /\ newest \in Markers
  /\ sentKeys \subseteq Markers /\ usedIds \subseteq Markers
  /\ paper \in Positions
  /\ ramp \in Seq(Setups) /\ last \in Setups
  /\ overlapped \in BOOLEAN /\ closed \in BOOLEAN
  /\ exit \in [why : {"none", "target", "stop", "INVALIDATED", "EXPIRED"},
               by : Sides \cup {"none"}, side : Sides \cup {"none"}, orphan : BOOLEAN]

\* The state on the ramp is the number of setups that led to it, all for the
\* memory's side: the ramp is driven by emissions only, and an opposite side
\* waits for an explicit invalidation.
RampIsOneSided ==
  memory.state \in PendingStates =>
    /\ Len(ramp) = CASE memory.state = "WATCH" -> 1
                     [] memory.state = "ENTRY_CANDIDATE" -> 2
                     [] memory.state = "ACTIVE" -> 3
    /\ \A i \in DOMAIN ramp : ramp[i].side = memory.side

\* Consecutive setups of one ramp are at least the cooldown apart, in whatever
\* order overlapping ticks reach the engine, and all inside the signal window.
RampIsSpaced ==
  memory.state \in PendingStates =>
    /\ \A i \in DOMAIN ramp : ramp[i].at \in SignalStart .. SignalEnd
    /\ \A i \in 1 .. Len(ramp) - 1 : ramp[i + 1].at >= ramp[i].at + Cooldown

\* The ramp is that of one side, and spaced.
RampSound == RampIsOneSided /\ RampIsSpaced

\* While ticks do not overlap, a paper position carries the id of the very
\* setup it was opened for.
PositionOfItsSignal ==
  ~overlapped /\ paper.open =>
    paper.id = [at |-> paper.opened, kind |-> "SETUP", side |-> paper.side]

\* While ticks do not overlap, no paper position outlives the first tick the
\* book sees after the market close, even when its price is missing.
NothingHeldAfterClose == ~overlapped /\ closed => ~paper.open

\* While ticks do not overlap, an invalidation closes only a position of its
\* own side, or one opened by a setup emitted out of an exit state.
OwnInvalidation ==
  ~overlapped /\ exit.why = "INVALIDATED" =>
    exit.by = exit.side \/ exit.orphan

\* While ticks do not overlap, the paper book follows its own signal from its
\* opening to its invalidation.
BookFollowsSignal == PositionOfItsSignal /\ OwnInvalidation

\* From its opening to the close: an open position is the one its signal asked
\* for, and it is gone when its signal or the market ends.
BookSound == BookFollowsSignal /\ NothingHeldAfterClose

\* "Emissions start cooldown (window [T, T+10))": no setup follows another
\* within the cooldown.
CooldownHolds ==
  [][last' # last /\ last # NoSetup => last'.at >= last.at + Cooldown]_vars

\* "ACTIVE + TIME_FILTER_AFTER_END -> EXPIRED (session over)".
ActiveExpires == AfterEnd \in decision.reasons => memory.state # "ACTIVE"

\* "dedupe on (signal_id, alert_type)": the provider gets an alert once.
AlertedOnce == \A x, y \in delivered : x.alert = y.alert => x = y
=============================================================================
