------------------------ MODULE SignalPipeline_proofs ------------------------
(***************************************************************************)
(* The ramp of setups and the paper book, for any number of concurrent     *)
(* ticks, any signal window, cooldown and market close.                    *)
(*                                                                         *)
(* The ramp needs no order of the ticks: the memory itself carries the     *)
(* side and the end of the cooldown.  The book does need one.  It is       *)
(* updated after an await, with the decision of before, so what is proved  *)
(* of it is proved for ticks that do not overlap.                          *)
(***************************************************************************)
EXTENDS SignalPipeline, TLAPS

LEMMA TimesAssumption ==
  /\ SignalStart \in Nat /\ SignalEnd \in Nat /\ Cooldown \in Nat
  /\ MarketClose \in Nat /\ LastMinute \in Nat
BY WindowAssumption, ClockAssumption

-----------------------------------------------------------------------------
(* evaluate and apply                                                      *)

LEMMA MemoriesAre ==
  ASSUME NEW m \in Memories
  PROVE  m.state \in States /\ m.side \in Sides \cup {"none"} /\ m.until \in Nat
BY DEF Memories

LEMMA DecisionsAre ==
  ASSUME NEW d, d = [kind |-> d.kind, side |-> d.side, reasons |-> d.reasons],
         d.kind \in {"WAIT", "SETUP", "INVALIDATED"}, d.side \in Sides \cup {"none"},
         NEW reason \in Reasons, d.reasons = {reason}
  PROVE  d \in Decisions /\ ~SessionOver(d)
<1>1. {reason} \in {{r} : r \in Reasons}
  OBVIOUS
<1>2. d \in Decisions
  BY <1>1 DEF Decisions
<1>3. reason # "TIME_FILTER_AFTER_END"
  BY DEF Reasons, Unsuitable, AfterEnd, ScoreReason, TurnReason
<1>4. ~SessionOver(d)
  BY <1>3 DEF SessionOver
<1> QED
  BY <1>2, <1>4

LEMMA EvaluateMeans ==
  ASSUME NEW m \in Memories, NEW f \in Features, NEW now \in Nat, NEW d, d = Evaluate(m, f, now)
  PROVE  /\ d \in Decisions /\ ~SessionOver(d)
         /\ d.kind = "SETUP" => /\ now \in SignalStart .. SignalEnd /\ ~InCooldown(m, now)
                                /\ d.side \in Sides /\ ~Suppresses(m, d.side)
         /\ d.kind = "INVALIDATED" => m.state = "ACTIVE" /\ d.side = m.side
<1>1. ASSUME d \in {Wait(Unsuitable), Wait(AfterEnd)} PROVE d \in Decisions /\ ~SessionOver(d) /\ d.kind = "WAIT"
  <2>1. Unsuitable \in Reasons /\ AfterEnd \in Reasons
    BY DEF Reasons
  <2> QED
    BY <1>1, <2>1, DecisionsAre DEF Wait
<1>2. CASE d = Invalidated(m.side) /\ Invalidates(m, f)
  <2>1. m.side \in Sides \cup {"none"}
    BY MemoriesAre
  <2>2. d \in Decisions /\ ~SessionOver(d) /\ d.kind = "INVALIDATED" /\ d.side = m.side
    <3>1. d = [kind |-> "INVALIDATED", side |-> m.side, reasons |-> {TurnReason}]
      BY <1>2 DEF Invalidated
    <3>2. TurnReason \in Reasons
      BY DEF Reasons
    <3>3. d = [kind |-> d.kind, side |-> d.side, reasons |-> d.reasons]
      BY <3>1
    <3>4. d.kind = "INVALIDATED" /\ d.side = m.side /\ d.reasons = {TurnReason}
      BY <3>1
    <3>5. d \in Decisions /\ ~SessionOver(d)
      BY <2>1, <3>2, <3>3, <3>4, DecisionsAre
    <3> QED
      BY <3>4, <3>5
  <2> QED
    BY <1>2, <2>2 DEF Invalidates
<1>3. ASSUME NEW side \in Sides, d = Setup(side), ~Suppresses(m, side), ~InCooldown(m, now),
             ~(now < SignalStart), ~(now > SignalEnd)
      PROVE  /\ d \in Decisions /\ ~SessionOver(d) /\ d.kind = "SETUP" /\ d.side \in Sides
             /\ now \in SignalStart .. SignalEnd /\ ~InCooldown(m, now) /\ ~Suppresses(m, d.side)
  <2>1. d \in Decisions /\ ~SessionOver(d) /\ d.kind = "SETUP" /\ d.side = side
    <3>1. d = [kind |-> "SETUP", side |-> side, reasons |-> {ScoreReason}]
      BY <1>3 DEF Setup
    <3>2. ScoreReason \in Reasons /\ side \in Sides \cup {"none"}
      BY DEF Reasons
    <3>3. d = [kind |-> d.kind, side |-> d.side, reasons |-> d.reasons]
      BY <3>1
    <3>4. d.kind = "SETUP" /\ d.side = side /\ d.reasons = {ScoreReason}
      BY <3>1
    <3>5. d \in Decisions /\ ~SessionOver(d)
      BY <3>2, <3>3, <3>4, DecisionsAre
    <3> QED
      BY <3>4, <3>5
  <2>2. now \in SignalStart .. SignalEnd
    BY <1>3, TimesAssumption
  <2> QED
    BY <1>3, <2>1, <2>2
<1>4. \/ d \in {Wait(Unsuitable), Wait(AfterEnd)}
      \/ d = Invalidated(m.side) /\ Invalidates(m, f)
      \/ /\ ~(now < SignalStart) /\ ~(now > SignalEnd) /\ ~InCooldown(m, now)
         /\ \E side \in Sides : f.qualifies = {side} /\ ~Suppresses(m, side)
         /\ d = Setup(CHOOSE side \in Sides : f.qualifies = {side})
  BY DEF Evaluate
<1>5. CASE /\ ~(now < SignalStart) /\ ~(now > SignalEnd) /\ ~InCooldown(m, now)
           /\ \E side \in Sides : f.qualifies = {side} /\ ~Suppresses(m, side)
           /\ d = Setup(CHOOSE side \in Sides : f.qualifies = {side})
  <2>1. PICK side \in Sides : f.qualifies = {side} /\ ~Suppresses(m, side)
    BY <1>5
  <2>2. (CHOOSE s \in Sides : f.qualifies = {s}) = side
    BY <2>1
  <2> QED
    BY <1>3, <1>5, <2>1, <2>2
<1> QED
  BY <1>1, <1>2, <1>4, <1>5

(* The memory n that a decision d at a time now leaves of m.               *)
Moves(m, d, now, n) ==
  \/ /\ d.kind = "WAIT" /\ n = IF m.state \in ExitStates THEN EmptyMemory ELSE m
  \/ /\ d.kind = "INVALIDATED" /\ m.state = "ACTIVE" /\ d.side = m.side
     /\ n.state = "INVALIDATED" /\ n.side = m.side
  \/ /\ d.kind = "SETUP" /\ d.side \in Sides /\ now \in SignalStart .. SignalEnd
     /\ ~InCooldown(m, now) /\ m.state # "ACTIVE"
     /\ m.state \in PendingStates => m.side = d.side
     /\ n.state = Advance(m.state) /\ n.side = d.side /\ n.until = now + Cooldown

LEMMA AdvanceMeans ==
  /\ Advance("WAIT") = "WATCH" /\ Advance("WATCH") = "ENTRY_CANDIDATE"
  /\ Advance("ENTRY_CANDIDATE") = "ACTIVE" /\ Advance("ACTIVE") = "ACTIVE"
  /\ \A s \in ExitStates : Advance(s) = s
BY DEF Advance, Ramp, ExitStates

LEMMA ApplyMeans ==
  ASSUME NEW m \in Memories, NEW f \in Features, NEW now \in Nat, NEW d, d = Evaluate(m, f, now)
  PROVE  Apply(m, d, now) \in Memories /\ Moves(m, d, now, Apply(m, d, now))
<1>1. d \in Decisions /\ ~SessionOver(d) /\ d.kind \in {"WAIT", "SETUP", "INVALIDATED"}
  BY EvaluateMeans DEF Decisions
<1>2. CASE d.kind = "WAIT"
  <2>1. Apply(m, d, now) = IF m.state \in ExitStates THEN EmptyMemory ELSE m
    BY <1>1, <1>2 DEF Apply, ApplyWait, Recovered
  <2>2. EmptyMemory \in Memories
    BY DEF EmptyMemory, Memories, States
  <2> QED
    BY <1>2, <2>1, <2>2 DEF Moves
<1>3. CASE d.kind = "INVALIDATED"
  <2>1. m.state = "ACTIVE" /\ d.side = m.side
    BY <1>3, EvaluateMeans
  <2>2. Apply(m, d, now) = [m EXCEPT !.state = "INVALIDATED"]
    BY <1>3, <2>1 DEF Apply
  <2>3. /\ [m EXCEPT !.state = "INVALIDATED"] \in Memories
        /\ [m EXCEPT !.state = "INVALIDATED"].state = "INVALIDATED"
        /\ [m EXCEPT !.state = "INVALIDATED"].side = m.side
    BY DEF Memories, States, ExitStates
  <2> QED
    BY <1>3, <2>1, <2>2, <2>3 DEF Moves
<1>4. CASE d.kind = "SETUP"
  <2>1. /\ now \in SignalStart .. SignalEnd /\ ~InCooldown(m, now)
        /\ d.side \in Sides /\ ~Suppresses(m, d.side)
    BY <1>4, EvaluateMeans
  <2>2. m.state # "ACTIVE" /\ (m.state \in PendingStates => m.side = d.side)
    BY <2>1 DEF Suppresses, PendingStates
  <2>3. Apply(m, d, now) = [state |-> Advance(m.state), side |-> d.side, until |-> now + Cooldown]
    BY <1>4 DEF Apply, ApplySetup
  <2>4. Advance(m.state) \in States /\ now + Cooldown \in Nat
    BY MemoriesAre, AdvanceMeans, TimesAssumption DEF States, PendingStates
  <2>5. Apply(m, d, now) \in Memories
    BY <2>1, <2>3, <2>4 DEF Memories
  <2> QED
    BY <1>4, <2>1, <2>2, <2>3, <2>5 DEF Moves
<1> QED
  BY <1>1, <1>2, <1>3, <1>4

-----------------------------------------------------------------------------
(* The paper book                                                          *)

\* What one call of on_tick can do.
LEMMA OnTickMeans ==
  ASSUME NEW d, NEW id, NEW now, NEW orphan, OnTick(d, id, now, orphan), now \in Nat
  PROVE  /\ closed' = (closed \/ now > MarketClose)
         /\ usedIds' \in {usedIds, usedIds \cup {id}}
         /\ \/ paper' = paper
            \/ paper' = NoPosition
            \/ /\ d.kind = "SETUP" /\ ~paper.open
               /\ paper' = [open |-> TRUE, id |-> id, side |-> d.side, opened |-> now, orphan |-> orphan]
         /\ paper.open /\ (now > MarketClose \/ d.kind = "INVALIDATED") => paper' = NoPosition
         /\ \/ exit' = exit
            \/ \E why \in {"target", "stop", "INVALIDATED", "EXPIRED"} :
                 /\ exit' = [why |-> why, by |-> d.side, side |-> paper.side, orphan |-> paper.orphan]
                 /\ paper.open /\ (why = "INVALIDATED" => d.kind = "INVALIDATED")
<1> DEFINE expired == now > MarketClose
           invalidated == d.kind = "INVALIDATED"
<1>1. closed' = (closed \/ now > MarketClose)
  BY DEF OnTick
<1>2. CASE paper.open
  <2>1. PICK obs \in Observations :
          /\ paper' = IF Outcome(obs, invalidated, expired) = "OPEN" THEN paper ELSE NoPosition
          /\ exit' = IF Outcome(obs, invalidated, expired) = "OPEN" THEN exit
                     ELSE [why |-> Outcome(obs, invalidated, expired), by |-> d.side,
                           side |-> paper.side, orphan |-> paper.orphan]
          /\ usedIds' = usedIds
    BY <1>2 DEF OnTick
  <2> DEFINE outcome == Outcome(obs, invalidated, expired)
  <2>2. /\ outcome \in {"OPEN", "target", "stop", "INVALIDATED", "EXPIRED"}
        /\ outcome = "OPEN" => ~expired /\ ~invalidated
        /\ outcome = "INVALIDATED" => invalidated
    <3>1. CASE obs \in {"target", "stop"}
      <4>1. outcome = obs
        BY <3>1 DEF Outcome
      <4> QED
        BY <3>1, <4>1
    <3>2. CASE obs \notin {"target", "stop"}
      <4>1. outcome = IF invalidated THEN "INVALIDATED" ELSE IF expired THEN "EXPIRED" ELSE "OPEN"
        BY <3>2 DEF Outcome
      <4> QED
        BY <4>1
    <3> QED
      BY <3>1, <3>2
  <2> HIDE DEF outcome
  <2>3. /\ paper' = IF outcome = "OPEN" THEN paper ELSE NoPosition
        /\ exit' = IF outcome = "OPEN" THEN exit
                   ELSE [why |-> outcome, by |-> d.side, side |-> paper.side, orphan |-> paper.orphan]
        /\ usedIds' = usedIds
    BY <2>1 DEF outcome
  <2> QED
    BY <1>1, <1>2, <2>2, <2>3
<1>3. CASE ~paper.open
  <2>1. \/ OpenPosition(d, id, now, orphan)
        \/ UNCHANGED <<paper, usedIds, exit>>
    BY <1>3 DEF OnTick
  <2>2. /\ exit' = exit /\ usedIds' \in {usedIds, usedIds \cup {id}}
        /\ \/ paper' = paper
           \/ /\ d.kind = "SETUP"
              /\ paper' = [open |-> TRUE, id |-> id, side |-> d.side, opened |-> now, orphan |-> orphan]
    BY <2>1 DEF OpenPosition, Opens
  <2> QED
    BY <1>1, <1>3, <2>2
<1> QED
  BY <1>2, <1>3

-----------------------------------------------------------------------------
(* Types                                                                   *)

TickState == [pc : {"idle", "feed", "alert"}, now : Times, decision : Decisions,
              marker : Markers, orphan : BOOLEAN]

LEMMA Constants ==
  /\ NoDecision \in Decisions /\ NoMarker \in Markers /\ NoPosition \in Positions /\ NoSetup \in Setups
  /\ IdleTick \in TickState /\ IdleTick.pc = "idle" /\ EmptyMemory \in Memories
  /\ NoPosition.open = FALSE /\ EmptyMemory.state = "WAIT"
<1>1. 0 \in Times
  BY TimesAssumption DEF Times
<1>2. {"none"} \in {{r} : r \in Reasons}
  BY DEF Reasons
<1>3. NoDecision \in Decisions
  BY <1>2 DEF NoDecision, Wait, Decisions
<1>4. NoMarker \in Markers
  BY <1>1 DEF NoMarker, Markers
<1>5. NoPosition \in Positions /\ NoPosition.open = FALSE
  BY <1>1, <1>4 DEF NoPosition, Positions
<1>6. NoSetup \in Setups
  BY <1>1 DEF NoSetup, Setups
<1>7. IdleTick \in TickState /\ IdleTick.pc = "idle"
  BY <1>1, <1>3, <1>4 DEF IdleTick, TickState
<1>8. EmptyMemory \in Memories /\ EmptyMemory.state = "WAIT"
  BY DEF EmptyMemory, Memories, States
<1> QED
  BY <1>3, <1>4, <1>5, <1>6, <1>7, <1>8

LEMMA MarkersAre ==
  ASSUME NEW d \in Decisions, NEW now \in Times
  PROVE  Marker(d, now) \in Markers /\ Emission(d, now) \in Setups
BY DEF Decisions, Marker, Markers, Emission, Setups

LEMMA TypeInit == Init => TypeOK
<1> SUFFICES ASSUME Init PROVE TypeOK
  OBVIOUS
<1>1. 0 \in Times
  BY TimesAssumption DEF Times
<1>2. tick \in [Ticks -> TickState]
  BY Constants DEF Init
<1>3. ramp \in Seq(Setups)
  BY DEF Init
<1> QED
  BY <1>1, <1>2, <1>3, Constants DEF Init, TypeOK, TickState

\* What a tick leaves when its evaluation or its alert is done.
LEMMA OnTickTypes ==
  ASSUME TypeOK, NEW d \in Decisions, NEW id \in Markers, NEW now \in Times, NEW orphan \in BOOLEAN,
         OnTick(d, id, now, orphan)
  PROVE  /\ paper' \in Positions /\ usedIds' \subseteq Markers /\ closed' \in BOOLEAN
         /\ exit' \in [why : {"none", "target", "stop", "INVALIDATED", "EXPIRED"},
                       by : Sides \cup {"none"}, side : Sides \cup {"none"}, orphan : BOOLEAN]
<1>1. now \in Nat
  BY DEF Times
<1>2. d.side \in Sides \cup {"none"}
  BY DEF Decisions
<1>3. paper.side \in Sides \cup {"none"} /\ paper.orphan \in BOOLEAN
  BY DEF TypeOK, Positions
<1>4. [open |-> TRUE, id |-> id, side |-> d.side, opened |-> now, orphan |-> orphan] \in Positions
  BY <1>2 DEF Positions
<1>5. paper' \in Positions /\ usedIds' \subseteq Markers /\ closed' \in BOOLEAN
  <2>1. /\ closed' = (closed \/ now > MarketClose)
        /\ usedIds' \in {usedIds, usedIds \cup {id}}
        /\ \/ paper' = paper
           \/ paper' = NoPosition
           \/ paper' = [open |-> TRUE, id |-> id, side |-> d.side, opened |-> now, orphan |-> orphan]
    BY <1>1, OnTickMeans
  <2>2. closed' \in BOOLEAN
    BY <2>1
  <2>3. usedIds' \subseteq Markers
    BY <2>1 DEF TypeOK
  <2>4. paper' \in Positions
    BY <1>4, <2>1, Constants DEF TypeOK
  <2> QED
    BY <2>2, <2>3, <2>4
<1>6. \/ exit' = exit
      \/ \E why \in {"target", "stop", "INVALIDATED", "EXPIRED"} :
           exit' = [why |-> why, by |-> d.side, side |-> paper.side, orphan |-> paper.orphan]
  BY <1>1, OnTickMeans
<1>7. exit' \in [why : {"none", "target", "stop", "INVALIDATED", "EXPIRED"},
                by : Sides \cup {"none"}, side : Sides \cup {"none"}, orphan : BOOLEAN]
  BY <1>2, <1>3, <1>6 DEF TypeOK
<1> QED
  BY <1>5, <1>7

\* The step of an evaluation: what it sees, decides and leaves.
LEMMA EvaluatedMeans ==
  ASSUME TypeOK, NEW t \in Ticks, Evaluated(t)
  PROVE  LET now == tick[t].now IN
         /\ tick[t].pc = "feed" /\ now \in Times /\ UNCHANGED <<clock, sentKeys, delivered, overlapped>>
         /\ \E d \in Decisions, marker \in Markers, orphan \in BOOLEAN :
              /\ memory' \in Memories /\ Moves(memory, d, now, memory')
              /\ decision' = d
              /\ marker = LastByTime(newest, Marker(d, now)) /\ newest' = marker
              /\ orphan = (d.kind = "SETUP" /\ memory.state \in ExitStates)
              /\ ramp' = RampAfter(memory', d, now)
              /\ last' = IF d.kind = "SETUP" THEN Emission(d, now) ELSE last
              /\ \/ /\ tick' = [tick EXCEPT ![t] = [pc |-> "alert", now |-> now, decision |-> d,
                                                   marker |-> marker, orphan |-> orphan]]
                    /\ UNCHANGED book
                 \/ tick' = [tick EXCEPT ![t] = IdleTick] /\ OnTick(d, marker, now, orphan)
<1> DEFINE now == tick[t].now
<1>1. now \in Times /\ now \in Nat
  BY DEF TypeOK, Times
<1>2. PICK f \in Features :
        LET d == Evaluate(memory, f, now)
            marker == LastByTime(newest, Marker(d, now))
            orphan == d.kind = "SETUP" /\ memory.state \in ExitStates
        IN
        /\ memory' = Apply(memory, d, now)
        /\ decision' = d
        /\ newest' = LastByTime(newest, Marker(d, now))
        /\ ramp' = RampAfter(memory', d, now)
        /\ last' = IF d.kind = "SETUP" THEN Emission(d, now) ELSE last
        /\ \/ /\ tick' = [tick EXCEPT ![t] = [pc |-> "alert", now |-> now, decision |-> d,
                                             marker |-> marker, orphan |-> orphan]]
              /\ UNCHANGED book
           \/ tick' = [tick EXCEPT ![t] = IdleTick] /\ OnTick(d, marker, now, orphan)
  BY DEF Evaluated
<1> DEFINE d == Evaluate(memory, f, now)
           marker == LastByTime(newest, Marker(d, now))
           orphan == d.kind = "SETUP" /\ memory.state \in ExitStates
<1>3. d \in Decisions /\ Apply(memory, d, now) \in Memories /\ Moves(memory, d, now, Apply(memory, d, now))
  BY <1>1, EvaluateMeans, ApplyMeans DEF TypeOK
<1>4. marker \in Markers
  BY <1>1, <1>3, MarkersAre DEF LastByTime, TypeOK
<1>5. orphan \in BOOLEAN
  OBVIOUS
<1>6. tick[t].pc = "feed" /\ UNCHANGED <<clock, sentKeys, delivered, overlapped>>
  BY DEF Evaluated
<1>7. /\ memory' \in Memories /\ Moves(memory, d, now, memory')
      /\ decision' = d /\ newest' = marker
      /\ ramp' = RampAfter(memory', d, now)
      /\ last' = IF d.kind = "SETUP" THEN Emission(d, now) ELSE last
      /\ \/ /\ tick' = [tick EXCEPT ![t] = [pc |-> "alert", now |-> now, decision |-> d,
                                           marker |-> marker, orphan |-> orphan]]
            /\ UNCHANGED book
         \/ tick' = [tick EXCEPT ![t] = IdleTick] /\ OnTick(d, marker, now, orphan)
  BY <1>2, <1>3
<1>8. marker = LastByTime(newest, Marker(d, now))
  OBVIOUS
<1>9. orphan = (d.kind = "SETUP" /\ memory.state \in ExitStates)
  OBVIOUS
<1> HIDE DEF now, d, marker, orphan
<1> QED
  BY <1>1, <1>3, <1>4, <1>5, <1>6, <1>7, <1>8, <1>9 DEF now

LEMMA TypeStep == TypeOK /\ [Next]_vars => TypeOK'
<1> SUFFICES ASSUME TypeOK, [Next]_vars PROVE TypeOK'
  OBVIOUS
<1>1. tick \in [Ticks -> TickState]
  BY DEF TypeOK, TickState
<1>2. ASSUME tick' \in [Ticks -> TickState]
      PROVE  tick' \in [Ticks -> [pc : {"idle", "feed", "alert"}, now : Times, decision : Decisions,
                                 marker : Markers, orphan : BOOLEAN]]
  BY <1>2 DEF TickState
<1>3. ASSUME NEW t \in Ticks, Begin(t) PROVE TypeOK'
  <2>1. clock + 1 \in Times
    BY <1>3, TimesAssumption DEF Begin, TypeOK, Times
  <2>2. tick' \in [Ticks -> TickState]
    BY <1>1, <1>3, <2>1 DEF Begin, TickState
  <2> QED
    BY <1>2, <1>3, <2>1, <2>2 DEF Begin, TypeOK, engine, book
<1>4. ASSUME NEW t \in Ticks, FeedFailed(t) PROVE TypeOK'
  <2>1. Wait("DATA_BLOCKED") \in Decisions
    <3>1. {"DATA_BLOCKED"} \in {{r} : r \in Reasons}
      BY DEF Reasons
    <3> QED
      BY <3>1 DEF Wait, Decisions
  <2>2. tick' \in [Ticks -> TickState]
    BY <1>1, <1>4, Constants DEF FeedFailed
  <2> QED
    BY <1>2, <1>4, <2>1, <2>2, Constants DEF FeedFailed, TypeOK, market, book
<1>5. ASSUME NEW t \in Ticks, Evaluated(t) PROVE TypeOK'
  <2> DEFINE now == tick[t].now
  <2>1. now \in Times /\ UNCHANGED <<clock, sentKeys, delivered, overlapped>>
    BY <1>5, EvaluatedMeans
  <2>2. PICK d \in Decisions, marker \in Markers, orphan \in BOOLEAN :
          /\ memory' \in Memories /\ decision' = d /\ newest' = marker
          /\ ramp' = RampAfter(memory', d, now)
          /\ last' = IF d.kind = "SETUP" THEN Emission(d, now) ELSE last
          /\ \/ /\ tick' = [tick EXCEPT ![t] = [pc |-> "alert", now |-> now, decision |-> d,
                                               marker |-> marker, orphan |-> orphan]]
                /\ UNCHANGED book
             \/ tick' = [tick EXCEPT ![t] = IdleTick] /\ OnTick(d, marker, now, orphan)
    BY <1>5, EvaluatedMeans
  <2> HIDE DEF now
  <2>3. Emission(d, now) \in Setups
    BY <2>1, MarkersAre
  <2>4. ramp' \in Seq(Setups) /\ last' \in Setups
    BY <2>2, <2>3 DEF RampAfter, TypeOK
  <2>5. tick' \in [Ticks -> TickState]
    <3>1. [pc |-> "alert", now |-> now, decision |-> d, marker |-> marker, orphan |-> orphan] \in TickState
      BY <2>1 DEF TickState
    <3> QED
      BY <1>1, <2>2, <3>1, Constants
  <2>6. /\ paper' \in Positions /\ usedIds' \subseteq Markers /\ closed' \in BOOLEAN
        /\ exit' \in [why : {"none", "target", "stop", "INVALIDATED", "EXPIRED"},
                      by : Sides \cup {"none"}, side : Sides \cup {"none"}, orphan : BOOLEAN]
    <3>1. CASE UNCHANGED book
      BY <3>1 DEF book, TypeOK
    <3>2. CASE OnTick(d, marker, now, orphan)
      BY <2>1, <3>2, OnTickTypes
    <3> QED
      BY <2>2, <3>1, <3>2
  <2> QED
    BY <1>2, <2>1, <2>2, <2>4, <2>5, <2>6 DEF TypeOK
<1>6. ASSUME NEW t \in Ticks, Alerted(t) PROVE TypeOK'
  <2>1. /\ tick[t].decision \in Decisions /\ tick[t].marker \in Markers /\ tick[t].now \in Times
        /\ tick[t].orphan \in BOOLEAN
    BY <1>1 DEF TickState
  <2>2. /\ OnTick(tick[t].decision, tick[t].marker, tick[t].now, tick[t].orphan)
        /\ tick' = [tick EXCEPT ![t] = IdleTick] /\ UNCHANGED <<engine, clock, newest, overlapped>>
        /\ sentKeys' \in {sentKeys, sentKeys \cup {tick[t].marker}}
    BY <1>6 DEF Alerted
  <2>3. /\ paper' \in Positions /\ usedIds' \subseteq Markers /\ closed' \in BOOLEAN
        /\ exit' \in [why : {"none", "target", "stop", "INVALIDATED", "EXPIRED"},
                      by : Sides \cup {"none"}, side : Sides \cup {"none"}, orphan : BOOLEAN]
    BY <2>1, <2>2, OnTickTypes
  <2>4. tick' \in [Ticks -> TickState]
    BY <1>1, <2>2, Constants
  <2>5. sentKeys' \subseteq Markers
    BY <2>1, <2>2 DEF TypeOK
  <2> QED
    BY <1>2, <2>2, <2>3, <2>4, <2>5 DEF TypeOK, engine
<1>7. CASE UNCHANGED vars
  BY <1>7 DEF vars, market, engine, book, TypeOK
<1> QED
  BY <1>3, <1>4, <1>5, <1>6, <1>7 DEF Next

\* Every reachable state of the pipeline is well typed.
THEOREM TypeCorrect == Spec => []TypeOK
BY TypeInit, TypeStep, PTL DEF Spec

-----------------------------------------------------------------------------
(* The ramp                                                                *)

(* The setups r have brought the memory m where it is, and its cooldown     *)
(* runs from the latest of them.                                           *)
Climbs(m, r) ==
  /\ m.state = "WAIT" => r = <<>>
  /\ m.state \in PendingStates =>
       /\ Len(r) = CASE m.state = "WATCH" -> 1
                      [] m.state = "ENTRY_CANDIDATE" -> 2
                      [] m.state = "ACTIVE" -> 3
       /\ \A i \in 1 .. Len(r) : r[i].side = m.side /\ r[i].at \in SignalStart .. SignalEnd
       /\ \A i \in 1 .. Len(r) - 1 : r[i + 1].at >= r[i].at + Cooldown
       /\ m.until = r[Len(r)].at + Cooldown

LEMMA ClimbsOn ==
  ASSUME NEW m \in Memories, NEW r \in Seq(Setups), Climbs(m, r), NEW d, NEW now \in Nat,
         NEW n \in Memories, Moves(m, d, now, n), NEW e \in Setups, e.at = now, e.side = d.side,
         NEW q, q = IF n.state = "WAIT" THEN <<>> ELSE IF d.kind = "SETUP" THEN Append(r, e) ELSE r
  PROVE  Climbs(n, q)
<1>1. CASE d.kind = "WAIT"
  <2>1. n = IF m.state \in ExitStates THEN EmptyMemory ELSE m
    BY <1>1 DEF Moves
  <2>2. CASE n.state = "WAIT"
    BY <2>2 DEF Climbs, PendingStates
  <2>3. CASE n.state # "WAIT"
    <3>1. n = m /\ q = r
      BY <1>1, <2>1, <2>3, Constants
    <3> QED
      BY <3>1
  <2> QED
    BY <2>2, <2>3
<1>2. CASE d.kind = "INVALIDATED"
  <2>1. n.state = "INVALIDATED"
    BY <1>2 DEF Moves
  <2> QED
    BY <2>1 DEF Climbs, PendingStates
<1>3. CASE d.kind = "SETUP"
  <2>1. /\ now \in SignalStart .. SignalEnd /\ ~InCooldown(m, now) /\ m.state # "ACTIVE"
        /\ m.state \in PendingStates => m.side = d.side
        /\ n.state = Advance(m.state) /\ n.side = d.side /\ n.until = now + Cooldown
    BY <1>3 DEF Moves
  <2>2. n.state \in PendingStates => m.state \in {"WAIT", "WATCH", "ENTRY_CANDIDATE"}
    BY <2>1, MemoriesAre, AdvanceMeans DEF States, PendingStates, ExitStates
  <2>3. CASE n.state \notin PendingStates
    <3>1. n.state # "WAIT"
      BY <2>1, MemoriesAre, AdvanceMeans DEF States, PendingStates, ExitStates
    <3> QED
      BY <2>3, <3>1 DEF Climbs
  <2>4. CASE m.state = "WAIT"
    <3>1. n.state = "WATCH" /\ q = Append(r, e) /\ Len(r) = 0
      BY <1>3, <2>1, <2>4, AdvanceMeans DEF Climbs
    <3>2. Len(q) = 1 /\ q[1] = e
      <4>1. Len(Append(r, e)) = Len(r) + 1 /\ Append(r, e)[Len(r) + 1] = e
        OBVIOUS
      <4>2. Len(r) + 1 = 1
        BY <3>1
      <4> QED
        BY <3>1, <4>1, <4>2, Zenon
    <3> QED
      BY <2>1, <3>1, <3>2 DEF Climbs, PendingStates
  <2>5. ASSUME NEW k \in {1, 2}, Len(r) = k, m.state \in PendingStates, n.state \in PendingStates,
               n.state = IF k = 1 THEN "ENTRY_CANDIDATE" ELSE "ACTIVE"
        PROVE  Climbs(n, q)
    <3>1. q = Append(r, e)
      BY <1>3, <2>5 DEF PendingStates
    <3>2. Len(q) = k + 1 /\ q[k + 1] = e /\ \A i \in 1 .. k : q[i] = r[i]
      BY <2>5, <3>1
    <3>3. /\ \A i \in 1 .. k : r[i].side = m.side /\ r[i].at \in SignalStart .. SignalEnd
          /\ \A i \in 1 .. k - 1 : r[i + 1].at >= r[i].at + Cooldown
          /\ m.until = r[k].at + Cooldown
      BY <2>5 DEF Climbs
    <3>4. r[k].at \in Nat
      BY <2>5, <3>3, TimesAssumption
    <3>5. e.at >= r[k].at + Cooldown
      BY <2>1, <3>3, <3>4, TimesAssumption DEF InCooldown
    <3>6. \A i \in 1 .. Len(q) : q[i].side = n.side /\ q[i].at \in SignalStart .. SignalEnd
      <4> SUFFICES ASSUME NEW i \in 1 .. Len(q)
                   PROVE  q[i].side = n.side /\ q[i].at \in SignalStart .. SignalEnd
        OBVIOUS
      <4>1. CASE i \in 1 .. k
        BY <2>1, <2>5, <3>2, <3>3, <4>1
      <4>2. CASE i = k + 1
        BY <2>1, <3>2, <4>2
      <4> QED
        BY <2>5, <3>2, <4>1, <4>2
    <3>7. \A i \in 1 .. Len(q) - 1 : q[i + 1].at >= q[i].at + Cooldown
      <4> SUFFICES ASSUME NEW i \in 1 .. k PROVE q[i + 1].at >= q[i].at + Cooldown
        BY <2>5, <3>2
      <4>1. CASE i \in 1 .. k - 1
        <5>1. q[i + 1] = r[i + 1] /\ q[i] = r[i]
          BY <2>5, <3>2, <4>1
        <5> QED
          BY <3>3, <4>1, <5>1
      <4>2. CASE i = k
        BY <2>5, <3>2, <3>5, <4>2
      <4> QED
        BY <2>5, <4>1, <4>2
    <3>8. n.until = q[Len(q)].at + Cooldown
      BY <2>1, <2>5, <3>2
    <3>9. Len(q) = CASE n.state = "WATCH" -> 1
                     [] n.state = "ENTRY_CANDIDATE" -> 2
                     [] n.state = "ACTIVE" -> 3
      BY <2>5, <3>2
    <3>10. n.state # "WAIT"
      BY <2>5
    <3> QED
      BY <3>6, <3>7, <3>8, <3>9, <3>10 DEF Climbs
  <2>6. CASE m.state = "WATCH" /\ n.state \in PendingStates
    <3>1. n.state = "ENTRY_CANDIDATE" /\ m.state \in PendingStates
      BY <2>1, <2>6, AdvanceMeans DEF PendingStates
    <3>2. Len(r) = 1
      BY <2>6, <3>1 DEF Climbs
    <3> QED
      BY <2>5, <2>6, <3>1, <3>2
  <2>7. CASE m.state = "ENTRY_CANDIDATE" /\ n.state \in PendingStates
    <3>1. n.state = "ACTIVE" /\ m.state \in PendingStates
      BY <2>1, <2>7, AdvanceMeans DEF PendingStates
    <3>2. Len(r) = 2
      BY <2>7, <3>1 DEF Climbs
    <3> QED
      BY <2>5, <2>7, <3>1, <3>2
  <2> QED
    BY <2>2, <2>3, <2>4, <2>6, <2>7
<1> QED
  BY <1>1, <1>2, <1>3 DEF Moves

RampInv == Climbs(memory, ramp)

LEMMA RampStep == TypeOK /\ RampInv /\ [Next]_vars => RampInv'
<1> SUFFICES ASSUME TypeOK, RampInv, [Next]_vars PROVE RampInv'
  OBVIOUS
<1>1. ASSUME NEW t \in Ticks, Evaluated(t) PROVE RampInv'
  <2> DEFINE now == tick[t].now
  <2>1. now \in Times /\ now \in Nat
    BY DEF TypeOK, Times
  <2>2. PICK d \in Decisions : /\ memory' \in Memories /\ Moves(memory, d, now, memory')
                               /\ ramp' = RampAfter(memory', d, now)
    BY <1>1, EvaluatedMeans
  <2> DEFINE e == Emission(d, now)
  <2>3. e \in Setups /\ e.at = now /\ e.side = d.side
    BY <2>1, MarkersAre DEF Emission
  <2>4. ramp' = IF memory'.state = "WAIT" THEN <<>>
                ELSE IF d.kind = "SETUP" THEN Append(ramp, e) ELSE ramp
    BY <2>2 DEF RampAfter
  <2>5. memory \in Memories /\ ramp \in Seq(Setups) /\ Climbs(memory, ramp)
    BY DEF TypeOK, RampInv
  <2> HIDE DEF now, e
  <2> QED
    BY <2>1, <2>2, <2>3, <2>4, <2>5, ClimbsOn DEF RampInv
<1>2. CASE UNCHANGED <<memory, ramp>>
  BY <1>2 DEF RampInv
<1> QED
  BY <1>1, <1>2 DEF Next, Begin, FeedFailed, Alerted, engine, vars

\* In whatever order overlapping ticks reach the engine: the setups of a ramp are all
\* for one side, as many as its state says, inside the window and the cooldown apart.
THEOREM RampIsSound == Spec => []RampSound
<1>1. Init => RampInv
  BY Constants DEF Init, RampInv, Climbs, PendingStates
<1>2. TypeOK /\ RampInv => RampSound
  <2> SUFFICES ASSUME TypeOK, RampInv PROVE RampSound
    OBVIOUS
  <2>1. DOMAIN ramp = 1 .. Len(ramp)
    BY DEF TypeOK
  <2> QED
    BY <2>1 DEF RampInv, Climbs, RampSound, RampIsOneSided, RampIsSpaced
<1> QED
  BY <1>1, <1>2, TypeInit, TypeStep, RampStep, PTL DEF Spec

-----------------------------------------------------------------------------
(* The paper book, while ticks do not overlap                              *)

(* Nothing is later than the clock, whatever overlaps.                     *)
ClockInv ==
  /\ newest.at <= clock
  /\ \A t \in Ticks : tick[t].now <= clock
  /\ closed => clock > MarketClose

(* A position p has the id of the setup it was opened for; unless that came *)
(* out of an exit state, it has the side of the ramp of m, or of the        *)
(* invalidation d that is about to reach it.                                *)
Identified(p) == p.open => p.id = [at |-> p.opened, kind |-> "SETUP", side |-> p.side]
Rides(p, m) == p.open /\ ~p.orphan => m.state \in PendingStates /\ m.side = p.side
Ends(p, d) == p.open /\ ~p.orphan => p.side = d.side
Closed(x) == x.why = "INVALIDATED" => x.by = x.side \/ x.orphan

(* What a tick x carries across the alert, at a time now and over a memory m *)
(* and a position p that no other tick touches.                              *)
Carries(x, now, m, p) ==
  /\ x.marker = Marker(x.decision, now)
  /\ x.decision.kind = "SETUP" => /\ now \in SignalStart .. SignalEnd
                                  /\ ~x.orphan => m.state \in PendingStates /\ m.side = x.decision.side
  /\ x.decision.kind = "INVALIDATED" => Ends(p, x.decision)

Quiet(x) == x.pc = "alert" => x.decision.kind # "INVALIDATED"

BookInv ==
  /\ \A t, u \in Ticks : tick[t].pc # "idle" /\ tick[u].pc # "idle" => t = u
  /\ \A t \in Ticks : tick[t].pc # "idle" => tick[t].now = clock
  /\ \A t \in Ticks : tick[t].pc = "alert" => Carries(tick[t], clock, memory, paper)
  /\ (\A t \in Ticks : Quiet(tick[t])) => Rides(paper, memory)
  /\ Identified(paper) /\ Closed(exit)

LEMMA ClockInvInit == Init => ClockInv
BY DEF Init, ClockInv, NoMarker, IdleTick

LEMMA ClockInvStep == TypeOK /\ ClockInv /\ [Next]_vars => ClockInv'
<1> SUFFICES ASSUME TypeOK, ClockInv, [Next]_vars PROVE ClockInv'
  OBVIOUS
<1>1. /\ tick \in [Ticks -> TickState] /\ clock \in Nat /\ newest.at \in Nat /\ MarketClose \in Nat
      /\ \A t \in Ticks : tick[t].now \in Nat /\ tick[t].now <= clock
  BY TimesAssumption DEF TypeOK, TickState, Times, Markers, ClockInv
<1>2. ASSUME NEW t \in Ticks, Begin(t) PROVE ClockInv'
  <2>1. clock' = clock + 1 /\ newest' = newest /\ closed' = closed
    BY <1>2 DEF Begin, book
  <2>2. \A u \in Ticks : tick'[u].now <= clock + 1
    BY <1>1, <1>2 DEF Begin, TickState
  <2> QED
    BY <1>1, <2>1, <2>2 DEF ClockInv
<1>3. ASSUME NEW t \in Ticks, NEW x, tick' = [tick EXCEPT ![t] = x], x.now <= clock, clock' = clock,
             newest'.at <= clock, closed' = closed \/ closed' = (closed \/ tick[t].now > MarketClose)
      PROVE  ClockInv'
  <2>1. \A u \in Ticks : tick'[u].now <= clock
    BY <1>1, <1>3
  <2>2. closed' => clock > MarketClose
    <3>1. closed => clock > MarketClose
      BY DEF ClockInv
    <3>2. closed' => closed \/ tick[t].now > MarketClose
      BY <1>3
    <3>3. tick[t].now > MarketClose => clock > MarketClose
      BY <1>1
    <3> QED
      BY <3>1, <3>2, <3>3
  <2> QED
    BY <1>3, <2>1, <2>2 DEF ClockInv
<1>4. IdleTick.now <= clock
  BY <1>1 DEF IdleTick
<1>5. ASSUME NEW t \in Ticks, FeedFailed(t) PROVE ClockInv'
  BY <1>3, <1>4, <1>5 DEF FeedFailed, market, book, ClockInv
<1>6. ASSUME NEW t \in Ticks, Evaluated(t) PROVE ClockInv'
  <2> DEFINE now == tick[t].now
  <2>1. now \in Nat /\ clock' = clock
    BY <1>1, <1>6, EvaluatedMeans
  <2>2. PICK d \in Decisions, marker \in Markers, orphan \in BOOLEAN :
          /\ marker = LastByTime(newest, Marker(d, now)) /\ newest' = marker
          /\ \/ /\ tick' = [tick EXCEPT ![t] = [pc |-> "alert", now |-> now, decision |-> d,
                                               marker |-> marker, orphan |-> orphan]]
                /\ UNCHANGED book
             \/ tick' = [tick EXCEPT ![t] = IdleTick] /\ OnTick(d, marker, now, orphan)
    BY <1>6, EvaluatedMeans
  <2>3. Marker(d, now).at = now
    BY DEF Marker
  <2>4. newest'.at <= clock
    BY <1>1, <2>2, <2>3 DEF LastByTime, ClockInv
  <2>5. CASE /\ tick' = [tick EXCEPT ![t] = [pc |-> "alert", now |-> now, decision |-> d,
                                           marker |-> marker, orphan |-> orphan]]
             /\ UNCHANGED book
    <3> DEFINE x == [pc |-> "alert", now |-> now, decision |-> d, marker |-> marker, orphan |-> orphan]
    <3>1. tick' = [tick EXCEPT ![t] = x] /\ x.now <= clock /\ closed' = closed
      BY <1>1, <2>5 DEF book
    <3> HIDE DEF x, now
    <3> QED
      BY <1>3, <2>1, <2>4, <3>1
  <2>6. CASE tick' = [tick EXCEPT ![t] = IdleTick] /\ OnTick(d, marker, now, orphan)
    <3>1. closed' = (closed \/ now > MarketClose)
      BY <2>1, <2>6, OnTickMeans
    <3> QED
      BY <1>3, <1>4, <2>1, <2>4, <2>6, <3>1
  <2> QED
    BY <2>2, <2>5, <2>6
<1>7. ASSUME NEW t \in Ticks, Alerted(t) PROVE ClockInv'
  <2>1. /\ OnTick(tick[t].decision, tick[t].marker, tick[t].now, tick[t].orphan)
        /\ tick' = [tick EXCEPT ![t] = IdleTick] /\ clock' = clock /\ newest' = newest
    BY <1>7 DEF Alerted
  <2>2. closed' = (closed \/ tick[t].now > MarketClose)
    BY <1>1, <2>1, OnTickMeans
  <2> QED
    BY <1>3, <1>4, <2>1, <2>2 DEF ClockInv
<1>8. CASE UNCHANGED vars
  BY <1>8 DEF vars, market, book, ClockInv
<1> QED
  BY <1>2, <1>5, <1>6, <1>7, <1>8 DEF Next

LEMMA BookInvInit == Init => BookInv
<1> SUFFICES ASSUME Init PROVE BookInv
  OBVIOUS
<1>1. \A t \in Ticks : tick[t].pc = "idle"
  BY Constants DEF Init
<1>2. ~paper.open /\ exit.why = "none"
  BY Constants DEF Init
<1> QED
  BY <1>1, <1>2 DEF BookInv, Rides, Identified, Closed

\* A decision d that reaches the book at a time now, with its own marker: a position
\* that is open afterwards rides on the memory m the evaluation has left.
LEMMA BookMoves ==
  ASSUME NEW d, NEW now \in Nat, NEW orphan, NEW m, OnTick(d, Marker(d, now), now, orphan),
         Identified(paper), Closed(exit),
         d.kind # "INVALIDATED" => Rides(paper, m),
         d.kind = "INVALIDATED" => Ends(paper, d),
         d.kind = "SETUP" /\ ~orphan => m.state \in PendingStates /\ m.side = d.side
  PROVE  Identified(paper') /\ Rides(paper', m) /\ Closed(exit')
<1>1. CASE paper' = paper
  <2>1. paper.open => d.kind # "INVALIDATED"
    BY <1>1, OnTickMeans, Constants
  <2> QED
    BY <1>1, <2>1, OnTickMeans DEF Rides, Ends, Closed
<1>2. CASE paper' = NoPosition
  BY <1>2, OnTickMeans, Constants DEF Identified, Rides, Ends, Closed
<1>3. CASE /\ d.kind = "SETUP" /\ ~paper.open
           /\ paper' = [open |-> TRUE, id |-> Marker(d, now), side |-> d.side, opened |-> now, orphan |-> orphan]
  BY <1>3, OnTickMeans DEF Marker, Identified, Rides, Closed
<1> QED
  BY <1>1, <1>2, <1>3, OnTickMeans

\* A tick ends, and with it the only reason for a position not to ride.
LEMMA TickEnds ==
  ASSUME TypeOK, BookInv, NEW t \in Ticks, tick[t].pc # "idle", tick' = [tick EXCEPT ![t] = IdleTick],
         clock' = clock, Identified(paper'), Rides(paper', memory'), Closed(exit')
  PROVE  BookInv'
<1>1. tick \in [Ticks -> TickState]
  BY DEF TypeOK, TickState
<1>2. \A u \in Ticks : tick'[u].pc = "idle"
  <2> SUFFICES ASSUME NEW u \in Ticks PROVE tick'[u].pc = "idle"
    OBVIOUS
  <2>1. CASE u = t
    BY <1>1, <2>1, Constants
  <2>2. CASE u # t
    <3>1. tick[u].pc = "idle"
      BY <2>2 DEF BookInv
    <3> QED
      BY <1>1, <2>2, <3>1
  <2> QED
    BY <2>1, <2>2
<1> QED
  BY <1>2 DEF BookInv

LEMMA BookInvStep ==
  TypeOK /\ ClockInv /\ (~overlapped => BookInv) /\ [Next]_vars => (~overlapped => BookInv)'
<1> SUFFICES ASSUME TypeOK, ClockInv, ~overlapped => BookInv, [Next]_vars, ~overlapped'
             PROVE  BookInv'
  OBVIOUS
<1>1. ~overlapped
  BY DEF Next, Begin, FeedFailed, Evaluated, Alerted, vars
<1>2. BookInv
  BY <1>1
<1>3. tick \in [Ticks -> TickState] /\ memory \in Memories
  BY DEF TypeOK, TickState
<1>4. ASSUME NEW t \in Ticks, Begin(t) PROVE BookInv'
  <2>1. \A u \in Ticks : tick[u].pc = "idle"
    BY <1>4 DEF Begin
  <2>2. /\ tick'[t].pc = "feed" /\ tick'[t].now = clock'
        /\ \A u \in Ticks : u # t => tick'[u].pc = "idle"
    BY <1>3, <1>4, <2>1 DEF Begin, TickState
  <2>3. Rides(paper, memory) /\ Identified(paper) /\ Closed(exit)
    BY <1>2, <2>1 DEF BookInv, Quiet
  <2>4. UNCHANGED <<paper, memory, exit>>
    BY <1>4 DEF Begin, engine, book
  <2> QED
    BY <2>2, <2>3, <2>4 DEF BookInv
<1>5. ASSUME NEW t \in Ticks, tick[t].pc = "feed" PROVE Rides(paper, memory)
  <2>1. \A u \in Ticks : Quiet(tick[u])
    BY <1>2, <1>5 DEF BookInv, Quiet
  <2> QED
    BY <1>2, <2>1 DEF BookInv
<1>6. Identified(paper) /\ Closed(exit)
  BY <1>2 DEF BookInv
<1>7. ASSUME NEW t \in Ticks, FeedFailed(t) PROVE BookInv'
  <2>1. /\ tick[t].pc = "feed" /\ tick' = [tick EXCEPT ![t] = IdleTick]
        /\ UNCHANGED <<clock, paper, memory, exit>>
    BY <1>7 DEF FeedFailed, market, book
  <2>2. Rides(paper', memory') /\ Identified(paper') /\ Closed(exit')
    BY <1>5, <1>6, <2>1
  <2> QED
    BY <1>2, <2>1, <2>2, TickEnds
<1>8. ASSUME NEW t \in Ticks, Evaluated(t) PROVE BookInv'
  <2> DEFINE now == tick[t].now
  <2>1. tick[t].pc = "feed" /\ now \in Nat /\ clock' = clock
    BY <1>8, EvaluatedMeans DEF Times
  <2>2. now = clock
    BY <1>2, <2>1 DEF BookInv
  <2>3. PICK d \in Decisions, marker \in Markers, orphan \in BOOLEAN :
          /\ memory' \in Memories /\ Moves(memory, d, now, memory')
          /\ marker = LastByTime(newest, Marker(d, now)) /\ newest' = marker
          /\ orphan = (d.kind = "SETUP" /\ memory.state \in ExitStates)
          /\ \/ /\ tick' = [tick EXCEPT ![t] = [pc |-> "alert", now |-> now, decision |-> d,
                                               marker |-> marker, orphan |-> orphan]]
                /\ UNCHANGED book
             \/ tick' = [tick EXCEPT ![t] = IdleTick] /\ OnTick(d, marker, now, orphan)
    BY <1>8, EvaluatedMeans
  <2>4. marker = Marker(d, now)
    <3>1. Marker(d, now).at = now
      BY DEF Marker
    <3>2. newest.at <= now
      BY <2>2 DEF ClockInv
    <3> QED
      BY <2>3, <3>1, <3>2 DEF LastByTime
  <2>5. Rides(paper, memory)
    BY <1>5, <2>1
  <2>6. d.kind = "SETUP" /\ ~orphan => memory'.state \in PendingStates /\ memory'.side = d.side
    <3> SUFFICES ASSUME d.kind = "SETUP", ~orphan
                 PROVE  memory'.state \in PendingStates /\ memory'.side = d.side
      OBVIOUS
    <3>1. /\ memory.state \notin ExitStates /\ memory.state # "ACTIVE"
          /\ memory'.state = Advance(memory.state) /\ memory'.side = d.side
      BY <2>3 DEF Moves
    <3> QED
      BY <1>3, <3>1, MemoriesAre, AdvanceMeans DEF States, PendingStates
  <2>7. d.kind # "INVALIDATED" => Rides(paper, memory')
    <3> SUFFICES ASSUME d.kind # "INVALIDATED", memory.state \in PendingStates
                 PROVE  memory'.state \in PendingStates /\ memory'.side = memory.side
      BY <2>5 DEF Rides
    <3>1. CASE d.kind = "WAIT"
      BY <2>3, <3>1 DEF Moves, PendingStates, ExitStates
    <3>2. CASE d.kind = "SETUP"
      <4>1. /\ memory.state # "ACTIVE" /\ memory.side = d.side
            /\ memory'.state = Advance(memory.state) /\ memory'.side = d.side
        BY <2>3, <3>2 DEF Moves
      <4> QED
        BY <4>1, AdvanceMeans DEF PendingStates
    <3> QED
      BY <2>3, <3>1, <3>2 DEF Moves
  <2>8. d.kind = "INVALIDATED" => Ends(paper, d)
    BY <2>3, <2>5 DEF Moves, Rides, Ends
  <2>9. d.kind = "SETUP" => now \in SignalStart .. SignalEnd
    BY <2>3 DEF Moves
  <2>10. CASE tick' = [tick EXCEPT ![t] = IdleTick] /\ OnTick(d, marker, now, orphan)
    <3>1. Identified(paper') /\ Rides(paper', memory') /\ Closed(exit')
      BY <1>6, <2>1, <2>4, <2>6, <2>7, <2>8, <2>10, BookMoves
    <3> QED
      BY <1>2, <2>1, <2>10, <3>1, TickEnds
  <2>11. CASE /\ tick' = [tick EXCEPT ![t] = [pc |-> "alert", now |-> now, decision |-> d,
                                            marker |-> marker, orphan |-> orphan]]
              /\ UNCHANGED book
    <3> DEFINE x == [pc |-> "alert", now |-> now, decision |-> d, marker |-> marker, orphan |-> orphan]
    <3>1. x.pc = "alert" /\ x.now = now /\ x.decision = d /\ x.marker = marker /\ x.orphan = orphan
      OBVIOUS
    <3>2. tick'[t] = x /\ \A u \in Ticks : u # t => tick'[u] = tick[u]
      BY <1>3, <2>11
    <3> HIDE DEF x, now
    <3>3. \A u \in Ticks : u # t => tick'[u].pc = "idle"
      BY <1>2, <2>1, <3>2 DEF BookInv
    <3>4. Carries(x, now, memory', paper)
      BY <2>4, <2>6, <2>8, <2>9, <3>1 DEF Carries
    <3>5. Quiet(x) => Rides(paper, memory')
      BY <2>7, <3>1 DEF Quiet
    <3>6. paper' = paper /\ exit' = exit
      BY <2>11 DEF book
    <3> QED
      BY <1>6, <2>1, <2>2, <3>1, <3>2, <3>3, <3>4, <3>5, <3>6 DEF BookInv
  <2> QED
    BY <2>3, <2>10, <2>11
<1>9. ASSUME NEW t \in Ticks, Alerted(t) PROVE BookInv'
  <2> DEFINE x == tick[t]
  <2>1. /\ x.pc = "alert" /\ OnTick(x.decision, x.marker, x.now, x.orphan)
        /\ tick' = [tick EXCEPT ![t] = IdleTick] /\ memory' = memory /\ clock' = clock
    BY <1>9 DEF Alerted, engine
  <2>2. x.now = clock /\ x.now \in Nat /\ Carries(x, x.now, memory, paper)
    BY <1>2, <1>3, <2>1 DEF BookInv, TickState, Times
  <2>3. x.decision.kind # "INVALIDATED" => Rides(paper, memory)
    <3>1. x.decision.kind # "INVALIDATED" => \A u \in Ticks : Quiet(tick[u])
      BY <1>2, <2>1 DEF BookInv, Quiet
    <3> QED
      BY <1>2, <3>1 DEF BookInv
  <2> HIDE DEF x
  <2>4. Identified(paper') /\ Rides(paper', memory) /\ Closed(exit')
    BY <1>6, <2>1, <2>2, <2>3, BookMoves DEF Carries
  <2> QED
    BY <1>2, <2>1, <2>4, TickEnds DEF x
<1>10. CASE UNCHANGED vars
  BY <1>2, <1>10 DEF vars, market, engine, book, BookInv
<1> QED
  BY <1>4, <1>7, <1>8, <1>9, <1>10 DEF Next

\* While ticks do not overlap: a paper position has the id of its setup, and an
\* invalidation closes one of its own side, or one of a setup out of an exit state.
THEOREM BookFollows == Spec => []BookFollowsSignal
<1>1. (~overlapped => BookInv) => BookFollowsSignal
  BY DEF BookInv, Identified, Closed, BookFollowsSignal, PositionOfItsSignal, OwnInvalidation
<1> QED
  BY <1>1, TypeInit, TypeStep, ClockInvInit, ClockInvStep, BookInvInit, BookInvStep, PTL DEF Spec

-----------------------------------------------------------------------------
(* The market close                                                        *)

\* A decision that reaches the book after the close closes what is open and, because
\* no setup is made then, opens nothing.
LEMMA NothingOpens ==
  ASSUME NEW d, NEW id, NEW now \in Nat, NEW orphan, OnTick(d, id, now, orphan), now = clock,
         SignalEnd <= MarketClose, ClockInv, d.kind = "SETUP" => now \in SignalStart .. SignalEnd,
         closed => ~paper.open
  PROVE  closed' => ~paper'.open
<1> SUFFICES ASSUME closed' PROVE ~paper'.open
  OBVIOUS
<1>1. now > MarketClose
  BY OnTickMeans DEF ClockInv
<1>2. d.kind # "SETUP"
  BY <1>1, TimesAssumption
<1> QED
  BY <1>1, <1>2, OnTickMeans, Constants

LEMMA HeldStep ==
  ASSUME SignalEnd <= MarketClose, TypeOK, ClockInv, ~overlapped => BookInv,
         ~overlapped => (closed => ~paper.open), [Next]_vars, ~overlapped'
  PROVE  closed' => ~paper'.open
<1>1. ~overlapped
  BY DEF Next, Begin, FeedFailed, Evaluated, Alerted, vars
<1>2. BookInv /\ (closed => ~paper.open)
  BY <1>1
<1>3. ASSUME NEW t \in Ticks, Evaluated(t) PROVE closed' => ~paper'.open
  <2> DEFINE now == tick[t].now
  <2>1. tick[t].pc = "feed" /\ now \in Nat
    BY <1>3, EvaluatedMeans DEF Times
  <2>2. now = clock
    BY <1>2, <2>1 DEF BookInv
  <2>3. PICK d \in Decisions, marker \in Markers, orphan \in BOOLEAN :
          /\ Moves(memory, d, now, memory')
          /\ UNCHANGED book \/ OnTick(d, marker, now, orphan)
    BY <1>3, EvaluatedMeans
  <2>4. d.kind = "SETUP" => now \in SignalStart .. SignalEnd
    BY <2>3 DEF Moves
  <2> HIDE DEF now
  <2>5. CASE OnTick(d, marker, now, orphan)
    BY <1>2, <2>1, <2>2, <2>4, <2>5, NothingOpens
  <2>6. CASE UNCHANGED book
    BY <1>2, <2>6 DEF book
  <2> QED
    BY <2>3, <2>5, <2>6
<1>4. ASSUME NEW t \in Ticks, Alerted(t) PROVE closed' => ~paper'.open
  <2> DEFINE x == tick[t]
  <2>1. x.pc = "alert" /\ OnTick(x.decision, x.marker, x.now, x.orphan)
    BY <1>4 DEF Alerted
  <2>2. x.now = clock /\ x.now \in Nat /\ Carries(x, clock, memory, paper)
    BY <1>2, <2>1 DEF BookInv, TypeOK, Times
  <2> HIDE DEF x
  <2>3. x.decision.kind = "SETUP" => x.now \in SignalStart .. SignalEnd
    BY <2>2 DEF Carries
  <2> QED
    BY <1>2, <2>1, <2>2, <2>3, NothingOpens
<1>5. CASE UNCHANGED book
  BY <1>2, <1>5 DEF book
<1> QED
  BY <1>3, <1>4, <1>5 DEF Next, Begin, FeedFailed, vars

\* While ticks do not overlap, and as the last signal is not after the market close
\* (settings.yaml: 15:15 and 15:30): no position outlives the first tick that the book
\* sees after the close, even when its price is missing.
THEOREM NothingOutlivesTheClose ==
  ASSUME SignalEnd <= MarketClose
  PROVE  Spec => []NothingHeldAfterClose
<1>1. Init => NothingHeldAfterClose
  BY DEF Init, NothingHeldAfterClose
<1>2. TypeOK /\ ClockInv /\ (~overlapped => BookInv) /\ NothingHeldAfterClose /\ [Next]_vars
        => NothingHeldAfterClose'
  BY HeldStep DEF NothingHeldAfterClose
<1> QED
  BY <1>1, <1>2, TypeInit, TypeStep, ClockInvInit, ClockInvStep, BookInvInit, BookInvStep, PTL DEF Spec

\* Both together: from its opening to the close, an open position is the one its
\* signal asked for, and it is gone when its signal or the market ends.
THEOREM BookIsSound ==
  ASSUME SignalEnd <= MarketClose
  PROVE  Spec => []BookSound
<1>1. BookFollowsSignal /\ NothingHeldAfterClose => BookSound
  BY DEF BookSound
<1> QED
  BY <1>1, BookFollows, NothingOutlivesTheClose, PTL
=============================================================================
