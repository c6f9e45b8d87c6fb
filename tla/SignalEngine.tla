---------------------------- MODULE SignalEngine ----------------------------
(***************************************************************************)
(* backend/engines: the pure evaluation of one observation of the market   *)
(* against the signal memory, and the memory's only mutator, apply().      *)
(*                                                                         *)
(* Rules, scores and indicators are abstracted to what the decision order  *)
(* looks at: may signals be made at all, which sides reach the minimum     *)
(* score, and against which sides the market has turned.                   *)
(***************************************************************************)
EXTENDS Integers, FiniteSets

CONSTANTS
  SignalStart, SignalEnd,  \* config.signal_start_time, signal_end_time (inclusive)
  Cooldown                 \* config.signal_cooldown_minutes

ASSUME WindowAssumption ==
  SignalStart \in Nat /\ SignalEnd \in Nat /\ Cooldown \in Nat

Sides == {"CE", "PE"}

\* One observation: clear = system enabled and data health OK; qualifies = the
\* sides whose score reaches the minimum; against = the sides for which VWAP
\* was crossed or PCR reversed.
Features == {f \in [clear : BOOLEAN, qualifies : SUBSET Sides, against : SUBSET Sides] :
               f.clear \/ (f.qualifies = {} /\ f.against = {})}

PendingStates == {"WATCH", "ENTRY_CANDIDATE", "ACTIVE"}
ExitStates == {"INVALIDATED", "TARGET", "STOPLOSS", "EXPIRED"}
States == {"WAIT"} \cup PendingStates \cup ExitStates

\* SignalMemory; until = 0 stands for no cooldown.
Memories == [state : States, side : Sides \cup {"none"}, until : Nat]
EmptyMemory == [state |-> "WAIT", side |-> "none", until |-> 0]

-----------------------------------------------------------------------------
(* evaluate *)

\* The reasons of a decision are sentences that start with a code.  Only the one
\* that apply() looks for is told apart.
Unsuitable == "no setup: disabled, bad data, too early, cooldown, conflict or weak"
AfterEnd == "TIME_FILTER_AFTER_END: after signal end, no new signals"
ScoreReason == "SETUP: minimum score"
TurnReason == "INVALIDATED: market turned"
Wait(reason) == [kind |-> "WAIT", side |-> "none", reasons |-> {reason}]
Setup(side) == [kind |-> "SETUP", side |-> side, reasons |-> {ScoreReason}]
Invalidated(side) ==
  [kind |-> "INVALIDATED", side |-> side, reasons |-> {TurnReason}]

Invalidates(m, f) == m.state = "ACTIVE" /\ m.side \in f.against

ShortCooldown(m, now) == m.until > 0 /\ now < m.until - 1    \* bug: one minute early
InCooldown(m, now) == m.until > 0 /\ now < m.until

\* SIGNAL_ALREADY_ACTIVE and OPPOSITE_SIDE_PENDING.
Suppresses(m, side) ==
  \/ m.state = "ACTIVE" /\ m.side = side
  \/ m.state \in PendingStates /\ m.side # side

\* The decision order of the module's docstring.
Evaluate(m, f, now) ==
  IF ~f.clear THEN Wait(Unsuitable)
  ELSE IF now < SignalStart THEN Wait(Unsuitable)
  ELSE IF now > SignalEnd THEN Wait(AfterEnd)
  ELSE IF Invalidates(m, f) THEN Invalidated(m.side)
  ELSE IF InCooldown(m, now) THEN Wait(Unsuitable)
  ELSE IF \E side \in Sides : f.qualifies = {side} /\ ~Suppresses(m, side)
       THEN Setup(CHOOSE side \in Sides : f.qualifies = {side})
       ELSE Wait(Unsuitable)

-----------------------------------------------------------------------------
(* apply *)

Ramp == [WAIT |-> "WATCH", WATCH |-> "ENTRY_CANDIDATE", ENTRY_CANDIDATE |-> "ACTIVE"]
Advance(state) == IF state \in DOMAIN Ramp THEN Ramp[state] ELSE state

\* A WAIT decision first recovers an exit state, the cooldown included.
Recovered(m) == IF m.state \in ExitStates THEN EmptyMemory ELSE m

\* Tuple membership: the bare code is compared with whole sentences.
SessionOver(d) == "TIME_FILTER_AFTER_END" \in d.reasons

ApplyWait(m, d) ==
  LET r == Recovered(m) IN
  IF r.state = "ACTIVE" /\ SessionOver(d) THEN [r EXCEPT !.state = "EXPIRED"] ELSE r

ApplySetup(m, d, now) ==
  [state |-> Advance(m.state), side |-> d.side, until |-> now + Cooldown]

Apply(m, d, now) ==
  CASE d.kind = "WAIT" -> ApplyWait(m, d)
    [] d.kind = "INVALIDATED" ->
         IF m.state = "ACTIVE" THEN [m EXCEPT !.state = "INVALIDATED"] ELSE m
    [] d.kind = "SETUP" -> ApplySetup(m, d, now)
=============================================================================
