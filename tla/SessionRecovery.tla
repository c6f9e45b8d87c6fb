--------------------------- MODULE SessionRecovery ---------------------------
(***************************************************************************)
(* live-app/session_recovery.py: late-published index sessions.             *)
(*                                                                         *)
(* A result of the completed core plan says which sessions the provider    *)
(* left out.  Each pass looks at the candles that are saved now, and for a  *)
(* session that is still incomplete queues a child job that asks for this   *)
(* day alone: twice at most, two hours apart, a few in one pass.           *)
(***************************************************************************)
EXTENDS Naturals, FiniteSets

CONSTANTS
  Days,          \* the days of the result, 1 .. n
  Calendar,      \* [Days -> "REGULAR", "CLOSED", "UNVERIFIED"]
  Reported,      \* the missing_session_dates of the result
  Partial,       \* does the result also miss minutes of days it has?
  Full,          \* the minutes of a session
  MaxQueued,     \* children queued by one pass (6)
  MaxRecoveryFaults   \* bound of the model

ASSUME CalendarAssumption == Reported \subseteq Days /\ Full \in Nat \ {0}

VARIABLES
  published,     \* [Days -> minutes the provider has by now]
  saved,         \* [Days -> minutes in candles/<series>/<day>]
  children,      \* [Days -> <<first, second>>], each none, paused, running, completed, blocked
  waited,        \* days whose last attempt ended two hours ago
  parentPaused,  \* the admin paused the core plan
  pass,          \* the pass in progress
  recoveryFaults

recoveryVars == <<published, saved, children, waited, parentPaused, pass, recoveryFaults>>

Resting == [pc |-> "rest", todo |-> {}, queued |-> 0, day |-> 0, attempt |-> 0]
Attempts == {1, 2}

-----------------------------------------------------------------------------
(* What is missing                                                         *)

Regular == {d \in Days : Calendar[d] = "REGULAR"}

\* session_days: a result that lacks minutes, or names no day, is checked day
\* by day; a named day that is no regular session disqualifies the result.
session_days ==
  IF Partial \/ Reported = {} THEN Regular
  ELSE IF Reported \subseteq Regular THEN Reported ELSE {}

\* saved_session, requested_grid: recomputed from the candles that are kept.
Complete(d) == Calendar[d] = "REGULAR" /\ saved[d] = Full

RecoveryInit ==
  /\ published \in {f \in [Days -> {0, Full}] : \A d \in Days \ Regular : f[d] = 0}
  /\ saved = [d \in Days |-> 0]
  /\ children = [d \in Days |-> [a \in Attempts |-> "none"]]
  /\ waited = {} /\ parentPaused \in BOOLEAN /\ pass = Resting /\ recoveryFaults = 0

RecoveryFault == recoveryFaults < MaxRecoveryFaults /\ recoveryFaults' = recoveryFaults + 1

-----------------------------------------------------------------------------
(* A pass                                                                  *)

\* tick, for every session of the result.
StartPass ==
  /\ pass.pc = "rest" /\ ~parentPaused
  /\ pass' = [Resting EXCEPT !.pc = "day", !.todo = session_days]
  /\ UNCHANGED <<published, saved, children, waited, parentPaused, recoveryFaults>>

\* The attempt a session may have now: 0 for none.

\* A plausible error: the first attempt that is found settles the session.
FirstOnly(d) == IF children[d][1] = "none" THEN 1 ELSE 0

NextAttempt(d) ==
  CASE children[d][1] = "none" -> 1
    [] children[d][1] = "completed" /\ children[d][2] = "none" /\ d \in waited -> 2
    [] OTHER -> 0

\* The days in order; a pass that has queued its share only looks at the rest.
Look ==
  /\ pass.pc = "day" /\ pass.todo # {}
  /\ LET d == CHOOSE x \in pass.todo : \A y \in pass.todo : x <= y
         a == NextAttempt(d)
     IN pass' = IF Complete(d) \/ a = 0 \/ pass.queued >= MaxQueued
                THEN [pass EXCEPT !.todo = @ \ {d}]
                ELSE [pass EXCEPT !.pc = "create", !.todo = @ \ {d}, !.day = d, !.attempt = a]
  /\ UNCHANGED <<published, saved, children, waited, parentPaused, recoveryFaults>>

\* retry, then control(resume): two writes.
CreateChild ==
  /\ pass.pc = "create"
  /\ children' = [children EXCEPT ![pass.day][pass.attempt] = "paused"]
  /\ pass' = [pass EXCEPT !.pc = "resume"]
  /\ UNCHANGED <<published, saved, waited, parentPaused, recoveryFaults>>

ResumeChild ==
  /\ pass.pc = "resume"
  /\ children' = [children EXCEPT ![pass.day][pass.attempt] = "running"]
  /\ pass' = [pass EXCEPT !.pc = "day", !.queued = @ + 1]
  /\ UNCHANGED <<published, saved, waited, parentPaused, recoveryFaults>>

EndPass ==
  /\ pass.pc = "day" /\ pass.todo = {}
  /\ pass' = Resting
  /\ UNCHANGED <<published, saved, children, waited, parentPaused, recoveryFaults>>

\* The process dies in a pass, or a write fails and maintenance goes on with its
\* next stage.
AbortPass ==
  /\ pass.pc # "rest" /\ RecoveryFault
  /\ pass' = Resting
  /\ UNCHANGED <<published, saved, children, waited, parentPaused>>

-----------------------------------------------------------------------------
(* The collector, the provider and the admin                               *)

\* A child ends: with what the provider has, or refused for good.
ChildEnds ==
  /\ \E d \in Days, a \in Attempts :
       /\ children[d][a] = "running"
       /\ \/ /\ children' = [children EXCEPT ![d][a] = "completed"]
             /\ saved' = [saved EXCEPT ![d] = IF published[d] > @ THEN published[d] ELSE @]
             /\ UNCHANGED recoveryFaults
          \/ /\ children' = [children EXCEPT ![d][a] = "blocked"]
             /\ RecoveryFault /\ UNCHANGED saved
       /\ waited' = waited \ {d}
  /\ UNCHANGED <<published, parentPaused, pass>>

\* RETRY_SECONDS after a child ended.
TwoHours ==
  /\ \E d \in Days \ waited : /\ \E a \in Attempts : children[d][a] = "completed"
                              /\ \A a \in Attempts : children[d][a] # "running"
                              /\ waited' = waited \cup {d}
  /\ UNCHANGED <<published, saved, children, parentPaused, pass, recoveryFaults>>

Published ==
  /\ \E d \in Regular : published[d] < Full /\ published' = [published EXCEPT ![d] = @ + 1]
  /\ UNCHANGED <<saved, children, waited, parentPaused, pass, recoveryFaults>>

PauseParent ==
  /\ parentPaused' = ~parentPaused /\ (parentPaused \/ RecoveryFault)
  /\ (parentPaused => UNCHANGED recoveryFaults)
  /\ UNCHANGED <<published, saved, children, waited, pass>>

Passing == StartPass \/ Look \/ CreateChild \/ ResumeChild \/ EndPass
RecoveryNext == Passing \/ AbortPass \/ ChildEnds \/ TwoHours \/ Published \/ PauseParent

-----------------------------------------------------------------------------
(* Properties                                                              *)

\* Every missing session is settled in the end: its candles are complete, two
\* attempts have ended, or a child is blocked; a pass that reaches its share, is
\* cut short or finds an earlier session waiting starves no later one.  The
\* exception is a child that was created and never resumed.
Settled(d) ==
  \/ Complete(d)
  \/ children[d][1] = "completed" /\ children[d][2] = "completed"
  \/ \E a \in Attempts : children[d][a] \in {"blocked", "paused"}
SessionsSettle == <>[]parentPaused \/ (\A d \in session_days : <>[]Settled(d))

\* A child that was created is started.
ChildrenResumed == \A d \in Days, a \in Attempts : children[d][a] = "paused" => pass.pc = "resume"
=============================================================================
