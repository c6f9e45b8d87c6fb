------------------------------- MODULE MCHealth -------------------------------
(* The two jobs that look after what is stored: one instance of each, only  *)
(* one of which moves in a behaviour.                                      *)
EXTENDS SystemDoctor, SessionRecovery

VARIABLE side

MCGiven == <<{1, 3}, {1}>>
MCLater == {<<1, 2>>}
MCBroken == {<<1, 1>>, <<2, 1>>}
MCCalendar == <<"REGULAR", "CLOSED", "REGULAR">>

Init ==
  /\ DoctorInit /\ RecoveryInit /\ side \in {"doctor", "recovery"}
  /\ side = "doctor" => parentPaused /\ published = [d \in Days |-> 0]
DoctorSide == side = "doctor" /\ DoctorNext /\ UNCHANGED <<side, recoveryVars>>
RecoverySide == side = "recovery" /\ RecoveryNext /\ UNCHANGED <<side, doctorVars>>
Next == DoctorSide \/ RecoverySide

\* A worker that dies is started again, leases and delays run out, a pass goes
\* on and another follows, jobs that run end.
FairSpec ==
  /\ Init /\ [][Next]_<<side, doctorVars, recoveryVars>>
  /\ WF_doctorVars(side = "doctor" /\ LeaseEnds) /\ WF_doctorVars(side = "doctor" /\ RetryDue)
  /\ \A w \in Workers : WF_doctorVars(side = "doctor" /\ Ticking(w))
  /\ WF_recoveryVars(side = "recovery" /\ Passing) /\ WF_recoveryVars(side = "recovery" /\ ChildEnds)
  /\ WF_recoveryVars(side = "recovery" /\ TwoHours)

\* A scan comes to its end and every missing session is settled.
RepairsEnd == ScanEnds /\ SessionsSettle
=============================================================================
