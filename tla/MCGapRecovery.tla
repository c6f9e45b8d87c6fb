--------------------------- MODULE MCGapRecovery ---------------------------
(* The worker and the scanner that its loop calls: a recent-history source  *)
(* with two results and another with one, and beside it two executions.     *)
(* One instance of each, only one of which moves in a behaviour.            *)
EXTENDS GapRecovery, CollectionWorker

VARIABLE side

K == {<<1, 1>>, <<1, 2>>, <<2, 1>>}
Classes == [e \in K |-> IF e = <<1, 1>> THEN "plain" ELSE "slices"]

JobsInit == Init /\ WorkerInit /\ side \in {"worker", "scanner"}
WorkerSide == side = "worker" /\ WorkerNext /\ UNCHANGED <<side, vars>>
ScannerSide == side = "scanner" /\ Next /\ UNCHANGED <<side, workerVars>>
JobsNext == WorkerSide \/ ScannerSide

\* Each execution and each launch goes on, leases end, the watchdog starts a
\* worker; a round visits every job and the next listing.  The scanner's tick is
\* called again and again, children run, a token and a resumption come.
W(A) == side = "worker" /\ A
S(A) == side = "scanner" /\ A
JobsSpec ==
  /\ JobsInit /\ [][JobsNext]_<<side, vars, workerVars>>
  /\ \A e \in Executions :
       /\ WF_workerVars(W(Claim(e))) /\ WF_workerVars(W(List(e)))
       /\ WF_workerVars(W(Release(e))) /\ WF_workerVars(W(ClearDispatch(e)))
       /\ WF_workerVars(W(LookAgain(e))) /\ WF_workerVars(W(LeaseLost(e)))
       /\ WF_workerVars(W(Leave(e))) /\ WF_workerVars(W(Watchdog(e)))
       /\ SF_workerVars(W(ScanAgain(e)))
       /\ \A j \in Jobs : SF_workerVars(W(RunJob(e, j)))
  /\ \A a \in Actors : WF_workerVars(W(Launch(a)))
  /\ WF_workerVars(W(ExpireWorker)) /\ WF_workerVars(W(ExpireDispatch))
  /\ WF_vars(S(tick)) /\ WF_vars(S(Due))
  /\ \A e \in Entries : WF_vars(S(RunChild(e))) /\ WF_vars(S(TokenSaved(e)))
  /\ \A s \in Sources : WF_vars(S(ResumeSource(s)))

\* Every gap is retried, every job served, each on its side.
EveryoneServed == EveryGapRetried /\ JobServed
=============================================================================
