-------------------------- MODULE CollectionWorker --------------------------
(***************************************************************************)
(* Who runs the collection jobs (live-app/worker.py, server.py).           *)
(*                                                                         *)
(* An admin request changes a document and then calls launch_worker, which *)
(* starts a Cloud Run execution unless the worker document is live or a    *)
(* dispatch is claimed.  An execution claims the worker document, runs the *)
(* running jobs it listed, and when it finds nothing to do gives the       *)
(* document back, looks again and launches its successor if needed.  What  *)
(* a run does to a job is CollectionJob; here a job runs on or ends.       *)
(***************************************************************************)
EXTENDS Naturals, FiniteSets

CONSTANTS
    Jobs,        \* collection jobs
    System,      \* the enabled data system or a pending system scan
    Requests,    \* admin requests
    Executions,  \* executions Cloud Run may start
    None,
    \* bounds of the model, not of the code
    MaxWorkerCommands, \* admin requests
    MaxWorkerFaults    \* kills, failed launches and stalled leases

ASSUME ActorsApart == Requests \cap Executions = {} /\ None \notin Requests \cup Executions

VARIABLES
    wanted,   \* jobs in state running, and System while it is on
    worker,   \* control/worker: [exec, live]
    dispatch, \* owner of a live control/dispatch, or None
    exec,     \* [Executions -> [pc, jobs]]
    request,  \* [Requests -> pc]
    warned,   \* a launch failed or an execution was told to stop
    asked, failed

workerVars == <<wanted, worker, dispatch, exec, request, warned, asked, failed>>

Work == Jobs \cup {System}
NoWorker == [exec |-> None, live |-> FALSE]

WorkerInit ==
    /\ wanted = {} /\ worker = NoWorker /\ dispatch = None
    /\ exec = [e \in Executions |-> [pc |-> "absent", jobs |-> {}]]
    /\ request = [q \in Requests |-> "idle"]
    /\ warned = FALSE /\ asked = 0 /\ failed = 0

At(a) == IF a \in Requests THEN request[a] ELSE exec[a].pc
Goto(a, pc) ==
    IF a \in Requests THEN request' = [request EXCEPT ![a] = pc] /\ UNCHANGED exec
    ELSE exec' = [exec EXCEPT ![a].pc = pc] /\ UNCHANGED request
Over(a) == IF a \in Requests THEN "idle" ELSE "absent"

-----------------------------------------------------------------------------
(* launch_worker, called by a request and by an execution that has ended   *)

SeeWorker(a) ==
    /\ At(a) = "launch"
    /\ Goto(a, IF worker.live THEN Over(a) ELSE "claim dispatch")
    /\ UNCHANGED <<wanted, worker, dispatch, warned, asked, failed>>

ClaimDispatch(a) ==
    /\ At(a) = "claim dispatch"
    /\ IF dispatch = None THEN dispatch' = a /\ Goto(a, "post")
       ELSE Goto(a, Over(a)) /\ UNCHANGED dispatch
    /\ UNCHANGED <<wanted, worker, warned, asked, failed>>

\* Cloud Run accepts the call: an execution will start.  A caller that ends
\* with the call leaves its own name free for it.
Post(a, e) ==
    /\ At(a) = "post"
    /\ exec[e].pc = "absent" \/ e = a
    /\ exec' = [x \in Executions |->
                  IF x = e THEN [pc |-> "claim", jobs |-> {}]
                  ELSE IF x = a THEN [exec[x] EXCEPT !.pc = "absent"] ELSE exec[x]]
    /\ request' = [q \in Requests |-> IF q = a THEN "idle" ELSE request[q]]
    /\ UNCHANGED <<wanted, worker, dispatch, warned, asked, failed>>

\* The call fails: the caller drops its own claim and reports it.
PostFails(a) ==
    /\ At(a) = "post" /\ failed < MaxWorkerFaults
    /\ dispatch' = IF dispatch = a THEN None ELSE dispatch
    /\ Goto(a, Over(a))
    /\ warned' = TRUE /\ failed' = failed + 1
    /\ UNCHANGED <<wanted, worker, asked>>

-----------------------------------------------------------------------------
(* Admin requests                                                          *)

\* collection_control(resume), data_system_start, system_doctor_start,
\* collection_recovery_start: the document first, the launch after it.
Start(q, w) ==
    /\ request[q] = "idle" /\ asked < MaxWorkerCommands
    /\ wanted' = wanted \cup {w}
    /\ request' = [request EXCEPT ![q] = "launch"]
    /\ asked' = asked + 1
    /\ UNCHANGED <<worker, dispatch, exec, warned, failed>>

Stop(w) ==
    /\ w \in wanted
    /\ wanted' = wanted \ {w}
    /\ UNCHANGED <<worker, dispatch, exec, request, warned, asked, failed>>

-----------------------------------------------------------------------------
(* run_worker                                                              *)

\* A retry of the same execution takes over the document it left.
Claim(e) ==
    /\ exec[e].pc = "claim"
    /\ IF worker.live /\ worker.exec # e THEN Goto(e, "absent") /\ UNCHANGED worker
       ELSE Goto(e, "list") /\ worker' = [exec |-> e, live |-> TRUE]
    /\ UNCHANGED <<wanted, dispatch, warned, asked, failed>>

Holds(e) == worker.exec = e

\* running_jobs: the listing that is worked on for a minute.
List(e) ==
    /\ exec[e].pc = "list" /\ Holds(e)
    /\ exec' = [exec EXCEPT ![e] = [pc |-> "work", jobs |-> wanted \cap Jobs]]
    /\ UNCHANGED <<wanted, worker, dispatch, request, warned, asked, failed>>

\* One run of a listed job: it goes on, or it has ended or was paused.
RunJob(e, j) ==
    /\ exec[e].pc = "work" /\ Holds(e) /\ j \in exec[e].jobs
    /\ \/ j \in wanted /\ UNCHANGED <<wanted, exec>>
       \/ /\ wanted' = wanted \ {j}
          /\ exec' = [exec EXCEPT ![e].jobs = @ \ {j}]
    /\ UNCHANGED <<worker, dispatch, request, warned, asked, failed>>

ScanAgain(e) ==
    /\ exec[e].pc = "work" /\ Holds(e)
    /\ exec[e].jobs # {} \/ System \in wanted
    /\ Goto(e, "list")
    /\ UNCHANGED <<wanted, worker, dispatch, warned, asked, failed>>

\* Nothing listed and nothing else enabled, or the day is over.
Leave(e) ==
    /\ exec[e].pc = "work" /\ Holds(e)
    /\ exec[e].jobs = {} => System \notin wanted
    /\ Goto(e, "release")
    /\ UNCHANGED <<wanted, worker, dispatch, warned, asked, failed>>

Release(e) ==
    /\ exec[e].pc = "release"
    /\ Goto(e, IF Holds(e) THEN "clear" ELSE "look")
    /\ worker' = IF Holds(e) THEN [worker EXCEPT !.live = FALSE] ELSE worker
    /\ UNCHANGED <<wanted, dispatch, warned, asked, failed>>

\* A plausible error: the execution ends without looking again.
EndsHere(e) ==
    /\ exec[e].pc = "clear"
    /\ dispatch' = None
    /\ Goto(e, "absent")
    /\ UNCHANGED <<wanted, worker, warned, asked, failed>>

ClearDispatch(e) ==
    /\ exec[e].pc = "clear"
    /\ dispatch' = None
    /\ Goto(e, "look")
    /\ UNCHANGED <<wanted, worker, warned, asked, failed>>

LookAgain(e) ==
    /\ exec[e].pc = "look"
    /\ Goto(e, IF wanted = {} THEN "absent" ELSE "launch")
    /\ UNCHANGED <<wanted, worker, dispatch, warned, asked, failed>>

\* Another execution has the document: the next heartbeat raises, and the
\* retry Cloud Run starts finds the document taken.
LeaseLost(e) ==
    /\ exec[e].pc \in {"list", "work"} /\ ~Holds(e)
    /\ Goto(e, "claim")
    /\ UNCHANGED <<wanted, worker, dispatch, warned, asked, failed>>

-----------------------------------------------------------------------------
(* Environment                                                             *)

Started(e) == exec[e].pc \in {"list", "work", "release", "clear", "look"}

\* A killed or failed execution is retried by Cloud Run under its own name.
Kill(e) ==
    /\ Started(e) /\ failed < MaxWorkerFaults
    /\ Goto(e, "claim")
    /\ failed' = failed + 1
    /\ UNCHANGED <<wanted, worker, dispatch, warned, asked>>

\* SIGTERM: the document and the dispatch are given back, then the process
\* exits with success and launches nothing.
Terminate(e) ==
    /\ exec[e].pc \in {"list", "work"} /\ Holds(e) /\ failed < MaxWorkerFaults
    /\ worker' = [worker EXCEPT !.live = FALSE] /\ dispatch' = None
    /\ Goto(e, "absent")
    /\ warned' = TRUE /\ failed' = failed + 1
    /\ UNCHANGED <<wanted, asked>>

\* 600 s without a heartbeat; a live execution beats every 30 s.
ExpireWorker ==
    /\ worker.live
    /\ \/ ~Started(worker.exec) /\ UNCHANGED failed
       \/ Started(worker.exec) /\ failed < MaxWorkerFaults /\ failed' = failed + 1
    /\ worker' = [worker EXCEPT !.live = FALSE]
    /\ UNCHANGED <<wanted, dispatch, exec, request, warned, asked>>

ExpireDispatch ==
    /\ dispatch # None /\ dispatch' = None
    /\ UNCHANGED <<wanted, worker, exec, request, warned, asked, failed>>

\* The scheduler that starts the worker job every five minutes.
Watchdog(e) ==
    /\ \A x \in Executions : exec[x].pc = "absent"
    /\ Goto(e, "claim")
    /\ UNCHANGED <<wanted, worker, dispatch, warned, asked, failed>>

Actors == Requests \cup Executions

Execute(e) ==
    \/ Claim(e) \/ List(e) \/ ScanAgain(e) \/ Leave(e) \/ Release(e)
    \/ ClearDispatch(e) \/ LookAgain(e) \/ LeaseLost(e)
    \/ \E j \in Jobs : RunJob(e, j)
Launch(a) == SeeWorker(a) \/ ClaimDispatch(a) \/ \E e \in Executions : Post(a, e)

WorkerNext ==
    \/ \E e \in Executions : Execute(e) \/ Kill(e) \/ Terminate(e) \/ Watchdog(e)
    \/ \E a \in Actors : Launch(a) \/ PostFails(a)
    \/ \E q \in Requests, w \in Work : Start(q, w)
    \/ \E w \in Work : Stop(w)
    \/ ExpireWorker \/ ExpireDispatch

WorkerSpec == WorkerInit /\ [][WorkerNext]_workerVars

-----------------------------------------------------------------------------
(* Properties                                                              *)

Quiet == /\ \A e \in Executions : exec[e].pc = "absent"
         /\ \A q \in Requests : request[q] = "idle"

\* A job that was resumed, or a system that was started, is never left with
\* nobody to run it: not when the last execution is just giving up, not when
\* two requests share one dispatch, not after a kill.  (A failed launch is
\* answered with an error, and SIGTERM leaves the work to the watchdog.)
NoWorkStranded == Quiet /\ ~warned => wanted = {}

Served(j) == \E e \in Executions : exec[e].pc = "work" /\ Holds(e) /\ j \in exec[e].jobs

\* With the watchdog every running job is in the hands of the execution that
\* holds the worker document again and again, whatever stops or stalls.
JobServed == \A j \in Jobs : j \in wanted ~> (Served(j) \/ j \notin wanted)
=============================================================================
