---------------------------- MODULE Jobs_proofs ----------------------------
(***************************************************************************)
(* Safety of what runs the collection jobs, what queues their retries and   *)
(* what records the live feed beside them, for any number of jobs,          *)
(* requests, executions, results, frames and faults.                       *)
(*                                                                         *)
(* CollectionWorker: no work that was asked for is left with nobody to run *)
(* it.  WorkInv is the inductive invariant: a worker document that says it *)
(* is live belongs to an execution at work or about to restart itself, and *)
(* a dispatch that is claimed is in use, has started an execution, or will *)
(* be cleared.                                                             *)
(*                                                                         *)
(* GapRecovery: the scanner never sets more than MaxActive children to work *)
(* through date slices, although it counts them in a listing that is old   *)
(* by the time it resumes one (CountInv).                                  *)
(*                                                                         *)
(* Recorder: every frame of the live feed is accounted for (RecorderInv).   *)
(***************************************************************************)
EXTENDS CollectionWorker, GapRecovery, Recorder, FiniteSetTheorems, WellFoundedInduction, TLAPS

Resting == {"idle", "absent"}
Launching == {"launch", "claim dispatch", "post"}
Working == {"list", "work", "release"}
RequestPcs == {"idle"} \cup Launching
ExecutionPcs == {"absent", "claim", "clear", "look"} \cup Working \cup Launching
PcsOf(a) == IF a \in Requests THEN RequestPcs ELSE ExecutionPcs

WorkerTypes ==
    /\ wanted \subseteq Work
    /\ worker \in [exec : Executions \cup {None}, live : BOOLEAN]
    /\ dispatch \in Actors \cup {None}
    /\ exec \in [Executions -> [pc : ExecutionPcs, jobs : SUBSET Jobs]]
    /\ request \in [Requests -> RequestPcs]

PcOf(req, ex, a) == IF a \in Requests THEN req[a] ELSE ex[a].pc

(* A live worker document belongs to an execution that is at work, or that  *)
(* Cloud Run starts again.                                                 *)
Occupied == worker.live => worker.exec \in Executions /\ PcOf(request, exec, worker.exec) \in {"claim"} \cup Working

(* A claimed dispatch is being used, has started an execution, or will be    *)
(* cleared by the execution that holds the worker document.                *)
Dispatched ==
    dispatch # None /\ ~warned =>
        \/ \E a \in Actors : PcOf(request, exec, a) \in {"post", "claim"}
        \/ worker.exec \in Executions /\ PcOf(request, exec, worker.exec) \in {"clear"} \cup Working

SomeoneAwake == wanted # {} /\ ~warned => \E a \in Actors : PcOf(request, exec, a) \notin Resting

WorkInv == WorkerTypes /\ Occupied /\ Dispatched /\ SomeoneAwake

LEMMA PcsTyped ==
    ASSUME WorkerTypes, NEW a \in Actors
    PROVE  PcOf(request, exec, a) \in PcsOf(a) /\ At(a) = PcOf(request, exec, a)
BY DEF WorkerTypes, PcOf, PcsOf, At, Actors

\* Where an actor goes; nobody else moves.
Moved(a, pc) ==
    /\ request' \in [Requests -> RequestPcs]
    /\ exec' \in [Executions -> [pc : ExecutionPcs, jobs : SUBSET Jobs]]
    /\ \A x \in Actors : PcOf(request', exec', x) = IF x = a THEN pc ELSE PcOf(request, exec, x)

LEMMA ExecutionMoves ==
    ASSUME NEW f \in [Executions -> [pc : ExecutionPcs, jobs : SUBSET Jobs]], NEW a \in Executions, NEW pc \in ExecutionPcs
    PROVE  LET g == [f EXCEPT ![a].pc = pc]
           IN /\ g \in [Executions -> [pc : ExecutionPcs, jobs : SUBSET Jobs]]
              /\ \A x \in Executions : g[x].pc = IF x = a THEN pc ELSE f[x].pc
<1> DEFINE r == [f[a] EXCEPT !.pc = pc]
<1>1. f[a] \in [pc : ExecutionPcs, jobs : SUBSET Jobs]
    OBVIOUS
<1>2. r \in [pc : ExecutionPcs, jobs : SUBSET Jobs] /\ r.pc = pc
    BY <1>1
<1>3. [f EXCEPT ![a].pc = pc] = [f EXCEPT ![a] = r]
    OBVIOUS
<1> HIDE DEF r
<1> QED
    BY <1>2, <1>3

LEMMA GotoMoves ==
    ASSUME WorkerTypes, NEW a \in Actors, NEW pc \in PcsOf(a), Goto(a, pc)
    PROVE  Moved(a, pc)
<1>1. CASE a \in Requests
    BY <1>1, ActorsApart DEF WorkerTypes, Goto, Moved, PcOf, PcsOf, Actors
<1>2. CASE a \in Executions
    <2>1. pc \in ExecutionPcs /\ a \notin Requests
        BY <1>2, ActorsApart DEF PcsOf
    <2>2. exec' = [exec EXCEPT ![a].pc = pc] /\ request' = request
        BY <2>1 DEF Goto
    <2>3. /\ exec' \in [Executions -> [pc : ExecutionPcs, jobs : SUBSET Jobs]]
          /\ \A x \in Executions : exec'[x].pc = IF x = a THEN pc ELSE exec[x].pc
        BY <1>2, <2>1, <2>2, ExecutionMoves DEF WorkerTypes
    <2>4. ASSUME NEW x \in Actors
          PROVE  PcOf(request', exec', x) = IF x = a THEN pc ELSE PcOf(request, exec, x)
        BY <1>2, <2>1, <2>2, <2>3, <2>4 DEF PcOf, Actors
    <2> QED
        BY <2>2, <2>3, <2>4 DEF Moved, WorkerTypes
<1> QED
    BY <1>1, <1>2 DEF Actors

LEMMA FreedWorker ==
    ASSUME WorkerTypes
    PROVE  LET freed == [worker EXCEPT !.live = FALSE]
           IN freed \in [exec : Executions \cup {None}, live : BOOLEAN] /\ ~freed.live /\ freed.exec = worker.exec
BY DEF WorkerTypes

LEMMA WorkInit == WorkerInit => WorkInv
<1> SUFFICES ASSUME WorkerInit PROVE WorkInv
    OBVIOUS
<1>1. WorkerTypes
    BY DEF WorkerInit, NoWorker, WorkerTypes, ExecutionPcs, RequestPcs
<1> QED
    BY <1>1 DEF WorkerInit, NoWorker, WorkInv, Occupied, Dispatched, SomeoneAwake

LEMMA LaunchStep ==
    ASSUME WorkInv, NEW a \in Actors, Launch(a) \/ PostFails(a)
    PROVE  WorkInv'
<1> USE ActorsApart DEF WorkInv, Actors
<1>1. CASE SeeWorker(a)
    <2> USE DEF SeeWorker
    <2>1. PICK pc \in PcsOf(a) : Goto(a, pc) /\ IF worker.live THEN pc \in Resting ELSE pc = "claim dispatch"
        BY <1>1, PcsTyped DEF Over, Holds, Launching, Working, Resting, PcsOf, RequestPcs, ExecutionPcs
    <2>0. PcOf(request, exec, a) = At(a)
        BY PcsTyped DEF PcOf
    <2>2. Moved(a, pc)
        BY <2>1, GotoMoves
    <2>3. WorkerTypes'
        BY <1>1, <2>2 DEF Moved, WorkerTypes, NoWorker
    <2>4. Occupied'
        BY <1>1, <2>0, <2>1, <2>2, <2>3 DEF Moved, Occupied, Holds, Launching, Working, Resting, PcsOf, RequestPcs, ExecutionPcs
    <2>5. Dispatched'
        BY <1>1, <2>0, <2>1, <2>2, <2>3 DEF Moved, Occupied, Dispatched, Holds, Launching, Working, Resting, PcsOf, RequestPcs, ExecutionPcs
    <2>6. SomeoneAwake'
        BY <1>1, <2>0, <2>1, <2>2, <2>3 DEF Moved, Occupied, Dispatched, SomeoneAwake, Holds, Launching, Working, Resting, PcsOf, RequestPcs, ExecutionPcs
    <2> QED
        BY <2>3, <2>4, <2>5, <2>6
<1>2. CASE ClaimDispatch(a)
    <2> USE DEF ClaimDispatch
    <2>1. PICK pc \in PcsOf(a) : Goto(a, pc) /\ IF dispatch = None THEN pc = "post" ELSE pc \in Resting
        BY <1>2, PcsTyped DEF Over, Holds, Launching, Working, Resting, PcsOf, RequestPcs, ExecutionPcs
    <2>0. PcOf(request, exec, a) = At(a)
        BY PcsTyped DEF PcOf
    <2>2. Moved(a, pc)
        BY <2>1, GotoMoves
    <2>3. WorkerTypes'
        BY <1>2, <2>2 DEF Moved, WorkerTypes, NoWorker
    <2>4. Occupied'
        BY <1>2, <2>0, <2>1, <2>2, <2>3 DEF Moved, Occupied, Holds, Launching, Working, Resting, PcsOf, RequestPcs, ExecutionPcs
    <2>5. Dispatched'
        BY <1>2, <2>0, <2>1, <2>2, <2>3 DEF Moved, Occupied, Dispatched, Holds, Launching, Working, Resting, PcsOf, RequestPcs, ExecutionPcs
    <2>6. SomeoneAwake'
        BY <1>2, <2>0, <2>1, <2>2, <2>3 DEF Moved, Occupied, Dispatched, SomeoneAwake, Holds, Launching, Working, Resting, PcsOf, RequestPcs, ExecutionPcs
    <2> QED
        BY <2>3, <2>4, <2>5, <2>6
<1>3. CASE PostFails(a)
    <2> USE DEF PostFails
    <2>1. PICK pc \in PcsOf(a) : Goto(a, pc) /\ pc \in Resting
        BY <1>3, PcsTyped DEF Over, Holds, Launching, Working, Resting, PcsOf, RequestPcs, ExecutionPcs
    <2>0. PcOf(request, exec, a) = At(a)
        BY PcsTyped DEF PcOf
    <2>2. Moved(a, pc)
        BY <2>1, GotoMoves
    <2>3. WorkerTypes'
        BY <1>3, <2>2 DEF Moved, WorkerTypes, NoWorker
    <2>4. Occupied'
        BY <1>3, <2>0, <2>1, <2>2, <2>3 DEF Moved, Occupied, Holds, Launching, Working, Resting, PcsOf, RequestPcs, ExecutionPcs
    <2>5. Dispatched'
        BY <1>3, <2>0, <2>1, <2>2, <2>3 DEF Moved, Occupied, Dispatched, Holds, Launching, Working, Resting, PcsOf, RequestPcs, ExecutionPcs
    <2>6. SomeoneAwake'
        BY <1>3, <2>0, <2>1, <2>2, <2>3 DEF Moved, Occupied, Dispatched, SomeoneAwake, Holds, Launching, Working, Resting, PcsOf, RequestPcs, ExecutionPcs
    <2> QED
        BY <2>3, <2>4, <2>5, <2>6
<1>4. ASSUME NEW e \in Executions, Post(a, e) PROVE WorkInv'
    <2> USE DEF Post
    <2>1. /\ request' \in [Requests -> RequestPcs]
          /\ exec' \in [Executions -> [pc : ExecutionPcs, jobs : SUBSET Jobs]]
        BY <1>4 DEF WorkerTypes, RequestPcs, ExecutionPcs
    <2>2. ASSUME NEW x \in Actors
          PROVE  PcOf(request', exec', x) = IF x = e THEN "claim" ELSE IF x = a THEN Over(a) ELSE PcOf(request, exec, x)
        <3>1. x \in Executions => exec'[x] = IF x = e THEN [pc |-> "claim", jobs |-> {}]
                         ELSE IF x = a THEN [exec[x] EXCEPT !.pc = "absent"] ELSE exec[x]
            BY <1>4, <2>2
        <3>2. CASE x \in Requests
            BY <1>4, <3>2 DEF PcOf, Over
        <3>3. CASE x \in Executions
            BY <1>4, <3>1, <3>3 DEF WorkerTypes, PcOf, Over
        <3> QED
            BY <3>2, <3>3
    <2>3. WorkerTypes'
        BY <1>4, <2>1 DEF WorkerTypes
    <2>4. PcOf(request, exec, a) = "post" /\ (PcOf(request, exec, e) = "absent" \/ e = a)
        BY <1>4, PcsTyped DEF PcOf
    <2>5. Occupied'
        BY <1>4, <2>2, <2>4 DEF Occupied, Launching, Working, Resting, PcsOf, RequestPcs, ExecutionPcs
    <2>6. Dispatched' /\ SomeoneAwake'
        BY <1>4, <2>2 DEF Dispatched, SomeoneAwake, Launching, Working, Resting, PcsOf, RequestPcs, ExecutionPcs
    <2> QED
        BY <2>3, <2>5, <2>6
<1> QED
    BY <1>1, <1>2, <1>3, <1>4 DEF Launch

LEMMA ExecutionStep ==
    ASSUME WorkInv, NEW e \in Executions, Execute(e) \/ Kill(e) \/ Terminate(e) \/ Watchdog(e)
    PROVE  WorkInv'
<1> USE ActorsApart DEF WorkInv, Actors
<1>1. CASE Claim(e)
    <2> USE DEF Claim
    <2>1. PICK pc \in PcsOf(e) : Goto(e, pc) /\ pc = IF worker.live /\ worker.exec # e THEN "absent" ELSE "list"
        BY <1>1, PcsTyped DEF Over, Holds, Launching, Working, Resting, PcsOf, RequestPcs, ExecutionPcs
    <2>0. PcOf(request, exec, e) = exec[e].pc
        BY PcsTyped DEF PcOf
    <2>2. Moved(e, pc)
        BY <2>1, GotoMoves
    <2>7. worker' \in [exec : Executions \cup {None}, live : BOOLEAN]
          /\ UNCHANGED <<wanted, dispatch, warned>>
          /\ IF pc = "absent" THEN worker' = worker /\ worker.live /\ worker.exec # e ELSE worker'.exec = e
        <3>1. CASE worker.live /\ worker.exec # e
            BY <1>1, <2>1, <3>1 DEF WorkerTypes
        <3>2. CASE ~(worker.live /\ worker.exec # e)
            <4>1. worker' = [exec |-> e, live |-> TRUE] /\ pc = "list"
                BY <1>1, <2>1, <3>2
            <4> QED
                BY <1>1, <4>1
        <3> QED
            BY <3>1, <3>2
    <2>3. WorkerTypes'
        BY <1>1, <2>2, <2>7 DEF Moved, WorkerTypes, NoWorker
    <2>4. Occupied'
        BY <2>0, <2>1, <2>2, <2>3, <2>7, <1>1 DEF Moved, Occupied, Holds, Launching, Working, Resting, PcsOf, RequestPcs, ExecutionPcs
    <2>5. Dispatched'
        BY <2>0, <2>1, <2>2, <2>3, <2>7, <1>1 DEF Moved, Occupied, Dispatched, Holds, Launching, Working, Resting, PcsOf, RequestPcs, ExecutionPcs
    <2>6. SomeoneAwake'
        BY <2>0, <2>1, <2>2, <2>3, <2>7, <1>1 DEF Moved, Occupied, Dispatched, SomeoneAwake, Holds, Launching, Working, Resting, PcsOf, RequestPcs, ExecutionPcs
    <2> QED
        BY <2>3, <2>4, <2>5, <2>6
<1>2. CASE ScanAgain(e)
    <2> USE DEF ScanAgain
    <2>1. PICK pc \in PcsOf(e) : Goto(e, pc) /\ pc = "list"
        BY <1>2, PcsTyped DEF Over, Holds, Launching, Working, Resting, PcsOf, RequestPcs, ExecutionPcs
    <2>0. PcOf(request, exec, e) = exec[e].pc
        BY PcsTyped DEF PcOf
    <2>2. Moved(e, pc)
        BY <2>1, GotoMoves
    <2>3. WorkerTypes'
        BY <1>2, <2>2 DEF Moved, WorkerTypes, NoWorker
    <2>4. Occupied'
        BY <1>2, <2>0, <2>1, <2>2, <2>3 DEF Moved, Occupied, Holds, Launching, Working, Resting, PcsOf, RequestPcs, ExecutionPcs
    <2>5. Dispatched'
        BY <1>2, <2>0, <2>1, <2>2, <2>3 DEF Moved, Occupied, Dispatched, Holds, Launching, Working, Resting, PcsOf, RequestPcs, ExecutionPcs
    <2>6. SomeoneAwake'
        BY <1>2, <2>0, <2>1, <2>2, <2>3 DEF Moved, Occupied, Dispatched, SomeoneAwake, Holds, Launching, Working, Resting, PcsOf, RequestPcs, ExecutionPcs
    <2> QED
        BY <2>3, <2>4, <2>5, <2>6
<1>3. CASE Leave(e)
    <2> USE DEF Leave
    <2>1. PICK pc \in PcsOf(e) : Goto(e, pc) /\ pc = "release"
        BY <1>3, PcsTyped DEF Over, Holds, Launching, Working, Resting, PcsOf, RequestPcs, ExecutionPcs
    <2>0. PcOf(request, exec, e) = exec[e].pc
        BY PcsTyped DEF PcOf
    <2>2. Moved(e, pc)
        BY <2>1, GotoMoves
    <2>3. WorkerTypes'
        BY <1>3, <2>2 DEF Moved, WorkerTypes, NoWorker
    <2>4. Occupied'
        BY <1>3, <2>0, <2>1, <2>2, <2>3 DEF Moved, Occupied, Holds, Launching, Working, Resting, PcsOf, RequestPcs, ExecutionPcs
    <2>5. Dispatched'
        BY <1>3, <2>0, <2>1, <2>2, <2>3 DEF Moved, Occupied, Dispatched, Holds, Launching, Working, Resting, PcsOf, RequestPcs, ExecutionPcs
    <2>6. SomeoneAwake'
        BY <1>3, <2>0, <2>1, <2>2, <2>3 DEF Moved, Occupied, Dispatched, SomeoneAwake, Holds, Launching, Working, Resting, PcsOf, RequestPcs, ExecutionPcs
    <2> QED
        BY <2>3, <2>4, <2>5, <2>6
<1>4. CASE Release(e)
    <2> USE DEF Release
    <2>1. PICK pc \in PcsOf(e) : Goto(e, pc) /\ pc = IF worker.exec = e THEN "clear" ELSE "look"
        BY <1>4, PcsTyped DEF Over, Holds, Launching, Working, Resting, PcsOf, RequestPcs, ExecutionPcs
    <2>0. PcOf(request, exec, e) = exec[e].pc
        BY PcsTyped DEF PcOf
    <2>2. Moved(e, pc)
        BY <2>1, GotoMoves
    <2>7. worker' \in [exec : Executions \cup {None}, live : BOOLEAN]
          /\ UNCHANGED <<wanted, dispatch, warned>> /\ worker'.exec = worker.exec
          /\ IF worker.exec = e THEN ~worker'.live ELSE worker'.live = worker.live
        BY <1>4, FreedWorker DEF WorkerTypes, Holds
    <2>3. WorkerTypes'
        BY <1>4, <2>2, <2>7 DEF Moved, WorkerTypes, NoWorker
    <2>4. Occupied'
        BY <2>0, <2>1, <2>2, <2>3, <2>7, <1>4 DEF Moved, Occupied, Holds, Launching, Working, Resting, PcsOf, RequestPcs, ExecutionPcs
    <2>5. Dispatched'
        <3>1. CASE worker.exec = e
            BY <2>1, <2>2, <2>7, <3>1 DEF Moved, Dispatched, Working
        <3>2. CASE worker.exec # e
            <4>1. PcOf(request, exec, e) = "release"
                BY <1>4, <2>0
            <4> QED
                BY <2>2, <2>7, <3>2, <4>1 DEF Moved, Dispatched
        <3> QED
            BY <3>1, <3>2
    <2>6. SomeoneAwake'
        BY <2>0, <2>1, <2>2, <2>3, <2>7, <1>4 DEF Moved, Occupied, Dispatched, SomeoneAwake, Holds, Launching, Working, Resting, PcsOf, RequestPcs, ExecutionPcs
    <2> QED
        BY <2>3, <2>4, <2>5, <2>6
<1>5. CASE ClearDispatch(e)
    <2> USE DEF ClearDispatch
    <2>1. PICK pc \in PcsOf(e) : Goto(e, pc) /\ pc = "look"
        BY <1>5, PcsTyped DEF Over, Holds, Launching, Working, Resting, PcsOf, RequestPcs, ExecutionPcs
    <2>0. PcOf(request, exec, e) = exec[e].pc
        BY PcsTyped DEF PcOf
    <2>2. Moved(e, pc)
        BY <2>1, GotoMoves
    <2>3. WorkerTypes'
        BY <1>5, <2>2 DEF Moved, WorkerTypes, NoWorker
    <2>4. Occupied'
        BY <1>5, <2>0, <2>1, <2>2, <2>3 DEF Moved, Occupied, Holds, Launching, Working, Resting, PcsOf, RequestPcs, ExecutionPcs
    <2>5. Dispatched'
        BY <1>5, <2>0, <2>1, <2>2, <2>3 DEF Moved, Occupied, Dispatched, Holds, Launching, Working, Resting, PcsOf, RequestPcs, ExecutionPcs
    <2>6. SomeoneAwake'
        BY <1>5, <2>0, <2>1, <2>2, <2>3 DEF Moved, Occupied, Dispatched, SomeoneAwake, Holds, Launching, Working, Resting, PcsOf, RequestPcs, ExecutionPcs
    <2> QED
        BY <2>3, <2>4, <2>5, <2>6
<1>6. CASE LookAgain(e)
    <2> USE DEF LookAgain
    <2>1. PICK pc \in PcsOf(e) : Goto(e, pc) /\ pc = IF wanted = {} THEN "absent" ELSE "launch"
        BY <1>6, PcsTyped DEF Over, Holds, Launching, Working, Resting, PcsOf, RequestPcs, ExecutionPcs
    <2>0. PcOf(request, exec, e) = exec[e].pc
        BY PcsTyped DEF PcOf
    <2>2. Moved(e, pc)
        BY <2>1, GotoMoves
    <2>3. WorkerTypes'
        BY <1>6, <2>2 DEF Moved, WorkerTypes, NoWorker
    <2>4. Occupied'
        BY <1>6, <2>0, <2>1, <2>2, <2>3 DEF Moved, Occupied, Holds, Launching, Working, Resting, PcsOf, RequestPcs, ExecutionPcs
    <2>5. Dispatched'
        BY <1>6, <2>0, <2>1, <2>2, <2>3 DEF Moved, Occupied, Dispatched, Holds, Launching, Working, Resting, PcsOf, RequestPcs, ExecutionPcs
    <2>6. SomeoneAwake'
        BY <1>6, <2>0, <2>1, <2>2, <2>3 DEF Moved, Occupied, Dispatched, SomeoneAwake, Holds, Launching, Working, Resting, PcsOf, RequestPcs, ExecutionPcs
    <2> QED
        BY <2>3, <2>4, <2>5, <2>6
<1>7. CASE LeaseLost(e)
    <2> USE DEF LeaseLost
    <2>1. PICK pc \in PcsOf(e) : Goto(e, pc) /\ pc = "claim"
        BY <1>7, PcsTyped DEF Over, Holds, Launching, Working, Resting, PcsOf, RequestPcs, ExecutionPcs
    <2>0. PcOf(request, exec, e) = exec[e].pc
        BY PcsTyped DEF PcOf
    <2>2. Moved(e, pc)
        BY <2>1, GotoMoves
    <2>3. WorkerTypes'
        BY <1>7, <2>2 DEF Moved, WorkerTypes, NoWorker
    <2>4. Occupied'
        BY <1>7, <2>0, <2>1, <2>2, <2>3 DEF Moved, Occupied, Holds, Launching, Working, Resting, PcsOf, RequestPcs, ExecutionPcs
    <2>5. Dispatched'
        BY <1>7, <2>0, <2>1, <2>2, <2>3 DEF Moved, Occupied, Dispatched, Holds, Launching, Working, Resting, PcsOf, RequestPcs, ExecutionPcs
    <2>6. SomeoneAwake'
        BY <1>7, <2>0, <2>1, <2>2, <2>3 DEF Moved, Occupied, Dispatched, SomeoneAwake, Holds, Launching, Working, Resting, PcsOf, RequestPcs, ExecutionPcs
    <2> QED
        BY <2>3, <2>4, <2>5, <2>6
<1>8. CASE Kill(e)
    <2> USE DEF Kill, Started
    <2>1. PICK pc \in PcsOf(e) : Goto(e, pc) /\ pc = "claim"
        BY <1>8, PcsTyped DEF Over, Holds, Launching, Working, Resting, PcsOf, RequestPcs, ExecutionPcs
    <2>0. PcOf(request, exec, e) = exec[e].pc
        BY PcsTyped DEF PcOf
    <2>2. Moved(e, pc)
        BY <2>1, GotoMoves
    <2>3. WorkerTypes'
        BY <1>8, <2>2 DEF Moved, WorkerTypes, NoWorker
    <2>4. Occupied'
        BY <1>8, <2>0, <2>1, <2>2, <2>3 DEF Moved, Occupied, Holds, Launching, Working, Resting, PcsOf, RequestPcs, ExecutionPcs
    <2>5. Dispatched'
        BY <1>8, <2>0, <2>1, <2>2, <2>3 DEF Moved, Occupied, Dispatched, Holds, Launching, Working, Resting, PcsOf, RequestPcs, ExecutionPcs
    <2>6. SomeoneAwake'
        BY <1>8, <2>0, <2>1, <2>2, <2>3 DEF Moved, Occupied, Dispatched, SomeoneAwake, Holds, Launching, Working, Resting, PcsOf, RequestPcs, ExecutionPcs
    <2> QED
        BY <2>3, <2>4, <2>5, <2>6
<1>9. CASE Terminate(e)
    <2> USE DEF Terminate
    <2>1. PICK pc \in PcsOf(e) : Goto(e, pc) /\ pc = "absent"
        BY <1>9, PcsTyped DEF Over, Holds, Launching, Working, Resting, PcsOf, RequestPcs, ExecutionPcs
    <2>0. PcOf(request, exec, e) = exec[e].pc
        BY PcsTyped DEF PcOf
    <2>2. Moved(e, pc)
        BY <2>1, GotoMoves
    <2>7. worker' \in [exec : Executions \cup {None}, live : BOOLEAN]
          /\ ~worker'.live /\ dispatch' = None /\ warned' = TRUE
        BY <1>9, FreedWorker DEF WorkerTypes
    <2>3. WorkerTypes'
        BY <1>9, <2>2, <2>7 DEF Moved, WorkerTypes, NoWorker
    <2>4. Occupied'
        BY <2>0, <2>1, <2>2, <2>3, <2>7, <1>9 DEF Moved, Occupied, Holds, Launching, Working, Resting, PcsOf, RequestPcs, ExecutionPcs
    <2>5. Dispatched'
        BY <2>0, <2>1, <2>2, <2>3, <2>7, <1>9 DEF Moved, Occupied, Dispatched, Holds, Launching, Working, Resting, PcsOf, RequestPcs, ExecutionPcs
    <2>6. SomeoneAwake'
        BY <2>0, <2>1, <2>2, <2>3, <2>7, <1>9 DEF Moved, Occupied, Dispatched, SomeoneAwake, Holds, Launching, Working, Resting, PcsOf, RequestPcs, ExecutionPcs
    <2> QED
        BY <2>3, <2>4, <2>5, <2>6
<1>10. CASE Watchdog(e)
    <2> USE DEF Watchdog
    <2>1. PICK pc \in PcsOf(e) : Goto(e, pc) /\ pc = "claim"
        BY <1>10, PcsTyped DEF Over, Holds, Launching, Working, Resting, PcsOf, RequestPcs, ExecutionPcs
    <2>0. PcOf(request, exec, e) = exec[e].pc
        BY PcsTyped DEF PcOf
    <2>2. Moved(e, pc)
        BY <2>1, GotoMoves
    <2>3. WorkerTypes'
        BY <1>10, <2>2 DEF Moved, WorkerTypes, NoWorker
    <2>4. Occupied'
        BY <1>10, <2>0, <2>1, <2>2, <2>3 DEF Moved, Occupied, Holds, Launching, Working, Resting, PcsOf, RequestPcs, ExecutionPcs
    <2>5. Dispatched'
        BY <1>10, <2>0, <2>1, <2>2, <2>3 DEF Moved, Occupied, Dispatched, Holds, Launching, Working, Resting, PcsOf, RequestPcs, ExecutionPcs
    <2>6. SomeoneAwake'
        BY <1>10, <2>0, <2>1, <2>2, <2>3 DEF Moved, Occupied, Dispatched, SomeoneAwake, Holds, Launching, Working, Resting, PcsOf, RequestPcs, ExecutionPcs
    <2> QED
        BY <2>3, <2>4, <2>5, <2>6
<1>11. ASSUME List(e) \/ \E j \in Jobs : RunJob(e, j) PROVE WorkInv'
    <2>1. PICK pc \in {"list", "work"} : PcOf(request, exec, e) = pc
        BY <1>11, PcsTyped DEF List, RunJob, PcOf
    <2>2. Moved(e, "work") /\ wanted' \subseteq wanted
        <3>1. PICK jobs \in SUBSET Jobs : exec' = [exec EXCEPT ![e] = [pc |-> "work", jobs |-> jobs]]
            <4>1. CASE List(e)
                BY <4>1 DEF List
            <4>2. CASE \E j \in Jobs : RunJob(e, j)
                <5>1. exec[e] = [pc |-> "work", jobs |-> exec[e].jobs] /\ exec[e].jobs \in SUBSET Jobs
                    BY <4>2 DEF RunJob, WorkerTypes
                <5>2. PICK j \in Jobs : exec' = exec \/ exec' = [exec EXCEPT ![e].jobs = exec[e].jobs \ {j}]
                    BY <4>2 DEF RunJob
                <5>3. [exec EXCEPT ![e].jobs = exec[e].jobs \ {j}] = [exec EXCEPT ![e] = [pc |-> "work", jobs |-> exec[e].jobs \ {j}]]
                    <6>1. [exec[e] EXCEPT !.jobs = exec[e].jobs \ {j}] = [pc |-> "work", jobs |-> exec[e].jobs \ {j}]
                        BY <5>1
                    <6> QED
                        BY <6>1
                <5>4. exec = [exec EXCEPT ![e] = [pc |-> "work", jobs |-> exec[e].jobs]]
                    BY <5>1 DEF WorkerTypes
                <5> QED
                    BY <5>1, <5>2, <5>3, <5>4
            <4> QED
                BY <1>11, <4>1, <4>2
        <3>2. [pc |-> "work", jobs |-> jobs] \in [pc : ExecutionPcs, jobs : SUBSET Jobs]
            BY DEF ExecutionPcs, Working
        <3>3. request' = request /\ wanted' \subseteq wanted
            BY <1>11 DEF List, RunJob
        <3> QED
            BY <3>1, <3>2, <3>3 DEF WorkerTypes, Moved, PcOf
    <2>3. WorkerTypes' /\ UNCHANGED <<worker, dispatch, warned>>
        BY <1>11, <2>2 DEF List, RunJob, WorkerTypes, Moved
    <2>4. Occupied' /\ Dispatched' /\ SomeoneAwake'
        BY <2>1, <2>2, <2>3 DEF Moved, Occupied, Dispatched, SomeoneAwake, Launching, Working, Resting, PcsOf, RequestPcs, ExecutionPcs
    <2> QED
        BY <2>3, <2>4
<1> QED
    BY <1>1, <1>2, <1>3, <1>4, <1>5, <1>6, <1>7, <1>8, <1>9, <1>10, <1>11 DEF Execute

LEMMA OtherStep ==
    ASSUME WorkInv,
           \/ \E q \in Requests, w \in Work : Start(q, w)
           \/ \E w \in Work : Stop(w)
           \/ ExpireWorker \/ ExpireDispatch
           \/ UNCHANGED workerVars
    PROVE  WorkInv'
<1> USE ActorsApart DEF WorkInv, Actors
<1>1. ASSUME NEW q \in Requests, NEW w \in Work, Start(q, w) PROVE WorkInv'
    <2>1. Moved(q, "launch") /\ PcOf(request, exec, q) = "idle"
        BY <1>1 DEF Start, WorkerTypes, Moved, PcOf, Launching, Working, Resting, PcsOf, RequestPcs, ExecutionPcs
    <2>2. WorkerTypes' /\ UNCHANGED <<worker, dispatch, warned>>
        BY <1>1, <2>1 DEF Start, WorkerTypes, Moved, Work
    <2>3. Occupied' /\ Dispatched' /\ SomeoneAwake'
        BY <2>1, <2>2 DEF Moved, Occupied, Dispatched, SomeoneAwake, Launching, Working, Resting, PcsOf, RequestPcs, ExecutionPcs
    <2> QED
        BY <2>2, <2>3
<1>2. CASE \E w \in Work : Stop(w)
    BY <1>2 DEF Stop, WorkerTypes, Occupied, Dispatched, SomeoneAwake
<1>3. CASE ExpireWorker \/ ExpireDispatch
    BY <1>3 DEF ExpireWorker, ExpireDispatch, WorkerTypes, Occupied, Dispatched, SomeoneAwake
<1>4. CASE UNCHANGED workerVars
    BY <1>4 DEF workerVars, WorkerTypes, Occupied, Dispatched, SomeoneAwake
<1> QED
    BY <1>1, <1>2, <1>3, <1>4

\* Work that was asked for is never left with nobody to run it, however many
\* requests and executions meet in the worker document and the dispatch.
THEOREM NoWorkIsStranded == WorkerSpec => []NoWorkStranded
<1>1. WorkerInit => WorkInv
    BY WorkInit
<1>2. WorkInv /\ [WorkerNext]_workerVars => WorkInv'
    BY LaunchStep, ExecutionStep, OtherStep DEF WorkerNext
<1>3. WorkInv => NoWorkStranded
    BY ActorsApart DEF WorkInv, SomeoneAwake, NoWorkStranded, Quiet, PcOf, Resting, Actors
<1> QED
    BY <1>1, <1>2, <1>3, PTL DEF WorkerSpec

-----------------------------------------------------------------------------
(* Gap recovery                                                            *)

Listing == [Entries -> {"none", "paused", "running", "token_required", "completed"}]
PageFields == {"pc", "children", "manuals", "control", "last", "source", "todo", "more", "at",
               "queued", "active"}

(* The children, and what a tick knows of them.                            *)
TypeInv ==
  /\ child \in Listing
  /\ scan.pc \in {"idle", "page", "entries", "resume"}
  /\ scan.pc = "page" => scan.children \in Listing
  /\ scan.pc \in {"entries", "resume"} =>
       DOMAIN scan = PageFields /\ scan.queued \in Nat /\ scan.active \in Nat

(* The count of a tick is never below the children that really work.  It   *)
(* is below the limit before the first child of a page, and before each.    *)
CountInv ==
  /\ scan.pc = "idle" => Active(child) <= MaxActive
  /\ scan.pc = "page" => Active(child) <= Active(scan.children) /\ Active(scan.children) < MaxActive
  /\ scan.pc = "entries" => /\ Active(child) <= scan.active /\ scan.active <= MaxActive
                            /\ scan.queued = 0 => scan.active < MaxActive
  /\ scan.pc = "resume" => Active(child) <= scan.active /\ scan.active < MaxActive

-----------------------------------------------------------------------------
(* Counting                                                                *)

LEMMA EntriesFinite == IsFiniteSet(Entries)
<1>1. IsFiniteSet(Sources \X Keys)
  BY SourcesAreListed, KeysAreSorted, FS_Product
<1>2. Entries \in SUBSET (Sources \X Keys)
  BY KeysAreSorted DEF Entries
<1> QED
  BY <1>1, <1>2, FS_Subset

LEMMA ActiveType ==
  ASSUME NEW c
  PROVE  IsFiniteSet({e \in Entries : Slicing(c, e)}) /\ Active(c) \in Nat
<1>1. {e \in Entries : Slicing(c, e)} \in SUBSET Entries
  OBVIOUS
<1>2. IsFiniteSet({e \in Entries : Slicing(c, e)})
  BY <1>1, EntriesFinite, FS_Subset
<1> QED
  BY <1>2, FS_CardinalityType DEF Active

\* Children that end, and children that are created, are not counted.
LEMMA ActiveShrinks ==
  ASSUME NEW c, NEW d, \A e \in Entries : Slicing(d, e) => Slicing(c, e)
  PROVE  Active(d) <= Active(c)
<1> DEFINE S == {e \in Entries : Slicing(c, e)}
           T == {e \in Entries : Slicing(d, e)}
<1>1. T \in SUBSET S
  OBVIOUS
<1>2. IsFiniteSet(S)
  BY ActiveType
<1>3. Active(c) = Cardinality(S) /\ Active(d) = Cardinality(T)
  BY DEF Active
<1> HIDE DEF S, T
<1> QED
  BY <1>1, <1>2, <1>3, FS_Subset

\* A child that is resumed counts for one.
LEMMA ActiveGrows ==
  ASSUME NEW c, NEW d, NEW x, \A e \in Entries : Slicing(d, e) => e = x \/ Slicing(c, e)
  PROVE  Active(d) <= Active(c) + 1
<1> DEFINE S == {e \in Entries : Slicing(c, e)}
           T == {e \in Entries : Slicing(d, e)}
<1>1. T \in SUBSET (S \cup {x})
  OBVIOUS
<1>2. IsFiniteSet(S) /\ Cardinality(S) \in Nat /\ IsFiniteSet(T) /\ Cardinality(T) \in Nat
  BY ActiveType, FS_CardinalityType
<1>3. Active(c) = Cardinality(S) /\ Active(d) = Cardinality(T)
  BY DEF Active
<1> HIDE DEF S, T
<1>4. IsFiniteSet(S \cup {x}) /\ Cardinality(S \cup {x}) <= Cardinality(S) + 1
  BY <1>2, FS_AddElement
<1>5. Cardinality(T) <= Cardinality(S \cup {x}) /\ Cardinality(S \cup {x}) \in Nat
  BY <1>1, <1>4, FS_Subset, FS_CardinalityType
<1> QED
  BY <1>2, <1>3, <1>4, <1>5

LEMMA NoneActive == Active([e \in Entries |-> "none"]) = 0
<1>1. {e \in Entries : Slicing([x \in Entries |-> "none"], e)} = {}
  BY DEF Slicing
<1> QED
  BY <1>1, FS_EmptySet DEF Active

-----------------------------------------------------------------------------
(* The invariant is inductive                                              *)

LEMMA CountInvInit == Init => TypeInv /\ CountInv
<1> SUFFICES ASSUME Init PROVE TypeInv /\ CountInv
  OBVIOUS
<1>1. scan.pc = "idle" /\ child = [e \in Entries |-> "none"]
  BY DEF Init, Idle
<1> QED
  BY <1>1, NoneActive, LimitsAreNumbers DEF TypeInv, CountInv, Listing

\* The tick stays where it is while other children work than before.
LEMMA ScanStays ==
  ASSUME TypeInv, CountInv, scan' = scan, child' \in Listing,
         \A e \in Entries : Slicing(child', e) => Slicing(child, e)
  PROVE  TypeInv' /\ CountInv'
<1>1. Active(child') <= Active(child)
  BY ActiveShrinks
<1>2. Active(child') \in Nat /\ Active(child) \in Nat
  BY ActiveType
<1>3. Active(scan.children) \in Nat
  BY ActiveType
<1>4. TypeInv'
  BY DEF TypeInv
<1>5. ASSUME NEW n \in Nat, Active(child) <= n PROVE Active(child') <= n
  BY <1>1, <1>2, <1>5
<1>6. CountInv'
  BY <1>3, <1>5, LimitsAreNumbers DEF TypeInv, CountInv
<1> QED
  BY <1>4, <1>6

LEMMA CountInvStep == TypeInv /\ CountInv /\ [Next]_vars => TypeInv' /\ CountInv'
<1> SUFFICES ASSUME TypeInv, CountInv, [Next]_vars PROVE TypeInv' /\ CountInv'
  OBVIOUS
<1>1. \A c : Active(c) \in Nat
  BY ActiveType
<1>2. child \in Listing
  BY DEF TypeInv
<1>3. MaxActive \in Nat /\ MaxQueued \in Nat
  BY LimitsAreNumbers
<1>4. CASE ListJobs
  <2>1. /\ child' = child /\ Active(child) < MaxActive
        /\ scan'.pc = "page" /\ scan'.children = child
    BY <1>4 DEF ListJobs
  <2> QED
    BY <1>1, <1>2, <2>1 DEF TypeInv, CountInv
<1>5. CASE ReadPage
  <2>1. /\ child' = child /\ scan.pc = "page"
        /\ scan'.pc = "entries" /\ DOMAIN scan' = PageFields
        /\ scan'.queued = 0 /\ scan'.active = Active(scan.children)
    BY <1>5 DEF ReadPage, PageFields
  <2>2. Active(child) <= Active(scan.children) /\ Active(scan.children) < MaxActive
    BY <2>1 DEF CountInv
  <2>3. Active(scan.children) \in Nat
    BY <1>1
  <2> QED
    BY <1>2, <1>3, <2>1, <2>2, <2>3 DEF TypeInv, CountInv
<1>6. ASSUME scan.pc \in {"entries", "resume"}
      PROVE  DOMAIN scan = PageFields /\ scan.queued \in Nat /\ scan.active \in Nat
  BY <1>6 DEF TypeInv
<1>7. CASE Skip
  <2>1. scan' = [scan EXCEPT !.todo = @ \ {Current}, !.at = Current]
    BY <1>7 DEF Skip, Next1
  <2>2. scan.pc = "entries" /\ child' = child
    BY <1>7 DEF Skip
  <2>3. /\ scan'.pc = "entries" /\ DOMAIN scan' = PageFields
        /\ scan'.queued = scan.queued /\ scan'.active = scan.active
    BY <1>6, <2>1, <2>2 DEF PageFields
  <2> QED
    BY <1>2, <1>6, <2>2, <2>3 DEF TypeInv, CountInv
<1>8. CASE Retry
  <2>1. /\ scan.pc = "entries" /\ ~Full /\ scan' = [scan EXCEPT !.pc = "resume"]
        /\ child' \in {child, [child EXCEPT ![Entry] = "paused"]}
    BY <1>8 DEF Retry
  <2>2. /\ scan'.pc = "resume" /\ DOMAIN scan' = PageFields
        /\ scan'.queued = scan.queued /\ scan'.active = scan.active
    BY <1>6, <2>1 DEF PageFields
  <2>3. child' \in Listing /\ \A e \in Entries : Slicing(child', e) => Slicing(child, e)
    BY <1>2, <2>1 DEF Listing, Slicing
  <2>4. Active(child') <= Active(child) /\ Active(child) <= scan.active
    BY <2>1, <2>3, ActiveShrinks DEF CountInv
  <2>5. scan.active < MaxActive
    <3>1. scan.queued = 0 => scan.active < MaxActive
      BY <2>1 DEF CountInv
    <3> QED
      BY <1>3, <1>6, <2>1, <3>1 DEF Full
  <2>6. Active(child') <= scan.active
    BY <1>1, <1>6, <2>1, <2>4
  <2> QED
    BY <1>6, <2>1, <2>2, <2>3, <2>5, <2>6 DEF TypeInv, CountInv
<1>9. CASE Resume
  <2> DEFINE more == IF Class[Entry] = "slices" THEN scan.active + 1 ELSE scan.active
  <2>1. /\ scan.pc = "resume"
        /\ child' \in {child, [child EXCEPT ![Entry] = "running"]}
        /\ scan' = [Next1 EXCEPT !.pc = "entries", !.queued = @ + 1,
                                 !.active = IF Class[Entry] = "slices" THEN @ + 1 ELSE @]
    BY <1>9 DEF Resume
  <2>2. Next1 = [scan EXCEPT !.todo = @ \ {Current}, !.at = Current]
    BY DEF Next1
  <2>3. /\ DOMAIN Next1 = PageFields
        /\ Next1.queued = scan.queued /\ Next1.active = scan.active
    BY <1>6, <2>1, <2>2 DEF PageFields
  <2>4. /\ scan'.pc = "entries" /\ DOMAIN scan' = PageFields
        /\ scan'.queued = scan.queued + 1 /\ scan'.active = more
    BY <2>1, <2>3 DEF PageFields
  <2>5. child' \in Listing
    BY <1>2, <2>1 DEF Listing
  <2>6. Active(child) <= scan.active /\ scan.active < MaxActive
    BY <2>1 DEF CountInv
  <2>7. scan.active \in Nat /\ scan.queued \in Nat
    BY <1>6, <2>1
  <2>8. Active(child') <= more
    <3>1. CASE Class[Entry] = "slices"
      <4>1. \A e \in Entries : Slicing(child', e) => e = Entry \/ Slicing(child, e)
        BY <1>2, <2>1 DEF Listing, Slicing
      <4>2. Active(child') <= Active(child) + 1
        BY <4>1, ActiveGrows
      <4> QED
        BY <1>1, <2>6, <2>7, <3>1, <4>2
    <3>2. CASE Class[Entry] # "slices"
      <4>1. \A e \in Entries : Slicing(child', e) => Slicing(child, e)
        BY <1>2, <2>1, <3>2 DEF Listing, Slicing
      <4>2. Active(child') <= Active(child)
        BY <4>1, ActiveShrinks
      <4> QED
        BY <1>1, <2>6, <2>7, <3>2, <4>2
    <3> QED
      BY <3>1, <3>2
  <2>9. more \in Nat /\ more <= MaxActive
    BY <1>3, <2>6, <2>7
  <2>10. scan.queued + 1 \in Nat /\ scan.queued + 1 # 0
    BY <2>7
  <2> HIDE DEF more
  <2> QED
    BY <2>4, <2>5, <2>8, <2>9, <2>10 DEF TypeInv, CountInv
<1>10. CASE Save
  <2>1. scan.pc = "entries" /\ scan'.pc = "idle" /\ child' = child
    BY <1>10 DEF Save, Idle
  <2>2. Active(child) <= scan.active /\ scan.active <= MaxActive
    BY <2>1 DEF CountInv
  <2>3. Active(child) <= MaxActive
    BY <1>1, <1>3, <1>6, <2>1, <2>2
  <2> QED
    BY <1>2, <2>1, <2>3 DEF TypeInv, CountInv
<1>11. CASE Crash
  <2>1. scan.pc # "idle" /\ scan'.pc = "idle" /\ child' = child
    BY <1>11 DEF Crash, Idle
  <2>2. Active(child) <= MaxActive
    <3>1. Active(child) \in Nat /\ Active(scan.children) \in Nat
      BY <1>1
    <3>2. CASE scan.pc = "page"
      BY <1>3, <3>1, <3>2 DEF CountInv
    <3>3. CASE scan.pc \in {"entries", "resume"}
      BY <1>3, <1>6, <3>1, <3>3 DEF CountInv
    <3> QED
      BY <2>1, <3>2, <3>3 DEF TypeInv
  <2> QED
    BY <1>2, <2>1, <2>2 DEF TypeInv, CountInv
<1>12. CASE UNCHANGED <<child, scan>>
  BY <1>2, <1>12, ScanStays
<1>13. ASSUME NEW e \in Entries, RunChild(e) \/ TokenExpires(e) \/ TokenSaved(e)
       PROVE  TypeInv' /\ CountInv'
  <2>1. /\ scan' = scan
        /\ \E s \in {"completed", "token_required", "running"} :
             child' = [child EXCEPT ![e] = s] /\ child[e] \in {"running", "token_required"}
    BY <1>13 DEF RunChild, TokenExpires, TokenSaved
  <2>2. child' \in Listing /\ \A x \in Entries : Slicing(child', x) => Slicing(child, x)
    BY <1>2, <2>1 DEF Listing, Slicing
  <2> QED
    BY <2>1, <2>2, ScanStays
<1> QED
  BY <1>4, <1>5, <1>7, <1>8, <1>9, <1>10, <1>11, <1>12, <1>13
     DEF Next, tick, Due, Result, PauseSource, ResumeSource, RetryByHand, vars

-----------------------------------------------------------------------------

\* However stale the listing of a tick, whatever ended, stopped for a token or crashed
\* meanwhile: no more than MaxActive children work through date slices.
THEOREM ChildrenBounded == Spec => []SlicesBounded
<1>1. TypeInv /\ CountInv => SlicesBounded
  <2> SUFFICES ASSUME TypeInv, CountInv PROVE SlicesBounded
    OBVIOUS
  <2>1. Active(child) \in Nat /\ Active(scan.children) \in Nat /\ MaxActive \in Nat
    BY ActiveType, LimitsAreNumbers
  <2>2. Active(child) <= MaxActive
    <3>1. CASE scan.pc = "idle"
      BY <3>1 DEF CountInv
    <3>2. CASE scan.pc = "page"
      BY <2>1, <3>2 DEF CountInv
    <3>3. CASE scan.pc \in {"entries", "resume"}
      BY <2>1, <3>3 DEF TypeInv, CountInv
    <3> QED
      BY <3>1, <3>2, <3>3 DEF TypeInv
  <2> QED
    BY <2>2 DEF SlicesBounded, Active, Slicing
<1> QED
  BY <1>1, CountInvInit, CountInvStep, PTL DEF Spec

-----------------------------------------------------------------------------
(* The recorder: on record before an attempt to connect, seen since.        *)

Attempting == {"open", "connect", "on", "status"}  \* frames are seen or known to be missed
Flushing == {"status", "last status"}              \* a chunk is written, its status is not
RecorderPcs == {"off", "closing", "last status"} \cup Attempting

RecorderTypes ==
  /\ time \in Nat /\ sessions \in Nat
  /\ rec \in [pc : RecorderPcs, scope : {rec.scope}, rev : {rec.rev}, session : Nat, seq : Nat,
              frames : SUBSET Nat, waiting : SUBSET Nat, at : Nat]
  /\ status \in [durable : Nat \cup {Missing}, frame : Nat \cup {Missing}]
  /\ first \in Nat \cup {Missing}
  /\ chunks \subseteq [key : Nat \X Nat, frames : SUBSET Nat]

\* No frame of the future; those of this session are later than its attempt to
\* connect, and those that wait in the socket are later than those of the chunk.
FramesInOrder ==
  /\ rec.at <= time
  /\ \A f \in rec.frames \cup rec.waiting : rec.at < f /\ f <= time
  /\ \A f \in rec.frames, w \in rec.waiting : f < w
  /\ \A c \in chunks : \A f \in c.frames : f <= time
  /\ rec.pc # "status" => rec.waiting = {}
  /\ rec.pc \in {"off", "open", "connect"} => rec.frames = {}
  /\ rec.pc \in Flushing => rec.frames # {}

Reported(t) == t \in Frames \/ Within(t) \/ t \in connecting

\* What lies before the frame the status names, and, once the gap of this
\* session is on record, what lies before its attempt to connect.
DurableReported ==
  /\ first = Missing <=> status.durable = Missing
  /\ first # Missing => \A t \in first .. status.durable : Reported(t)
  /\ first # Missing /\ rec.pc \notin {"off", "open"} => \A t \in first .. rec.at : Reported(t)

\* Since the attempt to connect: everything that was sent, and after a failure
\* everything up to the last frame in memory.
Seen(t) == t \in connecting \/ t \in Frames \/ t \in rec.frames \/ t \in rec.waiting
SessionSeen ==
  /\ rec.pc \in Attempting => \A t \in rec.at + 1 .. time : Seen(t)
  /\ \A f \in rec.frames : \A t \in rec.at + 1 .. f : Seen(t)

\* Chunks: one for a key, of one session after the other; the one under the
\* number of the journal holds the frames that are in memory.
ChunksNumbered ==
  LET own == <<rec.session, rec.seq>> IN
  /\ \A c, d \in chunks : c # d => c.frames \cap d.frames = {}
  /\ \A c \in chunks : c.key[1] <= sessions /\ c.frames \cap rec.waiting = {}
  /\ rec.session <= sessions
  /\ \A c \in chunks : c.key = own => rec.pc \in Flushing \cup {"closing", "off"}
  /\ \A c \in chunks : c.key[1] = rec.session => c.key[2] <= rec.seq \/ rec.pc = "off"
  /\ rec.pc # "off" =>
       \A c \in chunks : IF c.key = own THEN c.frames = rec.frames ELSE c.frames \cap rec.frames = {}
  /\ rec.pc \in Flushing => Written(own)

RecorderInv ==
  /\ RecorderTypes /\ FramesInOrder
  /\ DurableReported /\ SessionSeen /\ ChunksNumbered

-----------------------------------------------------------------------------

\* A non-empty set of frames has an oldest and a newest.
LEMMA FramesBounded ==
  ASSUME NEW n \in Nat, NEW S \in SUBSET Nat, S # {}, \A f \in S : f <= n
  PROVE  /\ Oldest(S) \in S /\ \A f \in S : Oldest(S) <= f
         /\ Newest(S) \in S /\ \A f \in S : f <= Newest(S)
<1>1. ASSUME NEW T \in SUBSET Nat, T # {}
      PROVE  \E m \in T : \A x \in T : m <= x
  <2>1. PICK m \in T : \A x \in T : ~(<<x, m>> \in OpToRel(<, Nat))
    BY <1>1, NatLessThanWellFounded, WFMin
  <2>2. ASSUME NEW x \in T PROVE m <= x
    <3>1. x \in Nat /\ m \in Nat /\ <<x, m>> \in Nat \X Nat
      BY <1>1
    <3>2. ~(x < m)
      BY <2>1, <3>1 DEF OpToRel
    <3> QED
      BY <3>1, <3>2
  <2> QED
    BY <2>2
<1>2. \E m \in S : \A x \in S : m <= x
  BY <1>1
<1>3. \E m \in S : \A x \in S : x <= m
  <2> DEFINE T == {n - f : f \in S}
  <2>1. T \in SUBSET Nat /\ T # {}
    <3>1. \A f \in S : f \in Nat /\ f <= n
      OBVIOUS
    <3>2. \A f \in S : n - f \in Nat
      BY <3>1
    <3> QED
      BY <3>2
  <2>2. PICK l \in T : \A x \in T : l <= x
    <3> HIDE DEF T
    <3> QED
      BY <1>1, <2>1
  <2>3. PICK m \in S : l = n - m
    BY <2>2
  <2>4. ASSUME NEW f \in S PROVE f <= m
    <3>1. n - f \in T
      OBVIOUS
    <3>2. n - m <= n - f
      BY <2>2, <2>3, <3>1
    <3> QED
      BY <3>2
  <2> QED
    BY <2>4
<1> QED
  BY <1>2, <1>3 DEF Oldest, Newest

\* What is on record stays on record.
LEMMA RecordsStay ==
  ASSUME chunks \subseteq chunks', gaps \subseteq gaps', connecting \subseteq connecting'
  PROVE  /\ Frames \subseteq Frames'
         /\ \A t : Reported(t) => Reported(t)'
BY DEF Frames, Within, Reported

\* Nothing the recorder works with has changed.
LEMMA RecorderRests ==
  ASSUME RecorderInv, UNCHANGED <<time, rec, chunks, gaps, status, first, connecting, sessions>>
  PROVE  RecorderInv'
BY DEF RecorderInv, RecorderTypes, FramesInOrder, DurableReported, SessionSeen, ChunksNumbered,
       Reported, Within, Frames, Seen, Written

\* The journal is closed, or lost with the process.
LEMMA RecorderStops ==
  ASSUME RecorderInv, rec' = Off, UNCHANGED <<time, chunks, gaps, status, first, connecting, sessions>>
  PROVE  RecorderInv'
<1>0. /\ rec'.pc = "off" /\ rec'.at = 0 /\ rec'.frames = {} /\ rec'.waiting = {}
      /\ rec'.session = 0 /\ rec'.seq = 0 /\ time \in Nat /\ sessions \in Nat
  BY DEF RecorderInv, RecorderTypes, Off
<1>1. RecorderTypes'
  BY DEF RecorderInv, RecorderTypes, Off, RecorderPcs
<1>2. FramesInOrder'
  <2>1. rec'.at <= time' /\ rec'.frames \cup rec'.waiting = {}
    BY <1>0
  <2>2. rec'.pc \notin Flushing
    BY <1>0 DEF Flushing
  <2>3. \A c \in chunks' : \A f \in c.frames : f <= time'
    BY DEF RecorderInv, FramesInOrder
  <2>4. rec'.frames = {} /\ rec'.waiting = {}
    BY <1>0
  <2> QED
    BY <2>1, <2>2, <2>3, <2>4 DEF FramesInOrder
<1>3. DurableReported'
  BY DEF RecorderInv, DurableReported, Off, Reported, Within, Frames
<1>4. SessionSeen'
  BY DEF SessionSeen, Off, Attempting
<1>5. ChunksNumbered'
  <2>1. rec'.pc \notin Flushing
    BY <1>0 DEF Flushing
  <2>2. rec'.session <= sessions' /\ \A c \in chunks' : c.frames \cap rec'.waiting = {}
    BY <1>0
  <2>3. \A c \in chunks' : c.key[1] <= sessions'
    BY DEF RecorderInv, ChunksNumbered
  <2>4. \A c, d \in chunks' : c # d => c.frames \cap d.frames = {}
    BY DEF RecorderInv, ChunksNumbered
  <2>5. rec'.pc = "off"
    BY <1>0
  <2> QED
    BY <2>1, <2>2, <2>3, <2>4, <2>5 DEF ChunksNumbered
<1> QED
  BY <1>1, <1>2, <1>3, <1>4, <1>5 DEF RecorderInv

LEMMA RecorderBegins == FeedInit => RecorderInv
<1> SUFFICES ASSUME FeedInit PROVE RecorderInv
  OBVIOUS
<1>1. RecorderTypes
  BY DEF FeedInit, RecorderTypes, Off, RecorderPcs
<1>2. FramesInOrder
  BY DEF FeedInit, FramesInOrder, Off, Flushing
<1>3. DurableReported
  BY DEF FeedInit, DurableReported
<1>4. SessionSeen
  BY DEF FeedInit, SessionSeen, Off, Attempting
<1>5. ChunksNumbered
  BY DEF FeedInit, ChunksNumbered, Off, Flushing
<1> QED
  BY <1>1, <1>2, <1>3, <1>4, <1>5 DEF RecorderInv

LEMMA ReadPlanStep == ASSUME RecorderInv, ReadPlan PROVE RecorderInv'
<1>1. CASE UNCHANGED <<rec, sessions>>
  BY <1>1, RecorderRests DEF ReadPlan, Apart
<1>2. CASE /\ rec' = [Off EXCEPT !.pc = "open", !.scope = Followed.scope, !.rev = Followed.feed,
                                 !.session = sessions + 1, !.at = time]
           /\ sessions' = sessions + 1
  <2>1. UNCHANGED <<time, chunks, gaps, status, first, connecting>>
    BY DEF ReadPlan, Apart
  <2>0. /\ rec'.pc = "open" /\ rec'.at = time /\ rec'.frames = {} /\ rec'.waiting = {}
        /\ rec'.session = sessions + 1 /\ rec'.seq = 0 /\ time \in Nat /\ sessions \in Nat
    BY <1>2 DEF RecorderInv, RecorderTypes, Off
  <2>2. RecorderTypes'
    <3>1. rec' \in [pc : RecorderPcs, scope : {rec'.scope}, rev : {rec'.rev}, session : Nat, seq : Nat,
                    frames : SUBSET Nat, waiting : SUBSET Nat, at : Nat]
      <4>1. rec' = [pc |-> "open", scope |-> Followed.scope, rev |-> Followed.feed,
                    session |-> sessions + 1, seq |-> 0, frames |-> {}, waiting |-> {}, at |-> time]
        BY <1>2 DEF Off
      <4>2. rec'.scope = Followed.scope /\ rec'.rev = Followed.feed
        BY <4>1
      <4>3. "open" \in RecorderPcs
        BY DEF RecorderPcs, Attempting
      <4> QED
        BY <2>0, <4>1, <4>2, <4>3
    <3> QED
      BY <1>2, <2>0, <2>1, <3>1 DEF RecorderInv, RecorderTypes
  <2>3. FramesInOrder'
    <3>1. rec'.at <= time' /\ rec'.frames \cup rec'.waiting = {}
      BY <2>0, <2>1
    <3>2. rec'.pc \notin Flushing
      BY <2>0 DEF Flushing
    <3>3. \A c \in chunks' : \A f \in c.frames : f <= time'
      BY <2>1 DEF RecorderInv, FramesInOrder
    <3>4. rec'.frames = {} /\ rec'.waiting = {}
      BY <2>0
    <3> QED
      BY <3>1, <3>2, <3>3, <3>4 DEF FramesInOrder
  <2>4. DurableReported'
    BY <1>2, <2>1 DEF RecorderInv, DurableReported, Off, Reported, Within, Frames
  <2>5. SessionSeen'
    BY <1>2, <2>1 DEF RecorderInv, RecorderTypes, SessionSeen, Off
  <2>6. ChunksNumbered'
    <3>1. \A c \in chunks : c.key[1] <= sessions /\ c.key[1] \in Nat
      BY DEF RecorderInv, RecorderTypes, ChunksNumbered
    <3>2. \A c \in chunks : c.key[1] # rec'.session /\ c.key # <<rec'.session, rec'.seq>>
      BY <2>0, <3>1
    <3>3. \A c \in chunks : c.key[1] <= sessions + 1
      BY <2>0, <3>1
    <3>4. rec'.pc \notin Flushing /\ rec'.session <= sessions'
      BY <1>2, <2>0 DEF Flushing
    <3>5. \A c \in chunks' : /\ c.key[1] <= sessions' /\ c.key[1] # rec'.session
                             /\ c.key # <<rec'.session, rec'.seq>>
                             /\ c.frames \cap rec'.waiting = {} /\ c.frames \cap rec'.frames = {}
      BY <1>2, <2>0, <2>1, <3>2, <3>3
    <3>6. \A c, d \in chunks' : c # d => c.frames \cap d.frames = {}
      BY <2>1 DEF RecorderInv, ChunksNumbered
    <3> QED
      BY <3>4, <3>5, <3>6 DEF ChunksNumbered
  <2> QED
    BY <2>2, <2>3, <2>4, <2>5, <2>6 DEF RecorderInv
<1> QED
  BY <1>1, <1>2 DEF ReadPlan

LEMMA RecordGapStep == ASSUME RecorderInv, RecordGap PROVE RecorderInv'
<1>1. /\ rec.pc = "open" /\ rec' = [rec EXCEPT !.pc = "connect"]
      /\ gaps' = IF status.durable = Missing THEN gaps
                 ELSE gaps \cup {[from |-> status.durable, to |-> rec.at]}
      /\ UNCHANGED <<time, chunks, status, first, connecting, sessions>>
  BY DEF RecordGap, Rec, Apart, LastDurable
<1>2. RecorderTypes'
  BY <1>1 DEF RecorderInv, RecorderTypes, RecorderPcs, Attempting
<1>3. FramesInOrder'
  BY <1>1 DEF RecorderInv, RecorderTypes, FramesInOrder, Flushing
<1>4. DurableReported'
  <2>1. \A t : Reported(t) => Reported(t)'
    BY <1>1, RecordsStay
  <2>2. ASSUME first # Missing, NEW t \in first .. rec.at PROVE Reported(t)'
    <3>1. status.durable \in Nat /\ first \in Nat /\ rec.at \in Nat
      BY <2>2 DEF RecorderInv, RecorderTypes, DurableReported
    <3>2. CASE t <= status.durable
      BY <2>1, <2>2, <3>1, <3>2 DEF RecorderInv, DurableReported
    <3>3. CASE t > status.durable
      <4>1. [from |-> status.durable, to |-> rec.at] \in gaps'
        BY <1>1, <3>1, MissingIsNoFrame
      <4>2. Within(t)'
        BY <2>2, <3>1, <3>3, <4>1 DEF Within
      <4> QED
        BY <4>2 DEF Reported
    <3> QED
      BY <3>1, <3>2, <3>3
  <2>3. first # Missing => \A t \in first .. status.durable : Reported(t)'
    BY <2>1 DEF RecorderInv, DurableReported
  <2>4. rec'.at = rec.at
    BY <1>1 DEF RecorderInv, RecorderTypes
  <2> QED
    BY <1>1, <2>2, <2>3, <2>4 DEF RecorderInv, DurableReported
<1>5. SessionSeen'
  BY <1>1 DEF RecorderInv, RecorderTypes, SessionSeen, Attempting, Seen, Frames
<1>6. ChunksNumbered'
  BY <1>1 DEF RecorderInv, RecorderTypes, ChunksNumbered, Flushing
<1> QED
  BY <1>2, <1>3, <1>4, <1>5, <1>6 DEF RecorderInv

\* Only where the recorder is has changed: connected, or on its way to close.
LEMMA RecorderTurns ==
  ASSUME RecorderInv, NEW pc \in {"on", "closing"}, rec' = [rec EXCEPT !.pc = pc],
         rec.pc \in {"connect", "on"}, status' \in [durable : {status.durable}, frame : Nat \cup {Missing}],
         UNCHANGED <<time, chunks, gaps, first, connecting, sessions>>
  PROVE  RecorderInv'
<1>1. /\ rec'.pc = pc /\ rec'.at = rec.at /\ rec'.frames = rec.frames /\ rec'.waiting = rec.waiting
      /\ rec'.session = rec.session /\ rec'.seq = rec.seq /\ status'.durable = status.durable
  BY DEF RecorderInv, RecorderTypes
<1>2. RecorderTypes'
  BY DEF RecorderInv, RecorderTypes, RecorderPcs, Attempting
<1>3. FramesInOrder'
  BY <1>1 DEF RecorderInv, FramesInOrder, Flushing
<1>4. DurableReported'
  BY <1>1 DEF RecorderInv, DurableReported, Reported, Within, Frames
<1>5. SessionSeen'
  BY <1>1 DEF RecorderInv, SessionSeen, Attempting, Seen, Frames
<1>6. ChunksNumbered'
  BY <1>1 DEF RecorderInv, ChunksNumbered, Flushing, Written
<1> QED
  BY <1>2, <1>3, <1>4, <1>5, <1>6 DEF RecorderInv

LEMMA CheckStep == ASSUME RecorderInv, Check PROVE RecorderInv'
<1>1. status' = [status EXCEPT !.frame = IF rec.frames # {} THEN Newest(rec.frames) ELSE @]
  BY DEF Check
<1>2. rec.frames # {} => Newest(rec.frames) \in Nat
  BY FramesBounded DEF RecorderInv, RecorderTypes, FramesInOrder
<1>3. status' \in [durable : {status.durable}, frame : Nat \cup {Missing}]
  BY <1>1, <1>2 DEF RecorderInv, RecorderTypes
<1> DEFINE pc == IF Followed.feed # rec.rev THEN "closing" ELSE "on"
<1>4. pc \in {"on", "closing"} /\ rec' = [rec EXCEPT !.pc = pc]
  BY DEF Check, Rec
<1> HIDE DEF pc
<1> QED
  BY <1>3, <1>4, RecorderTurns DEF Check, Apart

LEMMA FrameStep == ASSUME RecorderInv, Frame PROVE RecorderInv'
<1>0. PICK f \in Nat : f = time + 1
  BY DEF RecorderInv, RecorderTypes
<1>1. /\ time' = f /\ UNCHANGED <<chunks, gaps, status, first, sessions>>
      /\ connecting' = IF rec.pc \in {"open", "connect"} THEN connecting \cup {f} ELSE connecting
      /\ rec' = CASE rec.pc = "on" -> [rec EXCEPT !.frames = @ \cup {f}]
                  [] rec.pc = "status" -> [rec EXCEPT !.waiting = @ \cup {f}]
                  [] OTHER -> rec
  BY <1>0 DEF Frame, Rec
<1>2. /\ rec'.pc = rec.pc /\ rec'.at = rec.at /\ rec'.session = rec.session /\ rec'.seq = rec.seq
      /\ rec'.frames = IF rec.pc = "on" THEN rec.frames \cup {f} ELSE rec.frames
      /\ rec'.waiting = IF rec.pc = "status" THEN rec.waiting \cup {f} ELSE rec.waiting
  BY <1>1 DEF RecorderInv, RecorderTypes
<1>3. /\ time \in Nat /\ f \in Nat /\ time < f /\ rec.at \in Nat
      /\ rec.frames \subseteq Nat /\ rec.waiting \subseteq Nat
      /\ \A c \in chunks : c.frames \subseteq Nat
  BY <1>0 DEF RecorderInv, RecorderTypes
<1>4. RecorderTypes'
  BY <1>1, <1>3 DEF RecorderInv, RecorderTypes
<1>5. FramesInOrder'
  <2>1. \A x \in rec.frames \cup rec.waiting : x \in Nat /\ x <= time
    BY <1>3 DEF RecorderInv, FramesInOrder
  <2>2. \A c \in chunks : \A x \in c.frames : x <= f
    BY <1>3 DEF RecorderInv, FramesInOrder
  <2>3. \A x \in rec'.frames \cup rec'.waiting : x \in rec.frames \cup rec.waiting \/ x = f
    BY <1>2
  <2>4. rec.at <= time /\ rec.at < f
    BY <1>3 DEF RecorderInv, FramesInOrder
  <2>5. \A x \in rec'.frames \cup rec'.waiting : rec.at < x /\ x <= f
    BY <1>3, <2>1, <2>3, <2>4 DEF RecorderInv, FramesInOrder
  <2>6. \A x \in rec'.frames, w \in rec'.waiting : x < w
    BY <1>2, <1>3, <2>1 DEF RecorderInv, FramesInOrder
  <2>7. /\ rec'.pc # "status" => rec'.waiting = {}
        /\ rec'.pc \in {"off", "open", "connect"} => rec'.frames = {}
        /\ rec'.pc \in Flushing => rec'.frames # {}
    BY <1>2 DEF RecorderInv, FramesInOrder, Flushing
  <2>8. rec'.at <= time'
    BY <1>1, <1>2, <1>3, <2>4
  <2> QED
    BY <1>1, <2>2, <2>5, <2>6, <2>7, <2>8 DEF FramesInOrder
<1>6. DurableReported'
  <2>1. \A t : Reported(t) => Reported(t)'
    BY <1>1, RecordsStay
  <2> QED
    BY <1>1, <1>2, <2>1 DEF RecorderInv, DurableReported
<1>7. SessionSeen'
  <2>1. \A t : Seen(t) => Seen(t)'
    BY <1>1, <1>2 DEF Seen, Frames
  <2>2. rec.pc \in Attempting => Seen(f)'
    BY <1>1, <1>2 DEF Seen, Attempting
  <2>3. \A t \in rec.at + 1 .. f : t = f \/ t \in rec.at + 1 .. time
    BY <1>0, <1>3
  <2>4. \A x \in rec'.frames : x \in rec.frames \/ (x = f /\ rec.pc \in Attempting)
    BY <1>2 DEF Attempting
  <2>5. rec.pc \in Attempting => \A t \in rec.at + 1 .. f : Seen(t)'
    BY <2>1, <2>2, <2>3 DEF RecorderInv, SessionSeen
  <2>6. \A x \in rec'.frames : \A t \in rec.at + 1 .. x : Seen(t)'
    BY <2>1, <2>4, <2>5 DEF RecorderInv, SessionSeen
  <2> QED
    BY <1>1, <1>2, <2>5, <2>6 DEF SessionSeen
<1>8. ChunksNumbered'
  <2>1. \A c \in chunks : f \notin c.frames
    BY <1>3 DEF RecorderInv, FramesInOrder
  <2>2. rec.pc = "on" => \A c \in chunks : c.key # <<rec.session, rec.seq>>
    BY DEF RecorderInv, ChunksNumbered, Flushing
  <2>3. rec.pc # "off" => \A c \in chunks : IF c.key = <<rec.session, rec.seq>> THEN c.frames = rec'.frames
                                            ELSE c.frames \cap rec'.frames = {}
    BY <1>2, <2>1, <2>2 DEF RecorderInv, ChunksNumbered
  <2>4. \A c \in chunks : c.frames \cap rec'.waiting = {}
    BY <1>2, <2>1 DEF RecorderInv, ChunksNumbered
  <2>5. ChunksNumbered
    BY DEF RecorderInv
  <2> DEFINE own == <<rec.session, rec.seq>>
  <2>6. own' = own
    BY ONLY <1>2
  <2>7. /\ \A c, d \in chunks : c # d => c.frames \cap d.frames = {}
        /\ \A c \in chunks : c.key[1] <= sessions
        /\ rec.session <= sessions
        /\ \A c \in chunks : c.key = own => rec.pc \in Flushing \cup {"closing", "off"}
        /\ \A c \in chunks : c.key[1] = rec.session => c.key[2] <= rec.seq \/ rec.pc = "off"
        /\ rec.pc \in Flushing => Written(own)
    BY ONLY <2>5, Zenon DEF ChunksNumbered
  <2>8. rec.pc # "off" => \A c \in chunks : IF c.key = own THEN c.frames = rec'.frames
                                            ELSE c.frames \cap rec'.frames = {}
    BY ONLY <2>3
  <2> HIDE DEF own
  <2>9. Written(own) => Written(own)'
    BY ONLY <1>1, <2>6 DEF Written
  <2>10. /\ chunks' = chunks /\ sessions' = sessions /\ rec'.pc = rec.pc
         /\ rec'.session = rec.session /\ rec'.seq = rec.seq
    BY ONLY <1>1, <1>2
  <2> QED
    BY ONLY <2>4, <2>6, <2>7, <2>8, <2>9, <2>10 DEF ChunksNumbered, own
<1> QED
  BY <1>4, <1>5, <1>6, <1>7, <1>8 DEF RecorderInv

LEMMA WriteChunkStep == ASSUME RecorderInv, WriteChunk PROVE RecorderInv'
<1> DEFINE own == <<rec.session, rec.seq>>
           new == [key |-> own, frames |-> rec.frames]
           pc == IF rec.pc = "on" THEN "status" ELSE "last status"
<1>1. /\ rec.pc \in {"on", "closing"} /\ rec.frames # {} /\ rec' = [rec EXCEPT !.pc = pc]
      /\ chunks' = IF Written(own) THEN chunks ELSE chunks \cup {new}
      /\ UNCHANGED <<time, gaps, status, first, connecting, sessions>>
  BY DEF WriteChunk, Rec, Apart
<1>2. /\ rec'.pc = pc /\ rec'.at = rec.at /\ rec'.frames = rec.frames /\ rec'.waiting = rec.waiting
      /\ rec'.session = rec.session /\ rec'.seq = rec.seq
  BY <1>1 DEF RecorderInv, RecorderTypes
<1>3. chunks \subseteq chunks' /\ Written(own)'
  <2>1. Written(own) \/ new \in chunks'
    BY <1>1
  <2>2. new.key = own
    OBVIOUS
  <2>3. chunks \subseteq chunks' /\ \E c \in chunks' : c.key = own
    BY <1>1, <2>1, <2>2 DEF Written
  <2> QED
    BY <1>2, <2>3 DEF Written
<1>4. \A c \in chunks' : c \in chunks \/ (c = new /\ ~Written(own))
  BY <1>1
<1>5. new.frames = rec.frames /\ new.key = own /\ own[1] = rec.session /\ own[2] = rec.seq
  OBVIOUS
<1>6. pc \in Flushing /\ (pc \in Attempting <=> rec.pc = "on")
  BY DEF Flushing, Attempting
<1>7. RecorderTypes'
  <2>1. rec.session \in Nat /\ rec.seq \in Nat /\ rec.frames \in SUBSET Nat
    BY DEF RecorderInv, RecorderTypes
  <2>2. new \in [key : Nat \X Nat, frames : SUBSET Nat]
    BY <2>1
  <2>3. chunks' \subseteq [key : Nat \X Nat, frames : SUBSET Nat]
    BY <1>1, <2>2 DEF RecorderInv, RecorderTypes
  <2> QED
    BY <1>1, <2>3 DEF RecorderInv, RecorderTypes, RecorderPcs, Attempting
<1> HIDE DEF new, pc
<1>8. FramesInOrder'
  <2>1. \A c \in chunks' : \A x \in c.frames : x <= time
    BY <1>4, <1>5 DEF RecorderInv, FramesInOrder
  <2>2. rec.waiting = {}
    BY <1>1 DEF RecorderInv, FramesInOrder
  <2> QED
    BY <1>1, <1>2, <1>6, <2>1, <2>2 DEF RecorderInv, FramesInOrder, Flushing
<1>9. DurableReported'
  <2>1. \A t : Reported(t) => Reported(t)'
    BY <1>1, <1>3, RecordsStay
  <2> QED
    BY <1>1, <1>2, <2>1 DEF RecorderInv, DurableReported
<1>10. SessionSeen'
  <2>1. \A t : Seen(t) => Seen(t)'
    BY <1>1, <1>2, <1>3 DEF Seen, Frames
  <2> QED
    BY <1>1, <1>2, <1>6, <2>1 DEF RecorderInv, SessionSeen, Attempting
<1>11. ChunksNumbered'
  <2>1. ASSUME NEW c \in chunks', NEW d \in chunks', c # d PROVE c.frames \cap d.frames = {}
    <3>1. CASE c \in chunks /\ d \in chunks
      BY <2>1, <3>1 DEF RecorderInv, ChunksNumbered
    <3>2. ASSUME NEW x \in chunks, ~Written(own) PROVE x.frames \cap rec.frames = {}
      BY <1>1, <3>2 DEF RecorderInv, ChunksNumbered, Written
    <3> QED
      BY <1>4, <1>5, <2>1, <3>1, <3>2
  <2>2. \A c \in chunks' : c.key[1] <= sessions /\ c.frames \cap rec.waiting = {}
    <3>1. rec.waiting = {} /\ rec.session <= sessions
      BY <1>1 DEF RecorderInv, FramesInOrder, ChunksNumbered
    <3> QED
      BY <1>4, <1>5, <3>1 DEF RecorderInv, ChunksNumbered
  <2>3. \A c \in chunks' : c.key[1] = rec.session => c.key[2] <= rec.seq
    BY <1>1, <1>4, <1>5 DEF RecorderInv, RecorderTypes, ChunksNumbered
  <2>4. \A c \in chunks' : IF c.key = own THEN c.frames = rec.frames ELSE c.frames \cap rec.frames = {}
    BY <1>1, <1>4, <1>5 DEF RecorderInv, ChunksNumbered
  <2> QED
    BY <1>1, <1>2, <1>3, <1>6, <2>1, <2>2, <2>3, <2>4 DEF RecorderInv, ChunksNumbered
<1> QED
  BY <1>7, <1>8, <1>9, <1>10, <1>11 DEF RecorderInv

\* The chunk in memory is on record before its status is written.
LEMMA FlushedIsStored ==
  ASSUME RecorderInv, rec.pc \in Flushing
  PROVE  rec.frames \subseteq Frames
<1>1. PICK c \in chunks : c.key = <<rec.session, rec.seq>>
  BY DEF RecorderInv, ChunksNumbered, Written
<1>2. c.frames = rec.frames
  BY <1>1 DEF RecorderInv, ChunksNumbered, Flushing
<1> QED
  BY <1>2 DEF Frames

LEMMA StatusWritten ==
  ASSUME RecorderInv, rec.pc \in Flushing,
         status' = [status EXCEPT !.durable = Newest(rec.frames)],
         first' = IF first = Missing THEN Oldest(rec.frames) ELSE first,
         NEW pc, pc = IF rec.pc = "status" THEN "on" ELSE "closing",
         rec' = [rec EXCEPT !.pc = pc, !.seq = rec.seq + 1, !.frames = rec.waiting, !.waiting = {}],
         UNCHANGED <<time, chunks, gaps, connecting, sessions>>
  PROVE  RecorderInv'
<1>1. /\ rec'.pc = pc /\ rec'.at = rec.at /\ rec'.frames = rec.waiting /\ rec'.waiting = {}
      /\ rec'.session = rec.session /\ rec'.seq = rec.seq + 1
      /\ status'.durable = Newest(rec.frames) /\ status'.frame = status.frame
  BY DEF RecorderInv, RecorderTypes
<1>2. /\ time \in Nat /\ rec.at \in Nat /\ rec.seq \in Nat /\ rec.frames \subseteq Nat /\ rec.frames # {}
      /\ rec.waiting \subseteq Nat /\ first \in Nat \cup {Missing}
      /\ \A c \in chunks : c.key \in Nat \X Nat
  BY DEF RecorderInv, RecorderTypes, FramesInOrder
<1>3. /\ Newest(rec.frames) \in rec.frames /\ \A f \in rec.frames : f <= Newest(rec.frames)
      /\ Oldest(rec.frames) \in rec.frames /\ \A f \in rec.frames : Oldest(rec.frames) <= f
  BY <1>2, FramesBounded DEF RecorderInv, FramesInOrder
<1>4. RecorderTypes'
  <2>1. Newest(rec.frames) \in Nat /\ first' \in Nat \cup {Missing} /\ rec.seq + 1 \in Nat
    BY <1>2, <1>3
  <2> QED
    BY <2>1 DEF RecorderInv, RecorderTypes, RecorderPcs, Attempting
<1>5. FramesInOrder'
  <2>1. pc \notin Flushing /\ pc \notin {"off", "open", "connect"}
    BY DEF Flushing
  <2> QED
    BY <1>1, <2>1 DEF RecorderInv, FramesInOrder
<1>6. DurableReported'
  <2>1. \A t : Reported(t)' <=> Reported(t)
    BY DEF Reported, Within, Frames
  <2>2. first' # Missing /\ Newest(rec.frames) # Missing
    BY <1>2, <1>3, MissingIsNoFrame
  <2>3. ASSUME first # Missing, NEW t \in first .. rec.at PROVE Reported(t)
    BY <2>3 DEF RecorderInv, DurableReported, Flushing
  <2>4. ASSUME NEW t \in first' .. Newest(rec.frames) PROVE Reported(t)
    <3>1. first' \in Nat /\ Newest(rec.frames) \in Nat /\ t \in Nat
      BY <1>2, <1>3, <2>2
    <3>2. CASE t <= rec.at
      <4>1. first # Missing
        BY <1>2, <1>3, <2>4, <3>1, <3>2 DEF RecorderInv, FramesInOrder
      <4> QED
        BY <1>2, <2>3, <2>4, <3>1, <3>2, <4>1
    <3>3. CASE t > rec.at
      <4>1. t \in rec.at + 1 .. Newest(rec.frames)
        BY <1>2, <2>4, <3>1, <3>3
      <4>2. Seen(t)
        BY <1>3, <4>1 DEF RecorderInv, SessionSeen
      <4>3. t \notin rec.waiting
        BY <1>2, <1>3, <2>4, <3>1 DEF RecorderInv, FramesInOrder
      <4> QED
        BY <4>2, <4>3, FlushedIsStored DEF Seen, Reported
    <3> QED
      BY <1>2, <3>1, <3>2, <3>3
  <2>5. ASSUME NEW t \in first' .. rec.at PROVE Reported(t)
    <3>1. first # Missing
      BY <1>2, <1>3, <2>5 DEF RecorderInv, FramesInOrder
    <3> QED
      BY <2>3, <2>5, <3>1
  <2> QED
    BY <1>1, <2>1, <2>2, <2>4, <2>5 DEF DurableReported
<1>7. SessionSeen'
  <2>1. \A t : Seen(t) => Seen(t)'
    BY <1>1, FlushedIsStored DEF Seen, Frames
  <2>2. \A f \in rec.waiting : \A t \in rec.at + 1 .. f : t \in rec.at + 1 .. time
    BY <1>2 DEF RecorderInv, FramesInOrder
  <2>3. rec.pc # "status" => rec.waiting = {}
    BY DEF RecorderInv, FramesInOrder
  <2>4. rec.pc = "status" => \A t \in rec.at + 1 .. time : Seen(t)'
    BY <2>1 DEF RecorderInv, SessionSeen, Attempting
  <2>5. \A f \in rec.waiting : \A t \in rec.at + 1 .. f : Seen(t)'
    BY <2>2, <2>3, <2>4
  <2>6. rec'.pc \in Attempting => rec.pc = "status"
    BY <1>1 DEF Attempting
  <2> QED
    BY <1>1, <2>4, <2>5, <2>6 DEF SessionSeen
<1>8. ChunksNumbered'
  <2>1. \A c \in chunks : c.key[1] = rec.session => c.key[2] <= rec.seq
    BY DEF RecorderInv, ChunksNumbered, Flushing
  <2>2. \A c \in chunks : c.key # <<rec.session, rec.seq + 1>>
    BY <1>2, <2>1
  <2>3. \A c \in chunks : c.key[1] = rec.session => c.key[2] <= rec.seq + 1
    BY <1>2, <2>1
  <2>4. rec'.pc \notin Flushing
    <3>1. pc \notin Flushing
      BY DEF Flushing
    <3> QED
      BY <1>1, <3>1
  <2>5. \A c \in chunks : /\ c.key[1] <= sessions /\ c.frames \cap rec'.waiting = {}
                          /\ c.frames \cap rec'.frames = {}
    BY <1>1 DEF RecorderInv, ChunksNumbered
  <2>6. /\ \A c, d \in chunks : c # d => c.frames \cap d.frames = {}
        /\ rec.session <= sessions
    BY DEF RecorderInv, ChunksNumbered
  <2> QED
    BY <1>1, <2>2, <2>3, <2>4, <2>5, <2>6 DEF ChunksNumbered
<1> QED
  BY <1>4, <1>5, <1>6, <1>7, <1>8 DEF RecorderInv

LEMMA StatusNotWritten ==
  ASSUME RecorderInv, rec.pc = "status", rec' = StatusFailed(rec),
         UNCHANGED <<time, chunks, gaps, status, first, connecting, sessions>>
  PROVE  RecorderInv'
<1>1. /\ rec'.pc = "closing" /\ rec'.at = rec.at /\ rec'.frames = rec.frames /\ rec'.waiting = {}
      /\ rec'.session = rec.session /\ rec'.seq = rec.seq
  BY DEF RecorderInv, RecorderTypes, StatusFailed
<1>2. RecorderTypes'
  BY DEF RecorderInv, RecorderTypes, RecorderPcs, StatusFailed
<1>3. FramesInOrder'
  BY <1>1 DEF RecorderInv, FramesInOrder, Flushing
<1>4. DurableReported'
  BY <1>1 DEF RecorderInv, DurableReported, Reported, Within, Frames
<1>5. SessionSeen'
  <2>1. ASSUME NEW f \in rec.frames, NEW t \in rec.at + 1 .. f PROVE Seen(t)'
    <3>1. t \notin rec.waiting
      BY <2>1 DEF RecorderInv, RecorderTypes, FramesInOrder
    <3> QED
      BY <1>1, <2>1, <3>1 DEF RecorderInv, SessionSeen, Seen, Frames
  <2> QED
    BY <1>1, <2>1 DEF SessionSeen, Attempting
<1>6. ChunksNumbered'
  BY <1>1 DEF RecorderInv, ChunksNumbered, Flushing
<1> QED
  BY <1>2, <1>3, <1>4, <1>5, <1>6 DEF RecorderInv

LEMMA WriteStatusStep == ASSUME RecorderInv, WriteStatus PROVE RecorderInv'
<1>1. rec.pc \in Flushing /\ UNCHANGED <<time, chunks, gaps, connecting, sessions>>
  BY DEF WriteStatus, Apart, Flushing
<1>2. CASE /\ status' = [status EXCEPT !.durable = Newest(rec.frames)]
           /\ first' = IF first = Missing THEN Oldest(rec.frames) ELSE first
           /\ rec' = [rec EXCEPT !.pc = IF @ = "status" THEN "on" ELSE "closing", !.seq = @ + 1,
                                 !.frames = rec.waiting, !.waiting = {}]
  <2> DEFINE pc == IF rec.pc = "status" THEN "on" ELSE "closing"
  <2>1. rec' = [rec EXCEPT !.pc = pc, !.seq = rec.seq + 1, !.frames = rec.waiting, !.waiting = {}]
    BY <1>2 DEF RecorderInv, RecorderTypes
  <2> HIDE DEF pc
  <2> QED
    BY <1>1, <1>2, <2>1, StatusWritten DEF pc
<1>3. CASE /\ UNCHANGED <<status, first>>
           /\ rec' = IF rec.pc = "status" THEN StatusFailed(rec) ELSE Off
  BY <1>1, <1>3, RecorderStops, StatusNotWritten
<1> QED
  BY <1>2, <1>3 DEF WriteStatus, Rec

LEMMA RecorderStep == ASSUME RecorderInv, [FeedNext]_feedVars PROVE RecorderInv'
<1>1. CASE Restore \/ Discover \/ Publish \/ PublishFails \/ Change \/ UNCHANGED feedVars
  BY <1>1, RecorderRests
     DEF Restore, Discover, Publish, PublishFails, Change, feedVars, recording
<1>2. CASE Connect
  <2>1. rec' = [rec EXCEPT !.pc = "on"] /\ rec.pc = "connect"
        /\ UNCHANGED <<time, chunks, gaps, status, first, connecting, sessions>>
    BY <1>2 DEF Connect, Rec, Apart
  <2>2. status' \in [durable : {status.durable}, frame : Nat \cup {Missing}]
    BY <2>1 DEF RecorderInv, RecorderTypes
  <2> QED
    BY <2>1, <2>2, RecorderTurns
<1>3. CASE Drop
  <2>1. rec' = [rec EXCEPT !.pc = "closing"] /\ rec.pc \in {"connect", "on"}
        /\ UNCHANGED <<time, chunks, gaps, status, first, connecting, sessions>>
    BY <1>3 DEF Drop, Rec, Apart
  <2>2. status' \in [durable : {status.durable}, frame : Nat \cup {Missing}]
    BY <2>1 DEF RecorderInv, RecorderTypes
  <2> QED
    BY <2>1, <2>2, RecorderTurns
<1>4. CASE Closed
  BY <1>4, RecorderStops DEF Closed, Rec, Apart
<1>5. CASE WorkerDies
  BY <1>5, RecorderStops DEF WorkerDies, Rec
<1> QED
  BY <1>1, <1>2, <1>3, <1>4, <1>5, ReadPlanStep, RecordGapStep, WriteChunkStep, WriteStatusStep,
     CheckStep, FrameStep DEF FeedNext, Record

-----------------------------------------------------------------------------

\* Whatever drops, fails or dies, and whenever: each frame is in one chunk at most, and
\* each one since the first that a status made durable is in a chunk, inside a gap on
\* record or was sent while a socket was being opened.
THEOREM FramesAreAccounted == RecorderSpec => []FramesAccounted
<1>1. RecorderInv => FramesAccounted
  BY DEF RecorderInv, DurableReported, ChunksNumbered, FramesAccounted, GapsReported, FrameStoredOnce,
         Reported
<1> QED
  BY <1>1, RecorderBegins, RecorderStep, PTL DEF RecorderSpec
=============================================================================
