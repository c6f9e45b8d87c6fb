------------------------ MODULE CollectionJob_proofs ------------------------
(***************************************************************************)
(* PauseHolds for any number of jobs, runners, errors, pages and days, and  *)
(* however the runs overlap.  DocsInv is the inductive invariant: every     *)
(* document is a record that has a state, the copies of the runs too, and   *)
(* a run that is going works on a job there is; so what save_job writes has *)
(* the state it was given.                                                  *)
(*                                                                         *)
(* EveryExpiryHasOutcome as long as no lease ends while its run goes on.    *)
(* JobInv is the inductive invariant: whoever works holds the lease, and    *)
(* what a chain listed has an outcome or is still to be asked for           *)
(* (Accounted), in the documents of the jobs and in the copy of the run.    *)
(* A task that is refused, skipped or left without an answer must therefore *)
(* not be a chain that was answered before (Fresh): the raw answer behind   *)
(* each chain (OutcomesOf) is what a run at its task would have found.      *)
(***************************************************************************)
EXTENDS CollectionJob, TLAPS, FiniteSetTheorems, WellFoundedInduction

Stateful(d) == d = [f \in DOMAIN d |-> d[f]] /\ "state" \in DOMAIN d
RunSound(x) ==
    /\ x = [f \in {"pc", "job", "doc", "raw", "body", "failed"} |-> x[f]]
    /\ Stateful(x.doc)
    /\ x.pc # "idle" => x.job \in Ids

JobsSound == jobs = [j \in Ids |-> jobs[j]] /\ \A j \in Ids : Stateful(jobs[j])
RunsSound == run = [r \in Runners |-> run[r]] /\ \A r \in Runners : RunSound(run[r])
DocsInv == JobsSound /\ RunsSound

LEMMA DocChanges ==
    ASSUME NEW d, Stateful(d), NEW f, NEW v
    PROVE  Stateful([d EXCEPT ![f] = v])
BY DEF Stateful

LEMMA Constants == Stateful(create) /\ Stateful(NoJob) /\ RunSound(Idle)
<1>1. Stateful(create)
  BY DEF Stateful, create
<1>2. Stateful(NoJob)
  BY DEF Stateful, NoJob
<1>3. RunSound(Idle)
  BY <1>2 DEF RunSound, Idle
<1> QED
  BY <1>1, <1>2, <1>3

\* Nothing that is done to a document takes its state away.
LEMMA StepsOfDocs ==
    ASSUME NEW d, Stateful(d), NEW t
    PROVE  /\ Stateful(Leave(d, t)) /\ Stateful(Assess(d, t)) /\ Stateful(record_rejection(d, t))
           /\ \A b : Stateful(Succeed(d, t, b))
           /\ \A e : Stateful(Handle(d, t, e))
           /\ \A j : Stateful(Planned(j, d))
           /\ \A old : Stateful(save_job(old, d))
           /\ Stateful(Resumed(d))
<1>1. ASSUME NEW x, Stateful(x) PROVE Stateful(Leave(x, t))
  BY <1>1 DEF Leave, Stateful
<1>2. ASSUME NEW x, Stateful(x) PROVE Stateful(Assess(x, t))
  <2>1. Stateful(Leave(x, t))
    BY <1>1, <1>2
  <2> QED
    BY <2>1 DEF Assess, Stateful
<1>3. Stateful(record_rejection(d, t))
  <2> DEFINE y == [Assess(d, t) EXCEPT !.wait = "no", !.reviewable = FALSE]
  <2>1. Stateful(y)
    <3>1. Stateful(Assess(d, t))
      BY <1>2
    <3> QED
      BY <3>1 DEF Stateful
  <2>2. Stateful([y EXCEPT !.parent = None])
    <3> HIDE DEF y
    <3> QED
      BY <2>1 DEF Stateful
  <2>3. record_rejection(d, t) \in {y, [y EXCEPT !.parent = None]}
    BY DEF record_rejection
  <2> HIDE DEF y
  <2> QED
    BY <2>1, <2>2, <2>3
<1>4. ASSUME NEW b PROVE Stateful(Succeed(d, t, b))
  <2> DEFINE listed == IF t.family = "chain" /\ b = "rows"
                       THEN Unexpired ELSE <<>>
             d0 == [d EXCEPT !.assessed = @ + 1, !.retries = 0, !.wait = "no", !.reviewable = FALSE]
             d1 == IF t.family = "chain" /\ b = "rows"
                   THEN [d0 EXCEPT !.pending = listed, !.parent = t] ELSE d0
             d2 == [Leave(d1, t) EXCEPT !.current = None]
             d3 == IF d2.pending # <<>> THEN [d2 EXCEPT !.current = NextChild(d2)]
                   ELSE [d2 EXCEPT !.parent = None]
  <2>1. Succeed(d, t, b) = d3
    BY DEF Succeed
  <2>2. Stateful(d0)
    BY DEF Stateful
  <2> HIDE DEF listed, d0
  <2>3. Stateful(d1)
    BY <2>2 DEF Stateful
  <2> HIDE DEF d1
  <2>4. Stateful(d2)
    BY <1>1, <2>3, DocChanges
  <2> HIDE DEF d2
  <2>5. Stateful(d3)
    BY <2>4, DocChanges
  <2> HIDE DEF d3
  <2> QED
    BY <2>1, <2>5
<1>5. ASSUME NEW e PROVE Stateful(Handle(d, t, e))
  <2>1. Stateful(Assess(d, t))
    BY <1>2
  <2>2. /\ Stateful([d EXCEPT !.state = "token_required"]) /\ Stateful([d EXCEPT !.wait = "nextday"])
        /\ Stateful([d EXCEPT !.state = "permission_blocked"])
        /\ Stateful([d EXCEPT !.retries = @ + 1, !.wait = "backoff"])
        /\ Stateful([d EXCEPT !.state = "request_review", !.reviewable = TRUE, !.retries = 0, !.wait = "no"])
    BY DEF Stateful
  <2>3. \/ Handle(d, t, e) = [d EXCEPT !.state = "token_required"]
        \/ Handle(d, t, e) = [d EXCEPT !.wait = "nextday"]
        \/ Handle(d, t, e) = [d EXCEPT !.state = "permission_blocked"]
        \/ Handle(d, t, e) = [d EXCEPT !.retries = @ + 1, !.wait = "backoff"]
        \/ Handle(d, t, e) = [d EXCEPT !.state = "request_review", !.reviewable = TRUE,
                                       !.retries = 0, !.wait = "no"]
        \/ Handle(d, t, e) = record_rejection(d, t)
        \/ Handle(d, t, e) = Assess(d, t)
    BY DEF Handle
  <2> QED
    BY <1>3, <2>1, <2>2, <2>3
<1>6. ASSUME NEW j PROVE Stateful(Planned(j, d))
  BY DEF Planned, Stateful
<1>7. ASSUME NEW old PROVE Stateful(save_job(old, d))
  BY DEF save_job, Stateful
<1>8. Stateful(Resumed(d))
  BY DEF Resumed, Stateful
<1> QED
  BY <1>1, <1>2, <1>3, <1>4, <1>5, <1>6, <1>7, <1>8

LEMMA JobChanges ==
    ASSUME JobsSound, NEW j, NEW d, Stateful(d), jobs' = [jobs EXCEPT ![j] = d]
    PROVE  JobsSound'
BY DEF JobsSound

LEMMA RunChanges ==
    ASSUME RunsSound, NEW r, NEW x, RunSound(x), run' = [run EXCEPT ![r] = x]
    PROVE  RunsSound'
BY DEF RunsSound

\* A run that goes on, with another document or with none.
LEMMA RunGoesOn ==
    ASSUME NEW x, RunSound(x), x.pc # "idle", NEW pc
    PROVE  /\ RunSound([x EXCEPT !.pc = pc])
           /\ \A d : Stateful(d) => RunSound([x EXCEPT !.pc = pc, !.doc = d])
           /\ \A k, b : RunSound([x EXCEPT !.raw = k, !.pc = pc, !.body = b])
           /\ \A b : RunSound([x EXCEPT !.pc = pc, !.body = b])
           /\ \A f : RunSound([x EXCEPT !.pc = pc, !.failed = f])
<1>1. x.job \in Ids /\ Stateful(x.doc)
  BY DEF RunSound
<1> QED
  BY <1>1 DEF RunSound

LEMMA PauseIsKept ==
    ASSUME NEW old, NEW d, Stateful(d), old.state = "paused"
    PROVE  save_job(old, d).state # "running"
BY DEF save_job, Stateful

Paused(j) == jobs[j].state = "paused"
PausedStay == \A j \in Ids : Paused(j) => jobs'[j].state # "running"

\* A step of a run that leaves the documents alone.
LEMMA RunOnly ==
    ASSUME DocsInv, NEW r \in Runners, NEW x, RunSound(x),
           run' = [run EXCEPT ![r] = x], jobs' = jobs
    PROVE  DocsInv' /\ PausedStay
<1>1. JobsSound' /\ RunsSound'
  BY RunChanges DEF DocsInv, JobsSound
<1>2. \A j \in Ids : jobs'[j] = jobs[j]
  OBVIOUS
<1> QED
  BY <1>1, <1>2 DEF DocsInv, PausedStay, Paused

\* A step of a run that writes the document of its job.
LEMMA RunWrites ==
    ASSUME DocsInv, NEW r \in Runners, NEW x, RunSound(x), run' = [run EXCEPT ![r] = x],
           NEW d, Stateful(d), jobs' = [jobs EXCEPT ![Job(r)] = d],
           jobs[Job(r)].state = "paused" => d.state # "running"
    PROVE  DocsInv' /\ PausedStay
<1>1. JobsSound' /\ RunsSound'
  BY RunChanges, JobChanges DEF DocsInv
<1>2. \A j \in Ids : jobs'[j] = IF j = Job(r) THEN d ELSE jobs[j]
  BY DEF DocsInv, JobsSound
<1> QED
  BY <1>1, <1>2 DEF DocsInv, PausedStay, Paused

LEMMA RunStep ==
    ASSUME DocsInv, NEW r \in Runners, Step(r) \/ Abort(r) \/ Crash(r)
    PROVE  DocsInv' /\ PausedStay
<1>0. RunSound(run[r]) /\ RunSound(Idle)
  BY Constants DEF DocsInv, RunsSound
<1>1. ASSUME run[r].pc # "idle" PROVE Job(r) \in Ids /\ Stateful(Doc(r)) /\ Stateful(jobs[Job(r)])
  BY <1>0, <1>1 DEF RunSound, Job, Doc, DocsInv, JobsSound
<1>2. ASSUME NEW pc, Go(r, pc), run[r].pc # "idle", jobs' = jobs PROVE DocsInv' /\ PausedStay
  <2>1. run' = [run EXCEPT ![r] = [run[r] EXCEPT !.pc = pc]]
    BY <1>2 DEF Go, DocsInv, RunsSound
  <2> QED
    BY <1>0, <1>2, <2>1, RunGoesOn, RunOnly
<1>3. ASSUME run' = [run EXCEPT ![r] = Idle], jobs' = jobs PROVE DocsInv' /\ PausedStay
  BY <1>0, <1>3, RunOnly
<1>4. ASSUME NEW pc, NEW d, Stateful(d), run[r].pc # "idle", jobs' = jobs,
             run' = [run EXCEPT ![r].pc = pc, ![r].doc = d]
      PROVE  DocsInv' /\ PausedStay
  <2>1. run' = [run EXCEPT ![r] = [run[r] EXCEPT !.pc = pc, !.doc = d]]
    BY <1>4 DEF DocsInv, RunsSound
  <2>2. RunSound([run[r] EXCEPT !.pc = pc, !.doc = d])
    BY <1>0, <1>4, RunGoesOn
  <2> QED
    BY <1>4, <2>1, <2>2, RunOnly
<1>5. CASE \E j \in Ids : Ready(r, j)
  <2>1. PICK j \in Ids : Ready(r, j)
    BY <1>5
  <2>2. RunSound([Idle EXCEPT !.pc = "acquire", !.job = j])
    BY Constants DEF RunSound, Idle
  <2> QED
    BY <2>1, <2>2, RunOnly DEF Ready
<1>6. CASE Acquire(r)
  <2>1. run[r].pc # "idle" /\ jobs' = jobs
    BY <1>6 DEF Acquire
  <2>2. CASE lease = None
    BY <1>2, <1>6, <2>1, <2>2 DEF Acquire
  <2>3. CASE lease # None
    BY <1>3, <1>6, <2>1, <2>3 DEF Acquire
  <2> QED
    BY <2>2, <2>3
<1>7. CASE Read(r)
  <2>1. run[r].pc # "idle" /\ jobs' = jobs
    BY <1>7 DEF Read
  <2>2. CASE jobs[Job(r)].state # "running" \/ jobs[Job(r)].wait \in Waiting
    BY <1>2, <1>7, <2>1, <2>2 DEF Read
  <2>3. CASE ~(jobs[Job(r)].state # "running" \/ jobs[Job(r)].wait \in Waiting)
    <3> DEFINE doc == Planned(Job(r), jobs[Job(r)])
    <3>1. Stateful(doc)
      BY <1>1, <2>1, StepsOfDocs
    <3>2. \E d \in {doc, [doc EXCEPT !.state = "paused"]} :
             run' = [run EXCEPT ![r].pc = "checkpoint", ![r].doc = d]
      BY <1>7, <2>3 DEF Read
    <3> HIDE DEF doc
    <3>3. Stateful([doc EXCEPT !.state = "paused"])
      BY <3>1, DocChanges
    <3> QED
      BY <1>4, <2>1, <3>1, <3>2, <3>3
  <2> QED
    BY <2>2, <2>3
<1>8. CASE Checkpoint(r)
  <2> DEFINE doc == save_job(jobs[Job(r)], Doc(r))
             pc == IF Task(r) = None \/ Doc(r).state # "running" THEN "release" ELSE "look"
             x == [run[r] EXCEPT !.pc = pc, !.doc = doc]
  <2>1. /\ run[r].pc # "idle" /\ jobs' = [jobs EXCEPT ![Job(r)] = doc]
        /\ run' = [run EXCEPT ![r].doc = doc, ![r].pc = pc]
    BY <1>8 DEF Checkpoint
  <2>2. Stateful(doc) /\ (jobs[Job(r)].state = "paused" => doc.state # "running")
    BY <1>1, <2>1, StepsOfDocs, PauseIsKept
  <2> HIDE DEF doc, pc
  <2>3. run' = [run EXCEPT ![r] = x]
    BY <1>0, <2>1 DEF DocsInv, RunsSound, RunSound
  <2>4. RunSound(x)
    BY <1>0, <2>1, <2>2, RunGoesOn
  <2> HIDE DEF x
  <2> QED
    BY <2>1, <2>2, <2>3, <2>4, RunWrites
<1>9. CASE Look(r)
  <2>1. PICK k, b, pc : /\ run[r].pc # "idle" /\ jobs' = jobs
                        /\ run' = [run EXCEPT ![r].raw = k, ![r].pc = pc, ![r].body = b]
    BY <1>9 DEF Look
  <2>2. run' = [run EXCEPT ![r] = [run[r] EXCEPT !.raw = k, !.pc = pc, !.body = b]]
    BY <2>1 DEF DocsInv, RunsSound
  <2>3. RunSound([run[r] EXCEPT !.raw = k, !.pc = pc, !.body = b])
    BY <1>0, <2>1, RunGoesOn
  <2> QED
    BY <2>1, <2>2, <2>3, RunOnly
<1>10. CASE Unsupported(r)
  <2>1. Stateful(Succeed(Doc(r), Task(r), "unsupported")) /\ run[r].pc # "idle"
    BY <1>1, <1>10, StepsOfDocs DEF Unsupported
  <2> QED
    BY <1>4, <1>10, <2>1 DEF Unsupported
<1>11. CASE Call(r)
  <2>1. run[r].pc # "idle" /\ jobs' = jobs /\ (Go(r, "sent") \/ Go(r, "release"))
    BY <1>11 DEF Call
  <2> QED
    BY <1>2, <2>1
<1>12. ASSUME NEW e, Refuse(r, e), run[r].pc # "idle" PROVE DocsInv' /\ PausedStay
  <2>1. Stateful(Handle(Doc(r), Task(r), e))
    BY <1>1, <1>12, StepsOfDocs
  <2> QED
    BY <1>4, <1>12, <2>1 DEF Refuse
<1>13. CASE OverBudget(r) \/ Unreadable(r) \/ \E e \in Errors : Error(r, e)
  <2>1. run[r].pc # "idle" /\ \E e : Refuse(r, e)
    BY <1>13 DEF OverBudget, Unreadable, Error
  <2> QED
    BY <1>12, <2>1
<1>14. CASE Persist(r)
  <2>1. Stateful(Succeed(Doc(r), Task(r), run[r].body)) /\ run[r].pc # "idle"
    BY <1>1, <1>14, StepsOfDocs DEF Persist
  <2> QED
    BY <1>4, <1>14, <2>1 DEF Persist
<1>15. CASE Save(r)
  <2> DEFINE doc == save_job(jobs[Job(r)], Doc(r))
  <2>1. /\ run[r].pc # "idle" /\ Go(r, "release")
        /\ jobs' = [jobs EXCEPT ![Job(r)] = save_job(@, Doc(r))]
    BY <1>15 DEF Save
  <2>2. jobs' = [jobs EXCEPT ![Job(r)] = doc]
    BY <1>1, <2>1 DEF DocsInv, JobsSound
  <2>3. Stateful(doc) /\ (jobs[Job(r)].state = "paused" => doc.state # "running")
    BY <1>1, <2>1, StepsOfDocs, PauseIsKept
  <2>4. run' = [run EXCEPT ![r] = [run[r] EXCEPT !.pc = "release"]]
    BY <2>1 DEF Go, DocsInv, RunsSound
  <2>5. RunSound([run[r] EXCEPT !.pc = "release"])
    BY <1>0, <2>1, RunGoesOn
  <2> HIDE DEF doc
  <2> QED
    BY <2>2, <2>3, <2>4, <2>5, RunWrites
<1>16. CASE Release(r)
  <2>1. /\ run[r].pc # "idle" /\ jobs' = jobs
        /\ run' = [run EXCEPT ![r] = IF run[r].failed
                     THEN [Idle EXCEPT !.pc = "report", !.job = Job(r)] ELSE Idle]
    BY <1>16 DEF Release
  <2>2. RunSound([Idle EXCEPT !.pc = "report", !.job = Job(r)])
    BY <1>1, <2>1, Constants DEF RunSound, Idle
  <2> QED
    BY <1>0, <2>1, <2>2, RunOnly
<1>17. CASE \E b \in Bodies : Answer(r, b)
  <2>1. PICK b : /\ run[r].pc # "idle" /\ jobs' = jobs
                 /\ run' = [run EXCEPT ![r].pc = "persist", ![r].body = b]
    BY <1>17 DEF Answer
  <2>2. run' = [run EXCEPT ![r] = [run[r] EXCEPT !.pc = "persist", !.body = b]]
    BY <2>1 DEF DocsInv, RunsSound
  <2>3. RunSound([run[r] EXCEPT !.pc = "persist", !.body = b])
    BY <1>0, <2>1, RunGoesOn
  <2> QED
    BY <2>1, <2>2, <2>3, RunOnly
<1>18. CASE \E transient \in BOOLEAN : pause_failed_job(r, transient)
  <2>1. PICK transient \in BOOLEAN : pause_failed_job(r, transient)
    BY <1>18
  <2> DEFINE old == jobs[Job(r)]
             doc == IF transient THEN [old EXCEPT !.wait = "backoff"] ELSE [old EXCEPT !.state = "paused"]
  <2>2. run[r].pc # "idle" /\ run' = [run EXCEPT ![r] = Idle]
    BY <2>1 DEF pause_failed_job
  <2>3. jobs' = [jobs EXCEPT ![Job(r)] = doc]
    BY <1>1, <2>1, <2>2 DEF pause_failed_job, DocsInv, JobsSound
  <2>4. Stateful(doc) /\ (old.state = "paused" => doc.state # "running")
    <3>1. Stateful(old)
      BY <1>1, <2>2
    <3> HIDE DEF old
    <3>2. Stateful(doc)
      BY <3>1, DocChanges
    <3>3. old.state = "paused" => doc.state # "running"
      BY <3>1 DEF Stateful
    <3> QED
      BY <3>2, <3>3
  <2> HIDE DEF doc
  <2> QED
    BY <1>0, <2>2, <2>3, <2>4, RunWrites
<1>19. CASE Abort(r)
  <2>1. /\ run[r].pc # "idle" /\ jobs' = jobs
        /\ run' = [run EXCEPT ![r].pc = "release", ![r].failed = TRUE]
    BY <1>19 DEF Abort
  <2>2. run' = [run EXCEPT ![r] = [run[r] EXCEPT !.pc = "release", !.failed = TRUE]]
    BY <2>1 DEF DocsInv, RunsSound
  <2>3. RunSound([run[r] EXCEPT !.pc = "release", !.failed = TRUE])
    BY <1>0, <2>1, RunGoesOn
  <2> QED
    BY <2>1, <2>2, <2>3, RunOnly
<1>20. CASE Crash(r)
  BY <1>3, <1>20 DEF Crash
<1> QED
  BY <1>5, <1>6, <1>7, <1>8, <1>9, <1>10, <1>11, <1>13, <1>14, <1>15, <1>16, <1>17, <1>18, <1>19,
     <1>20 DEF Step

\* What an admin, a day or a back-off does to documents keeps them whole.
LEMMA OthersStep ==
    ASSUME DocsInv, Control \/ (\E j \in Ids : Elapse(j)) \/ NextDay \/ ExpireLease \/ UNCHANGED vars
    PROVE  DocsInv' /\ run' = run
<1>0. \A j \in Ids : Stateful(jobs[j])
  BY DEF DocsInv, JobsSound
<1>1. ASSUME run' = run, JobsSound' PROVE DocsInv' /\ run' = run
  BY <1>1 DEF DocsInv, RunsSound
<1>2. ASSUME NEW j, NEW d, Stateful(d), jobs' = [jobs EXCEPT ![j] = d], run' = run
      PROVE  DocsInv' /\ run' = run
  BY <1>1, <1>2, JobChanges DEF DocsInv
<1>3. ASSUME NEW j \in Ids, Pause(j) PROVE DocsInv' /\ run' = run
  <2>1. Stateful([jobs[j] EXCEPT !.state = "paused", !.flag = TRUE])
    BY <1>0, <1>3 DEF Stateful
  <2> QED
    BY <1>2, <1>3, <2>1 DEF Pause, Admin
<1>4. ASSUME NEW j \in Ids, Resume(j) PROVE DocsInv' /\ run' = run
  <2>1. Stateful(Resumed(jobs[j]))
    BY <1>0, <1>4, StepsOfDocs
  <2> QED
    BY <1>2, <1>4, <2>1 DEF Resume, Admin
<1>5. ASSUME NEW j \in Ids, ContinueRejected(j) PROVE DocsInv' /\ run' = run
  <2> DEFINE rejected == record_rejection(jobs[j], jobs[j].current)
             d == [rejected EXCEPT !.skipRejected = TRUE, !.state = "paused"]
  <2>1. Stateful(rejected)
    BY <1>0, <1>5, StepsOfDocs
  <2>2. jobs' = [jobs EXCEPT ![j] = d] /\ run' = run
    BY <1>5 DEF ContinueRejected, DocsInv, JobsSound
  <2> HIDE DEF rejected
  <2>3. Stateful(d)
    BY <2>1 DEF Stateful
  <2> HIDE DEF d
  <2> QED
    BY <1>2, <2>2, <2>3
<1>6. ASSUME NEW j \in Ids, StopOnRejected(j) PROVE DocsInv' /\ run' = run
  <2>1. Stateful([jobs[j] EXCEPT !.skipRejected = FALSE])
    BY <1>0, <1>6 DEF Stateful
  <2> QED
    BY <1>2, <1>6, <2>1 DEF StopOnRejected, Admin
<1>7. ASSUME NEW j \in Ids, SkipBlocked(j) PROVE DocsInv' /\ run' = run
  <2> DEFINE left == Leave(jobs[j], jobs[j].current)
             d == [left EXCEPT !.assessed = @ + 1, !.state = "paused"]
  <2>1. Stateful(left)
    BY <1>0, <1>7, StepsOfDocs
  <2>2. jobs' = [jobs EXCEPT ![j] = d] /\ run' = run
    BY <1>7 DEF SkipBlocked, DocsInv, JobsSound
  <2> HIDE DEF left
  <2>3. Stateful(d)
    BY <2>1 DEF Stateful
  <2> HIDE DEF d
  <2> QED
    BY <1>2, <2>2, <2>3
<1>8. ASSUME NEW j \in Ids, NEW x, NEW c, Retry(j, x, c) PROVE DocsInv' /\ run' = run
  <2>1. PICK p, q : /\ jobs' = [jobs EXCEPT ![c] =
                         [create EXCEPT !.current = x.task, !.force = TRUE, !.flag = jobs[j].flag,
                                        !.skipRejected = jobs[j].skipRejected, !.parent = p, !.pending = q]]
                    /\ run' = run
    BY <1>8 DEF Retry
  <2>2. Stateful([create EXCEPT !.current = x.task, !.force = TRUE, !.flag = jobs[j].flag,
                                !.skipRejected = jobs[j].skipRejected, !.parent = p, !.pending = q])
    BY DEF Stateful, create
  <2> DEFINE d == [create EXCEPT !.current = x.task, !.force = TRUE, !.flag = jobs[j].flag,
                                 !.skipRejected = jobs[j].skipRejected, !.parent = p, !.pending = q]
  <2>3. Stateful(d) /\ jobs' = [jobs EXCEPT ![c] = d] /\ run' = run
    BY ONLY <2>1, <2>2, Zenon
  <2> HIDE DEF d
  <2> QED
    BY <1>2, <2>3
<1>9. CASE StartRecorder
  <2>1. \A j \in Ids : Stateful([jobs[j] EXCEPT !.state = "paused", !.flag = TRUE])
    BY <1>0 DEF Stateful
  <2>2. jobs' = [j \in Ids |-> jobs'[j]] /\ run' = run
        /\ \A j \in Ids : jobs'[j] \in {jobs[j], [jobs[j] EXCEPT !.state = "paused", !.flag = TRUE]}
    BY <1>9 DEF StartRecorder
  <2>3. JobsSound'
    BY <1>0, <2>1, <2>2 DEF JobsSound
  <2> QED
    BY <1>1, <2>2, <2>3
<1>10. CASE credentials_saved
  <2>1. \A j \in Ids : Stateful(Resumed(jobs[j]))
    BY <1>0, StepsOfDocs
  <2>2. jobs' = [j \in Ids |-> jobs'[j]] /\ run' = run
        /\ \A j \in Ids : jobs'[j] \in {jobs[j], Resumed(jobs[j])}
    BY <1>10 DEF credentials_saved
  <2>3. JobsSound'
    BY <1>0, <2>1, <2>2 DEF JobsSound
  <2> QED
    BY <1>1, <2>2, <2>3
<1>11. CASE NextDay
  <2>1. \A j \in Ids : Stateful([jobs[j] EXCEPT !.wait = "no"])
    BY <1>0 DEF Stateful
  <2>2. jobs' = [j \in Ids |-> jobs'[j]] /\ run' = run
        /\ \A j \in Ids : jobs'[j] \in {jobs[j], [jobs[j] EXCEPT !.wait = "no"]}
    BY <1>11 DEF NextDay
  <2>3. JobsSound'
    BY <1>0, <2>1, <2>2 DEF JobsSound
  <2> QED
    BY <1>1, <2>2, <2>3
<1>12. ASSUME NEW j \in Ids, Elapse(j) PROVE DocsInv' /\ run' = run
  <2>1. jobs' = [jobs EXCEPT ![j] = [jobs[j] EXCEPT !.wait = "no"]] /\ run' = run
    BY <1>12 DEF Elapse, DocsInv, JobsSound
  <2>2. Stateful([jobs[j] EXCEPT !.wait = "no"])
    BY <1>0, <1>12 DEF Stateful
  <2> QED
    BY <1>2, <2>1, <2>2
<1>13. CASE PauseRecorder \/ ExpireLease \/ UNCHANGED vars
  <2>1. jobs' = jobs /\ run' = run
    BY <1>13 DEF PauseRecorder, ExpireLease, vars
  <2>2. JobsSound'
    BY <2>1 DEF DocsInv, JobsSound
  <2> QED
    BY <1>1, <2>1, <2>2
<1> QED
  BY <1>3, <1>4, <1>5, <1>6, <1>7, <1>8, <1>9, <1>10, <1>11, <1>12, <1>13 DEF Control, Command

LEMMA DocsBegin == Init => DocsInv
<1> SUFFICES ASSUME Init PROVE DocsInv
  OBVIOUS
<1>1. JobsSound
  BY Constants DEF Init, JobsSound
<1>2. RunsSound
  BY Constants DEF Init, RunsSound
<1> QED
  BY <1>1, <1>2 DEF DocsInv

\* Whatever the runs in flight find out, and however they overlap: none of them sets a job
\* going again that was paused when it wrote.
THEOREM NoRunRestarts == Spec => PauseHolds
<1> DEFINE Held == \A j \in Ids : Exists(j) /\ Paused(j) /\ run' # run => jobs'[j].state # "running"
<1>1. DocsInv /\ [Next]_vars => DocsInv' /\ Held
  <2> SUFFICES ASSUME DocsInv, [Next]_vars PROVE DocsInv' /\ Held
    OBVIOUS
  <2>1. CASE \E r \in Runners : Step(r) \/ Abort(r) \/ Crash(r)
    BY <2>1, RunStep DEF PausedStay
  <2>2. CASE Control \/ (\E j \in Ids : Elapse(j)) \/ NextDay \/ ExpireLease \/ UNCHANGED vars
    BY <2>2, OthersStep
  <2> QED
    BY <2>1, <2>2 DEF Next, Environment
<1>2. Held <=> \A j \in Ids : Exists(j) /\ jobs[j].state = "paused" /\ run' # run => jobs'[j].state # "running"
  BY DEF Paused
<1> QED
  BY <1>1, <1>2, DocsBegin, PTL DEF Spec, PauseHolds

-----------------------------------------------------------------------------
(* What a job may be at                                                    *)

CursorFields == {"page", "item", "variant", "window", "ack"}
TaskFields == {"family", "item", "variant", "from", "to", "skip", "gap", "batch", "span", "expiry"}
DocFields == {"state", "flag", "cursor", "current", "pending", "parent", "retries", "wait",
              "reviewable", "skipRejected", "force", "assessed"}

CursorSound(c) == c = [f \in CursorFields |-> c[f]] /\ c.variant \in Nat
IsTask(t) == t = [f \in TaskFields |-> t[f]]
ChainLike(t) == (t.family = "chain" /\ t.skip = None) \/ t.family = "chain_snapshot"
TaskSound(t) == IsTask(t) /\ (ChainLike(t) => t \in ChainTasks)

\* What NextTask may yield: a cursor, and no task or one of a planned family.
PlanSound(w) ==
    /\ CursorSound(w.cursor)
    /\ w.task # None => TaskSound(w.task) /\ w.task.family # "chain_snapshot"

\* A non-empty set of numbers has a least element.
LEMMA LeastExists ==
  ASSUME NEW S \in SUBSET Nat, S # {}
  PROVE  \E m \in S : \A x \in S : m <= x
<1>1. PICK m \in S : \A x \in S : ~(<<x, m>> \in OpToRel(<, Nat))
  BY NatLessThanWellFounded, WFMin
<1>2. ASSUME NEW x \in S PROVE m <= x
  <2>1. x \in Nat /\ m \in Nat /\ <<x, m>> \in Nat \X Nat
    OBVIOUS
  <2>2. ~(x < m)
    BY <1>1, <2>1 DEF OpToRel
  <2> QED
    BY <2>1, <2>2
<1> QED
  BY <1>2

LEMMA FirstWanted ==
    ASSUME NEW ahead, ahead # {}, ahead \subseteq Nat \X Nat
    PROVE  \E pos \in ahead : \A q \in ahead : q[1] > pos[1] \/ (q[1] = pos[1] /\ q[2] >= pos[2])
<1> DEFINE pages == {pos[1] : pos \in ahead}
<1>1. pages # {} /\ pages \subseteq Nat
  OBVIOUS
<1>2. PICK p \in pages : \A q \in pages : p <= q
  <2> HIDE DEF pages
  <2> QED
    BY <1>1, LeastExists
<1> DEFINE items == {pos[2] : pos \in {x \in ahead : x[1] = p}}
<1>4. items # {} /\ items \subseteq Nat
  OBVIOUS
<1>5. PICK i \in items : \A q \in items : i <= q
  <2> HIDE DEF items
  <2> QED
    BY <1>4, LeastExists
<1>7. PICK pos \in ahead : pos[1] = p /\ pos[2] = i
  OBVIOUS
<1>8. ASSUME NEW q \in ahead PROVE q[1] > pos[1] \/ (q[1] = pos[1] /\ q[2] >= pos[2])
  <2>1. p <= q[1] /\ (q[1] = p => i <= q[2])
    BY <1>2, <1>5
  <2>2. q[1] \in Nat /\ q[2] \in Nat /\ p \in Nat /\ i \in Nat
    BY <1>1, <1>4
  <2> QED
    BY <1>7, <2>1, <2>2
<1> QED
  BY <1>8

Plans == {Pages, <<>>}

\* A cursor is moved field by field.
LEMMA CursorMoves ==
    ASSUME NEW c, CursorSound(c)
    PROVE  /\ \A v, f : f \in CursorFields \ {"variant"} => CursorSound([c EXCEPT ![f] = v])
           /\ \A n \in Nat : CursorSound([c EXCEPT !.variant = n])
BY DEF CursorSound, CursorFields

\* At another item, it begins with its first variant and window.
Jumped(c, p, i) == [c EXCEPT !.page = p, !.item = i, !.variant = 0, !.window = 0]

LEMMA CursorJumps ==
    ASSUME NEW c, CursorSound(c), NEW p, NEW i
    PROVE  CursorSound(Jumped(c, p, i)) /\ Jumped(c, p, i).page = p /\ Jumped(c, p, i).item = i
<1>1. CursorSound([[[[c EXCEPT !.page = p] EXCEPT !.item = i] EXCEPT !.variant = 0] EXCEPT !.window = 0])
  BY CursorMoves DEF CursorFields
<1>2. Jumped(c, p, i) = [[[[c EXCEPT !.page = p] EXCEPT !.item = i] EXCEPT !.variant = 0] EXCEPT !.window = 0]
  BY DEF Jumped
<1>3. Jumped(c, p, i).page = p /\ Jumped(c, p, i).item = i
  BY DEF Jumped, CursorSound, CursorFields
<1> QED
  BY <1>1, <1>2, <1>3

\* It goes to the next item, or to the next variant.
LEMMA CursorLeaves ==
    ASSUME NEW c, CursorSound(c), NEW i
    PROVE  /\ CursorSound([c EXCEPT !.item = i, !.variant = 0, !.window = 0])
           /\ CursorSound([c EXCEPT !.variant = @ + 1, !.window = 0, !.ack = FALSE])
<1>1. CursorSound([[[c EXCEPT !.item = i] EXCEPT !.variant = 0] EXCEPT !.window = 0])
  BY CursorMoves DEF CursorFields
<1>2. c.variant + 1 \in Nat
  BY DEF CursorSound
<1>3. CursorSound([[[c EXCEPT !.variant = c.variant + 1] EXCEPT !.window = 0] EXCEPT !.ack = FALSE])
  BY <1>2, CursorMoves DEF CursorFields
<1> QED
  BY <1>1, <1>3

LEMMA SelectIsSound ==
    ASSUME NEW pages \in Plans, NEW c, CursorSound(c)
    PROVE  LET s == select_item(pages, Cfg, c)
           IN CursorSound(s) /\ (s.page > Len(pages) \/ <<s.page, s.item>> \in Wanted(pages, Cfg))
<1> DEFINE ahead == {pos \in Wanted(pages, Cfg) : NotBefore(pos, c)}
           first == CHOOSE pos \in ahead : \A q \in ahead :
                      q[1] > pos[1] \/ (q[1] = pos[1] /\ q[2] >= pos[2])
           s == select_item(pages, Cfg, c)
<1>1. Len(pages) \in Nat
  BY ChainsAssumption DEF Plans
<1>2. ahead \subseteq Nat \X Nat /\ \A pos \in Wanted(pages, Cfg) : pos = <<pos[1], pos[2]>>
  BY <1>1 DEF Wanted
<1>3. CASE ahead = {}
  <2>1. s = [c EXCEPT !.page = Len(pages) + 1, !.item = 1, !.variant = 0, !.window = 0]
    BY <1>3 DEF select_item
  <2> DEFINE last == Len(pages) + 1
             t == Jumped(c, last, 1)
  <2> HIDE DEF last
  <2>3. CursorSound(t) /\ t.page = last
    BY CursorJumps
  <2>4. s = t
    BY <2>1 DEF last, Jumped
  <2>5. last > Len(pages)
    BY <1>1 DEF last
  <2> HIDE DEF s, t
  <2> QED
    BY <2>3, <2>4, <2>5 DEF s
<1>4. CASE ahead # {}
  <2>1. first \in ahead
    BY <1>2, <1>4, FirstWanted
  <2>2. first \in Wanted(pages, Cfg) /\ first = <<first[1], first[2]>>
    BY <1>2, <2>1
  <2>3. s = IF first = <<c.page, c.item>> THEN c
            ELSE [c EXCEPT !.page = first[1], !.item = first[2], !.variant = 0, !.window = 0]
    BY <1>4 DEF select_item
  <2> HIDE DEF first
  <2>4. CASE first = <<c.page, c.item>>
    BY <2>2, <2>3, <2>4
  <2>5. CASE first # <<c.page, c.item>>
    <3> DEFINE p == first[1]
               i == first[2]
               t == Jumped(c, p, i)
    <3>1. s = t
      BY <2>3, <2>5 DEF Jumped
    <3> HIDE DEF p, i
    <3>3. CursorSound(t) /\ t.page = p /\ t.item = i
      BY CursorJumps
    <3>4. <<p, i>> \in Wanted(pages, Cfg)
      BY <2>2 DEF p, i
    <3> HIDE DEF s, t
    <3> QED
      BY <3>1, <3>3, <3>4 DEF s
  <2> QED
    BY <2>4, <2>5
<1> QED
  BY <1>3, <1>4

\* What a cursor stands for is a request of the family of its page.
LEMMA TaskIsSound ==
    ASSUME NEW pages \in Plans, NEW c, CursorSound(c), <<c.page, c.item>> \in Wanted(pages, Cfg), NEW day
    PROVE  PlanSound(task(pages, Cfg, c, day))
<1> DEFINE family == pages[c.page].family
           entries == pages[c.page].items
           i == IF family = "rolling" THEN rolling_index_item(ItemAt(pages, c)) ELSE ItemAt(pages, c)
           all == variants(family, i, Cfg)
           horizon == day - Horizon
           minute == family \in {"intraday", "rolling"}
           expiry == contract_expiry(i)
           gone == family = "intraday" /\ Expired(i, day)
           start0 == IF minute THEN Most(Cfg.start, horizon) ELSE Cfg.start
           end0 == IF family \in {"daily", "intraday"} /\ expiry # 0
                   THEN Least(Cfg.end, expiry + 1) ELSE Cfg.end
           days == IF family = "daily" THEN Most(1, end0 - start0) ELSE Window[family]
           from == IF family \in History THEN start0 + c.window * days ELSE start0
           to == IF family \in History THEN Least(end0, from + days) ELSE end0
           skip == SkipReason(family, i, day)
           base == [family |-> family, item |-> i, variant |-> all[c.variant + 1],
                    from |-> from, to |-> to, skip |-> skip, gap |-> FALSE,
                    batch |-> {}, span |-> 0, expiry |-> 0]
           last == Run(entries, c.item, family, day, Cfg, skip)
           gap == minute /\ Cfg.start < horizon /\ ~c.ack
           batched == family \in DOMAIN Batch \/ (skip # None /\ family = "depth200")
           outside == [base EXCEPT !.from = Cfg.start, !.gap = TRUE,
                                   !.to = Least(Cfg.end, horizon), !.skip = "outside horizon"]
           whole == [base EXCEPT !.from = start0, !.to = Cfg.end]
           several == [base EXCEPT !.span = last - c.item + 1,
                         !.batch = {entries[k] : k \in {n \in c.item..last : Selected(Cfg, entries[n])}}]
           planned == CASE gap -> outside [] gone /\ ~gap -> whole [] batched /\ ~gone -> several
                        [] OTHER -> base
<1>1. task(pages, Cfg, c, day) =
        IF c.variant >= Len(all)
        THEN Moved([c EXCEPT !.item = @ + 1, !.variant = 0, !.window = 0])
        ELSE IF family \in History /\ from >= to /\ ~gap /\ ~gone
        THEN Moved([c EXCEPT !.variant = @ + 1, !.window = 0, !.ack = FALSE])
        ELSE [cursor |-> c, task |-> planned, done |-> FALSE]
  BY Zenon DEF task
<1>2. /\ c.page \in DOMAIN pages /\ pages = Pages /\ family \in History \cup Feeds \cup {"chain", "quotes"}
      /\ c.item \in DOMAIN pages[c.page].items
  BY ChainsAssumption DEF Wanted, Plans
<1>3. /\ CursorSound([c EXCEPT !.item = @ + 1, !.variant = 0, !.window = 0])
      /\ CursorSound([c EXCEPT !.variant = @ + 1, !.window = 0, !.ack = FALSE])
  BY CursorLeaves
<1>4. ASSUME NEW d, CursorSound(d) PROVE PlanSound(Moved(d))
  BY <1>4 DEF PlanSound, Moved
<1>5. IsTask(base) /\ base.family = family
  <2> DEFINE variant == all[c.variant + 1]
  <2>1. base = [family |-> family, item |-> i, variant |-> variant,
                from |-> from, to |-> to, skip |-> skip, gap |-> FALSE,
                batch |-> {}, span |-> 0, expiry |-> 0]
    OBVIOUS
  <2> HIDE DEF variant, base, family, i, from, to, skip
  <2> QED
    BY ONLY <2>1 DEF IsTask, TaskFields
<1>6. family = "chain" => planned = base
  BY ChainsAssumption
<1>7. family = "chain" /\ skip = None /\ ~(c.variant >= Len(all)) => base \in ChainTasks
  <2> SUFFICES ASSUME family = "chain", skip = None, ~(c.variant >= Len(all)) PROVE base \in ChainTasks
    OBVIOUS
  <2>1. all = <<None>>
    BY DEF variants
  <2>2. c.variant = 0 /\ all[c.variant + 1] = None
    BY <2>1 DEF CursorSound
  <2>3. i \in ChainItems
    BY <1>2 DEF ChainItems, ToSet, ItemAt
  <2>4. from = Cfg.start /\ to = Cfg.end
    BY DEF History
  <2> HIDE DEF from, to, skip, i, all
  <2> QED
    BY <2>2, <2>3, <2>4 DEF ChainTasks
<1>8. IsTask(outside) /\ outside.family = family /\ IsTask(whole) /\ whole.family = family
      /\ IsTask(several) /\ several.family = family
  <2> HIDE DEF family, entries, i, all, horizon, minute, expiry, gone, start0, end0, days, from, to, skip,
               last, gap, batched
  <2> DEFINE many == {entries[k] : k \in {n \in c.item..last : Selected(Cfg, entries[n])}}
             s1 == last - c.item + 1
             t1 == Least(Cfg.end, horizon)
  <2>1. several = [base EXCEPT !.span = s1, !.batch = many]
    OBVIOUS
  <2>2. outside = [base EXCEPT !.from = Cfg.start, !.gap = TRUE, !.to = t1, !.skip = "outside horizon"]
    OBVIOUS
  <2> HIDE DEF many, s1, t1
  <2>3. IsTask(several) /\ several.family = family
    BY <2>1 DEF IsTask, TaskFields
  <2>4. IsTask(outside) /\ outside.family = family
    BY <2>2 DEF IsTask, TaskFields
  <2>5. IsTask(whole) /\ whole.family = family
    BY DEF IsTask, TaskFields
  <2> QED
    BY <2>3, <2>4, <2>5
<1>9. planned \in {outside, whole, several, base}
  <2> HIDE DEF outside, whole, several, base, gap, gone, batched
  <2> QED
    OBVIOUS
<1>10. ~(c.variant >= Len(all)) => TaskSound(planned) /\ planned.family # "chain_snapshot"
  <2> SUFFICES ASSUME ~(c.variant >= Len(all)) PROVE TaskSound(planned) /\ planned.family # "chain_snapshot"
    OBVIOUS
  <2>1. base.skip = skip
    OBVIOUS
  <2> HIDE DEF planned, outside, whole, several, base, skip, family, all
  <2>2. planned.family = family /\ IsTask(planned)
    BY <1>5, <1>8, <1>9
  <2>3. family # "chain_snapshot"
    BY <1>2 DEF History, Feeds
  <2>4. ChainLike(planned) => planned \in ChainTasks
    BY <1>6, <1>7, <2>1, <2>2, <2>3 DEF ChainLike
  <2> QED
    BY <2>2, <2>3, <2>4 DEF TaskSound
<1> HIDE DEF planned, all, family, from, to, gap, gone
<1>11. CASE c.variant >= Len(all)
  BY <1>1, <1>3, <1>4, <1>11
<1>12. CASE ~(c.variant >= Len(all)) /\ (family \in History /\ from >= to /\ ~gap /\ ~gone)
  BY <1>1, <1>3, <1>4, <1>12
<1>13. CASE ~(c.variant >= Len(all)) /\ ~(family \in History /\ from >= to /\ ~gap /\ ~gone)
  BY <1>1, <1>10, <1>13 DEF PlanSound
<1> QED
  BY <1>11, <1>12, <1>13

Walked(pages, cfg, c, day, n, w) ==
  IF n = 0 THEN Moved(c)
  ELSE LET v == w[n - 1]
           s == select_item(pages, cfg, v.cursor)
       IN IF v.task # None \/ v.done THEN v
          ELSE IF s.page > Len(pages) THEN [Moved(s) EXCEPT !.done = TRUE]
          ELSE task(pages, cfg, s, day)

IsWalk(pages, cfg, c, day, n, w) == w = [k \in 0 .. n |-> Walked(pages, cfg, c, day, k, w)]

\* The walk of NextTask is defined: each of its steps is given by the one before.
LEMMA WalkExists ==
    ASSUME NEW pages, NEW cfg, NEW c, NEW day, NEW n \in Nat
    PROVE  \E w : IsWalk(pages, cfg, c, day, n, w)
<1> DEFINE Step1(k, w) == Walked(pages, cfg, c, day, k, w)
           W(m) == \E w : w = [k \in 0 .. m |-> Step1(k, w)]
<1>1. W(0)
  <2> DEFINE w == [k \in 0 .. 0 |-> Moved(c)]
  <2>1. \A k \in 0 .. 0 : Step1(k, w) = Moved(c)
    BY DEF Walked
  <2> HIDE DEF Step1
  <2>2. w = [k \in 0 .. 0 |-> Step1(k, w)]
    BY <2>1
  <2> QED
    BY <2>2
<1>2. ASSUME NEW m \in Nat, W(m) PROVE W(m + 1)
  <2>1. PICK w : w = [k \in 0 .. m |-> Step1(k, w)]
    BY <1>2
  <2> DEFINE v == [k \in 0 .. (m + 1) |-> Step1(k, w)]
  <2>2. \A k \in 0 .. m : v[k] = w[k]
    <3> HIDE DEF Step1
    <3>1. \A k \in 0 .. m : w[k] = Step1(k, w)
      BY <2>1
    <3>2. \A k \in 0 .. m : k \in 0 .. (m + 1)
      OBVIOUS
    <3> QED
      BY <3>1, <3>2
  <2>3. ASSUME NEW k \in 0 .. (m + 1) PROVE Step1(k, v) = Step1(k, w)
    <3>1. CASE k = 0
      BY <3>1 DEF Walked
    <3>2. CASE k # 0
      <4>1. k - 1 \in 0 .. m
        BY <3>2
      <4>2. v[k - 1] = w[k - 1]
        BY <2>2, <4>1
      <4> HIDE DEF v
      <4> QED
        BY <3>2, <4>2, Zenon DEF Walked
    <3> QED
      BY <3>1, <3>2
  <2> HIDE DEF Step1
  <2>4. v = [k \in 0 .. (m + 1) |-> Step1(k, v)]
    BY <2>3
  <2> QED
    BY <2>4
<1> HIDE DEF W
<1>3. \A m \in Nat : W(m)
  <2> DEFINE S == {m \in Nat : ~W(m)}
  <2> SUFFICES ASSUME S # {} PROVE FALSE
    OBVIOUS
  <2>1. PICK m \in S : \A x \in S : m <= x
    BY LeastExists
  <2>2. m # 0 /\ m \in Nat /\ ~W(m)
    BY <1>1
  <2>3. m - 1 \in Nat /\ m - 1 \notin S
    BY <2>1, <2>2
  <2>4. W(m - 1) /\ (m - 1) + 1 = m
    BY <2>2, <2>3
  <2> QED
    BY <1>2, <2>2, <2>3, <2>4
<1> QED
  BY <1>3 DEF W, IsWalk

LEMMA PlanIsSound ==
    ASSUME NEW pages \in Plans, NEW c, CursorSound(c), NEW day
    PROVE  PlanSound(NextTask(pages, Cfg, c, day))
<1> DEFINE Step1(k, w) == Walked(pages, Cfg, c, day, k, w)
           walk == CHOOSE w : w = [k \in 0 .. PlanSteps |-> Step1(k, w)]
<1>1. NextTask(pages, Cfg, c, day) = walk[PlanSteps]
  BY DEF NextTask, Walked
<1>2. PlanSteps \in Nat
  BY ChainsAssumption
<1>3. walk = [k \in 0 .. PlanSteps |-> Step1(k, walk)]
  <2>1. \E w : w = [k \in 0 .. PlanSteps |-> Step1(k, w)]
    <3>1. \E w : IsWalk(pages, Cfg, c, day, PlanSteps, w)
      BY <1>2, WalkExists, Zenon
    <3> QED
      BY <3>1 DEF IsWalk
  <2> HIDE DEF Step1
  <2> QED
    BY <2>1, Zenon
<1> HIDE DEF walk
<1>4. PlanSound(Moved(c))
  BY DEF PlanSound, Moved
<1>5. ASSUME NEW v, PlanSound(v)
      PROVE  LET s == select_item(pages, Cfg, v.cursor)
             IN PlanSound(IF v.task # None \/ v.done THEN v
                          ELSE IF s.page > Len(pages) THEN [Moved(s) EXCEPT !.done = TRUE]
                          ELSE task(pages, Cfg, s, day))
  <2> DEFINE s == select_item(pages, Cfg, v.cursor)
  <2>1. CursorSound(s) /\ (s.page > Len(pages) \/ <<s.page, s.item>> \in Wanted(pages, Cfg))
    BY <1>5, SelectIsSound DEF PlanSound
  <2> HIDE DEF s
  <2>2. PlanSound([Moved(s) EXCEPT !.done = TRUE])
    BY <2>1 DEF PlanSound, Moved
  <2>3. ~(s.page > Len(pages)) => PlanSound(task(pages, Cfg, s, day))
    BY <2>1, TaskIsSound
  <2> QED
    BY <1>5, <2>2, <2>3 DEF s
<1> DEFINE S == {m \in 0 .. PlanSteps : ~PlanSound(walk[m])}
<1>6. S = {}
  <2> SUFFICES ASSUME S # {} PROVE FALSE
    OBVIOUS
  <2>1. PICK m \in S : \A x \in S : m <= x
    <3>1. S \in SUBSET Nat
      BY <1>2
    <3> HIDE DEF S
    <3> QED
      BY <3>1, LeastExists
  <2>2. m \in 0 .. PlanSteps /\ ~PlanSound(walk[m]) /\ walk[m] = Step1(m, walk)
    BY <1>3
  <2>3. CASE m = 0
    BY <1>4, <2>2, <2>3 DEF Walked
  <2>4. CASE m # 0
    <3>1. m - 1 \in 0 .. PlanSteps /\ m - 1 \notin S
      BY <1>2, <2>1, <2>2, <2>4
    <3>2. PlanSound(walk[m - 1])
      BY <3>1
    <3>3. PlanSound(Step1(m, walk))
      BY <1>5, <2>4, <3>2 DEF Walked
    <3> QED
      BY <2>2, <3>3
  <2> QED
    BY <2>3, <2>4
<1> QED
  BY <1>1, <1>2, <1>6

-----------------------------------------------------------------------------
(* Documents and outcomes                                                  *)

Expiries == {0} \cup ToSet(Listed)
Snapshot(d) == d.current # None /\ d.current.family = "chain_snapshot"
IsDoc(d) == d = [f \in DocFields |-> d[f]]

\* The expiries that are still to be asked for are there while the job is at one
\* of them, and the first is the one it is at.
Expanding(d) ==
    /\ d.pending \in Seq(Expiries) /\ d.pending # <<>>
    /\ d.parent \in ChainTasks /\ d.current = NextChild(d)
DocSound(d) ==
    /\ IsDoc(d) /\ CursorSound(d.cursor)
    /\ d.current # None => TaskSound(d.current)
    /\ Snapshot(d) => Expanding(d)
    /\ ~Snapshot(d) => d.pending = <<>>
    /\ d.state = "completed" => d.current = None

\* A chain that was answered, and what has become of its expiries.
Expanded(R) == {x \in R : x.status = "completed" /\ x.task.family = "chain"}
Covered(R, x, e) ==
    \E y \in R : y.task.family = "chain_snapshot" /\ y.task.item = x.task.item /\ y.task.expiry = e
Expands(d, x, e) ==
    \/ d.current = x.task
    \/ Snapshot(d) /\ d.current.item = x.task.item /\ e \in ToSet(d.pending)
Accounted(R, d, day) ==
    \A x \in Expanded(R), e \in ToSet(Listed) : e >= day => Covered(R, x, e) \/ Expands(d, x, e)
Fresh(R, d) == \A x \in Expanded(R) : x.task # d.current

OutcomeSound(x) ==
    /\ x.task # None /\ TaskSound(x.task) /\ x.key \in {Key(x.task), <<TRUE, x.task>>}
    /\ x.status = "completed" => x.key = Key(x.task)
    /\ x.status = "completed" /\ x.task.family = "chain" => x.task \in ChainTasks
Answers(R, t) == \E y \in R : y.task.family = t.family /\ y.task.item = t.item /\ y.task.expiry = t.expiry

\* The first of the expiries that are left.
LEMMA ChildIsSound ==
    ASSUME NEW d, d.pending \in Seq(Expiries), d.pending # <<>>, d.parent \in ChainTasks
    PROVE  /\ NextChild(d) \in ChainTasks /\ TaskSound(NextChild(d)) /\ NextChild(d) # None
           /\ NextChild(d).family = "chain_snapshot" /\ NextChild(d).item = d.parent.item
           /\ NextChild(d).expiry = Head(d.pending)
<1>1. Head(d.pending) \in Expiries
  OBVIOUS
<1> DEFINE p == d.parent
           h == Head(d.pending)
<1>2. NextChild(d) = [p EXCEPT !.family = "chain_snapshot", !.expiry = h]
  BY DEF NextChild
<1>3. p \in ChainTasks /\ h \in Expiries
  BY <1>1
<1> HIDE DEF p, h
<1>4. /\ NextChild(d) \in ChainTasks /\ NextChild(d).family = "chain_snapshot"
      /\ NextChild(d).item = p.item /\ NextChild(d).expiry = h
  BY <1>2, <1>3 DEF ChainTasks, Expiries
<1>5. NextChild(d) # None
  BY <1>4, ChainsAssumption
<1>6. \A t \in ChainTasks : IsTask(t)
  BY DEF ChainTasks, IsTask, TaskFields
<1> QED
  BY <1>4, <1>5, <1>6 DEF TaskSound, p, h

\* The name of a result tells the family, the item and the expiry of its task.
LEMMA KeyTells ==
    ASSUME NEW t, IsTask(t), NEW u, IsTask(u), Key(t) = Key(u)
    PROVE  t.family = u.family /\ t.item = u.item /\ t.expiry = u.expiry
<1>1. [t EXCEPT !.skip = None, !.gap = FALSE] = [u EXCEPT !.skip = None, !.gap = FALSE]
  BY DEF Key
<1>2. ASSUME NEW x, IsTask(x)
      PROVE  LET y == [x EXCEPT !.skip = None, !.gap = FALSE]
             IN y.family = x.family /\ y.item = x.item /\ y.expiry = x.expiry
  BY <1>2 DEF IsTask, TaskFields
<1> QED
  BY <1>1, <1>2

\* What an outcome adds: itself at most.
Adds(R, Q, t, s) ==
    /\ R \subseteq Q /\ (\A x \in Q : OutcomeSound(x)) /\ Answers(Q, t)
    /\ \A x \in Expanded(Q) : x \in Expanded(R) \/ (x.task = t /\ s = "completed")
    /\ s # "completed" \/ t.family # "chain" => Expanded(Q) = Expanded(R)

LEMMA InstallKeeps ==
    ASSUME NEW R, \A x \in R : OutcomeSound(x), NEW k, NEW t, NEW s, OutcomeSound(Outcome(k, t, s))
    PROVE  Adds(R, InstallOnce(R, Outcome(k, t, s)), t, s)
<1> DEFINE Q == InstallOnce(R, Outcome(k, t, s))
           o == Outcome(k, t, s)
<1>1. o.key = k /\ o.task = t /\ o.status = s
  BY DEF Outcome
<1>2. OutcomeSound(o) /\ t # None /\ TaskSound(t) /\ k \in {Key(t), <<TRUE, t>>}
  BY <1>1 DEF OutcomeSound
<1>3. Q = (IF \E y \in R : y.key = k THEN R ELSE R \cup {o})
  BY <1>1 DEF InstallOnce
<1> HIDE DEF o, Q
<1>4. R \subseteq Q /\ Q \subseteq R \cup {o}
  BY <1>3
<1>5. \A x \in Q : OutcomeSound(x)
  BY <1>2, <1>4
<1>6. Answers(Q, t)
  <2>1. CASE \E y \in R : y.key = k
    <3>1. PICK y \in R : y.key = k
      BY <2>1
    <3>2. y \in Q /\ y.key \in {Key(y.task), <<TRUE, y.task>>} /\ IsTask(y.task) /\ IsTask(t)
      BY <1>2, <1>4, <3>1 DEF OutcomeSound, TaskSound
    <3>3. CASE k = <<TRUE, t>> /\ y.key = <<TRUE, y.task>>
      <4>1. y.task = t
        BY <3>1, <3>3
      <4> QED
        BY <3>2, <4>1 DEF Answers
    <3>4. CASE k = Key(t) /\ y.key = Key(y.task)
      BY <3>1, <3>2, <3>4, KeyTells DEF Answers
    <3>5. Key(t) # <<TRUE, y.task>> /\ Key(y.task) # <<TRUE, t>>
      BY DEF Key
    <3> QED
      BY <1>2, <3>1, <3>2, <3>3, <3>4, <3>5
  <2>2. CASE ~\E y \in R : y.key = k
    <3>1. o \in Q
      BY <1>3, <2>2
    <3> QED
      BY <1>1, <3>1 DEF Answers
  <2> QED
    BY <2>1, <2>2
<1>7. Expanded(R) \subseteq Expanded(Q)
  BY <1>4 DEF Expanded
<1>8. \A x \in Expanded(Q) \ Expanded(R) : x = o
  BY <1>4 DEF Expanded
<1>9. s # "completed" \/ t.family # "chain" => o \notin Expanded(Q)
  BY <1>1 DEF Expanded
<1>10. \A x \in Expanded(Q) : x \in Expanded(R) \/ (x.task = t /\ s = "completed")
  BY <1>1, <1>8 DEF Expanded
<1>11. s # "completed" \/ t.family # "chain" => Expanded(Q) = Expanded(R)
  BY <1>7, <1>8, <1>9
<1> QED
  BY <1>4, <1>5, <1>6, <1>10, <1>11 DEF Q, Adds

\* The job leaves its task: for the next expiry, or for its cursor.
Leaves(d, e) ==
    /\ IsDoc(e) /\ CursorSound(e.cursor) /\ e.state \in {d.state, "paused"}
    /\ Snapshot(d) => /\ e.pending = Tail(d.pending)
                      /\ IF e.pending = <<>> THEN e.current = None
                         ELSE e.parent = d.parent /\ e.current = NextChild(e)
    /\ ~Snapshot(d) => e.pending = d.pending /\ e.current = None

LEMMA LeavesSound ==
    ASSUME NEW d, DocSound(d), d.current # None, NEW e, Leaves(d, e)
    PROVE  DocSound(e)
<1>1. d.state # "completed" /\ e.state # "completed"
  BY DEF DocSound, Leaves
<1>2. CASE Snapshot(d) /\ Tail(d.pending) # <<>>
  <2>1. d.pending \in Seq(Expiries) /\ d.pending # <<>> /\ d.parent \in ChainTasks
    BY <1>2 DEF DocSound, Expanding
  <2>2. e.pending \in Seq(Expiries) /\ e.pending # <<>> /\ e.parent \in ChainTasks /\ e.current = NextChild(e)
    <3>1. e.pending = Tail(d.pending) /\ e.parent = d.parent /\ e.current = NextChild(e)
      BY <1>2 DEF Leaves
    <3> QED
      BY <1>2, <2>1, <3>1
  <2>3. TaskSound(e.current) /\ Snapshot(e)
    BY <2>2, ChildIsSound DEF Snapshot
  <2> QED
    BY <1>1, <2>2, <2>3 DEF DocSound, Expanding, Leaves
<1>3. CASE ~Snapshot(d) \/ Tail(d.pending) = <<>>
  <2>1. e.current = None /\ e.pending = <<>>
    BY <1>3 DEF Leaves, DocSound
  <2> QED
    BY <1>1, <2>1 DEF DocSound, Leaves, Snapshot
<1> QED
  BY <1>2, <1>3

LEMMA LeavesAccounted ==
    ASSUME NEW d, DocSound(d), d.current # None, NEW e, Leaves(d, e), NEW R, NEW Q, NEW day,
           R \subseteq Q, Expanded(Q) = Expanded(R), Answers(Q, d.current),
           \A x \in R : OutcomeSound(x), Snapshot(d) \/ Fresh(R, d), Accounted(R, d, day)
    PROVE  Accounted(Q, e, day)
<1> SUFFICES ASSUME NEW x \in Expanded(Q), NEW i \in ToSet(Listed), i >= day
             PROVE  Covered(Q, x, i) \/ Expands(e, x, i)
  BY DEF Accounted
<1>1. x \in Expanded(R) /\ x.task.family = "chain"
  BY DEF Expanded
<1>2. CASE Covered(R, x, i)
  BY <1>2 DEF Covered
<1>3. CASE ~Covered(R, x, i)
  <2>1. Expands(d, x, i)
    BY <1>1, <1>3 DEF Accounted
  <2>2. d.current # x.task
    BY <1>1 DEF Fresh, Snapshot
  <2>3. Snapshot(d) /\ d.current.item = x.task.item /\ i \in ToSet(d.pending)
    BY <2>1, <2>2 DEF Expands
  <2>4. /\ d.pending \in Seq(Expiries) /\ d.pending # <<>> /\ d.parent \in ChainTasks
        /\ d.current = NextChild(d)
    BY <2>3 DEF DocSound, Expanding
  <2>5. d.current.expiry = Head(d.pending) /\ d.current.item = d.parent.item
        /\ d.current.family = "chain_snapshot"
    BY <2>4, ChildIsSound
  <2>6. CASE i = Head(d.pending)
    BY <2>3, <2>5, <2>6 DEF Answers, Covered
  <2>7. CASE i # Head(d.pending)
    <3>1. i \in ToSet(Tail(d.pending)) /\ Tail(d.pending) \in Seq(Expiries) /\ Tail(d.pending) # <<>>
      <4> DEFINE s == d.pending
      <4>1. PICK n \in DOMAIN s : i = s[n]
        BY <2>3 DEF ToSet
      <4>2. s \in Seq(Expiries) /\ s # <<>> /\ n # 1
        BY <2>4, <2>7, <4>1
      <4> HIDE DEF s
      <4>3. n - 1 \in DOMAIN Tail(s) /\ Tail(s)[n - 1] = i /\ Tail(s) \in Seq(Expiries)
        BY <4>1, <4>2
      <4> QED
        BY <4>3 DEF ToSet, s
    <3>2. e.pending = Tail(d.pending) /\ e.parent = d.parent /\ e.current = NextChild(e)
      BY <2>3, <3>1 DEF Leaves
    <3>3. Snapshot(e) /\ e.current.item = e.parent.item
      BY <2>4, <3>1, <3>2, ChildIsSound DEF Snapshot
    <3> QED
      BY <2>3, <2>5, <3>1, <3>2, <3>3 DEF Expands
  <2> QED
    BY <2>6, <2>7
<1> QED
  BY <1>2, <1>3

-----------------------------------------------------------------------------
(* What the operators do to a document                                     *)

LEMMA AdvanceIsSound ==
    ASSUME NEW c, CursorSound(c), NEW t
    PROVE  CursorSound(advance(c, t))
<1> DEFINE a1 == [c EXCEPT !.ack = TRUE]
           a2 == [c EXCEPT !.item = @ + t.span, !.variant = 0, !.window = 0]
           a3 == [c EXCEPT !.window = @ + 1]
           a4 == [c EXCEPT !.variant = @ + 1, !.window = 0, !.ack = FALSE]
<1>1. CursorSound(a1) /\ CursorSound(a3)
  BY CursorMoves DEF CursorFields
<1>2. CursorSound(a2) /\ CursorSound(a4)
  BY CursorLeaves
<1>3. advance(c, t) \in {a1, a2, a3, a4}
  BY DEF advance
<1> HIDE DEF a1, a2, a3, a4
<1> QED
  BY <1>1, <1>2, <1>3

\* Fields that are of no account here.
Minor == {"flag", "retries", "wait", "reviewable", "skipRejected", "force", "assessed"}

\* The same job at the same task.
Alike(d, e) ==
    /\ IsDoc(e) /\ e.cursor = d.cursor /\ e.current = d.current
    /\ e.pending = d.pending /\ e.parent = d.parent

LEMMA AlikeKeeps ==
    ASSUME NEW d, NEW e, Alike(d, e)
    PROVE  /\ DocSound(d) /\ (e.state = "completed" => d.state = "completed") => DocSound(e)
           /\ \A R, day : Accounted(R, d, day) => Accounted(R, e, day)
           /\ \A R : Fresh(R, d) => Fresh(R, e)
           /\ \A b : Leaves(b, d) /\ (e.state \in {d.state, "paused"}) => Leaves(b, e)
<1>1. (Snapshot(d) <=> Snapshot(e)) /\ NextChild(d) = NextChild(e)
  BY DEF Alike, Snapshot, NextChild
<1>2. DocSound(d) /\ (e.state = "completed" => d.state = "completed") => DocSound(e)
  BY <1>1 DEF Alike, DocSound, Expanding
<1>3. ASSUME NEW R, NEW day, Accounted(R, d, day) PROVE Accounted(R, e, day)
  BY <1>1, <1>3 DEF Alike, Accounted, Expands
<1>4. ASSUME NEW R, Fresh(R, d) PROVE Fresh(R, e)
  BY <1>4 DEF Alike, Fresh
<1>5. ASSUME NEW b, Leaves(b, d), e.state \in {d.state, "paused"} PROVE Leaves(b, e)
  BY <1>1, <1>5 DEF Alike, Leaves
<1> QED
  BY <1>2, <1>3, <1>4, <1>5

\* Alike, with whatever state and minor fields.
LEMMA AlikeChanges ==
    ASSUME NEW d, IsDoc(d), NEW f \in Minor \cup {"state"}, NEW v
    PROVE  LET e == [d EXCEPT ![f] = v]
           IN Alike(d, e) /\ (f # "state" => e.state = d.state) /\ (f = "state" => e.state = v)
BY DEF Alike, IsDoc, DocFields, Minor

LEMMA AlikeChains ==
    ASSUME NEW d, NEW e, NEW g, Alike(d, e), Alike(e, g)
    PROVE  Alike(d, g)
BY DEF Alike

LEMMA LeaveIsLeaving ==
    ASSUME NEW d, DocSound(d), d.current # None
    PROVE  Leaves(d, Leave(d, d.current)) /\ Leave(d, d.current).state = d.state
<1> DEFINE t == d.current
           e == Leave(d, t)
<1>1. IsDoc(d) /\ CursorSound(d.cursor) /\ (t.family = "chain_snapshot" <=> Snapshot(d))
  BY DEF DocSound, Snapshot
<1>2. CASE Snapshot(d)
  <2> DEFINE g == [d EXCEPT !.pending = Tail(@)]
  <2>1. /\ IsDoc(g) /\ g.pending = Tail(d.pending) /\ g.parent = d.parent /\ g.state = d.state
        /\ g.cursor = d.cursor
    BY <1>1 DEF IsDoc, DocFields
  <2>2. e = IF g.pending # <<>> THEN [g EXCEPT !.current = NextChild(g)] ELSE [g EXCEPT !.current = None]
    BY <1>1, <1>2 DEF Leave
  <2> HIDE DEF g
  <2>3. ASSUME NEW v
        PROVE  LET h == [g EXCEPT !.current = v]
               IN /\ IsDoc(h) /\ h.current = v /\ h.pending = g.pending /\ h.parent = g.parent
                  /\ h.state = g.state /\ h.cursor = g.cursor
    BY <2>1 DEF IsDoc, DocFields
  <2>4. CASE g.pending # <<>>
    <3>1. e = [g EXCEPT !.current = NextChild(g)]
      BY <2>2, <2>4
    <3>2. /\ IsDoc(e) /\ e.current = NextChild(g) /\ e.pending = g.pending /\ e.parent = g.parent
          /\ e.state = g.state /\ e.cursor = g.cursor
      BY <2>3, <3>1
    <3>3. NextChild(e) = NextChild(g)
      BY <3>2 DEF NextChild
    <3> HIDE DEF e
    <3> QED
      BY <1>1, <1>2, <2>1, <2>4, <3>2, <3>3 DEF Leaves, e
  <2>5. CASE g.pending = <<>>
    <3>1. e = [g EXCEPT !.current = None]
      BY <2>2, <2>5
    <3>2. /\ IsDoc(e) /\ e.current = None /\ e.pending = g.pending
          /\ e.state = g.state /\ e.cursor = g.cursor
      BY <2>3, <3>1
    <3> HIDE DEF e
    <3> QED
      BY <1>1, <1>2, <2>1, <2>5, <3>2 DEF Leaves, e
  <2> QED
    BY <2>4, <2>5
<1>3. CASE ~Snapshot(d)
  <2> DEFINE c == advance(d.cursor, t)
             g == [d EXCEPT !.cursor = c]
  <2>0. CursorSound(c)
    BY <1>1, AdvanceIsSound
  <2>1. e = [g EXCEPT !.current = None]
    BY <1>1, <1>3 DEF Leave
  <2> HIDE DEF c
  <2>2. /\ IsDoc(e) /\ e.cursor = c /\ e.current = None /\ e.pending = d.pending /\ e.state = d.state
    BY <1>1, <2>1 DEF IsDoc, DocFields
  <2> HIDE DEF e
  <2> QED
    BY <1>3, <2>0, <2>2 DEF Leaves, e
<1> QED
  BY <1>2, <1>3

LEMMA AssessIsLeaving ==
    ASSUME NEW d, DocSound(d), d.current # None
    PROVE  Leaves(d, Assess(d, d.current)) /\ Assess(d, d.current).state = d.state
<1> DEFINE l == Leave(d, d.current)
           g == [l EXCEPT !.assessed = @ + 1]
           h == [g EXCEPT !.retries = 0]
<1>1. Leaves(d, l) /\ l.state = d.state /\ IsDoc(l)
  BY LeaveIsLeaving DEF Leaves
<1>2. Assess(d, d.current) = h
  BY DEF Assess
<1> HIDE DEF l
<1>3. Alike(l, g) /\ g.state = l.state /\ IsDoc(g)
  BY <1>1, AlikeChanges DEF Minor, Alike
<1> HIDE DEF g
<1>4. Alike(g, h) /\ h.state = g.state
  BY <1>3, AlikeChanges DEF Minor
<1> HIDE DEF h
<1> QED
  BY <1>1, <1>2, <1>3, <1>4, AlikeKeeps, AlikeChains

-----------------------------------------------------------------------------
(* The listed expiries that have not passed                                *)

Before(k) == {m \in Open : m < k}

LEMMA OpenIsFinite ==
    /\ Open \subseteq 1 .. Len(Listed) /\ IsFiniteSet(Open) /\ Cardinality(Open) \in Nat
    /\ Len(Listed) \in Nat
<1>1. 1 \in Int /\ Len(Listed) \in Int /\ Len(Listed) \in Nat /\ DOMAIN Listed = 1 .. Len(Listed)
  BY ChainsAssumption
<1>2. IsFiniteSet(1 .. Len(Listed))
  BY <1>1, FS_Interval
<1>3. Open \subseteq 1 .. Len(Listed)
  BY <1>1 DEF Open
<1> QED
  BY <1>1, <1>2, <1>3, FS_Subset, FS_CardinalityType

\* An open expiry is told by how many are before it.
LEMMA RankTells ==
    ASSUME NEW k \in Open, NEW l \in Open, k < l
    PROVE  Cardinality(Before(k)) < Cardinality(Before(l))
<1>1. k \in Int /\ l \in Int /\ Open \subseteq Int
  BY OpenIsFinite
<1>2. Before(k) \cup {k} \subseteq Before(l) /\ k \notin Before(k) /\ Before(l) \subseteq Open
      /\ Before(k) \subseteq Open
  <2>1. \A m \in Before(k) : m \in Before(l)
    BY <1>1 DEF Before
  <2>2. k \in Before(l) /\ k \notin Before(k)
    BY <1>1 DEF Before
  <2>3. Before(l) \subseteq Open /\ Before(k) \subseteq Open
    BY DEF Before
  <2> QED
    BY <2>1, <2>2, <2>3
<1>3. IsFiniteSet(Before(l)) /\ IsFiniteSet(Before(k))
  BY <1>2, OpenIsFinite, FS_Subset
<1>4. /\ IsFiniteSet(Before(k) \cup {k})
      /\ Cardinality(Before(k) \cup {k}) = Cardinality(Before(k)) + 1
  BY <1>2, <1>3, FS_AddElement
<1>5. Cardinality(Before(k) \cup {k}) <= Cardinality(Before(l))
  BY <1>2, <1>3, FS_Subset
<1>6. Cardinality(Before(k)) \in Nat /\ Cardinality(Before(l)) \in Nat
  BY <1>3, FS_CardinalityType
<1> QED
  BY <1>4, <1>5, <1>6

\* Each place of the list is taken by one of them.
LEMMA RankIsPlace ==
    /\ \A k \in Open : Cardinality(Before(k)) + 1 \in 1 .. Cardinality(Open)
    /\ \A n \in 1 .. Cardinality(Open) : \E k \in Open : Cardinality(Before(k)) = n - 1
    /\ \A k, l \in Open : Cardinality(Before(k)) = Cardinality(Before(l)) => k = l
<1> DEFINE size == Cardinality(Open)
           places == 0 .. (size - 1)
           rank(k) == Cardinality(Before(k))
           f == [k \in Open |-> rank(k)]
<1>1. size \in Nat /\ Open \subseteq Int /\ IsFiniteSet(Open)
  BY OpenIsFinite
<1>2. \A k \in Open : rank(k) \in places
  <2> SUFFICES ASSUME NEW k \in Open PROVE rank(k) \in places
    OBVIOUS
  <2>1. Before(k) \subseteq Open \ {k}
    BY <1>1 DEF Before
  <2>2. IsFiniteSet(Open \ {k}) /\ Cardinality(Open \ {k}) = size - 1
    BY <1>1, FS_RemoveElement
  <2>3. IsFiniteSet(Before(k)) /\ rank(k) <= size - 1
    BY <2>1, <2>2, FS_Subset
  <2>4. rank(k) \in Nat
    BY <2>3, FS_CardinalityType
  <2> QED
    BY <1>1, <2>3, <2>4
<1>3. \A k, l \in Open : rank(k) = rank(l) => k = l
  <2> SUFFICES ASSUME NEW k \in Open, NEW l \in Open, k # l PROVE rank(k) # rank(l)
    OBVIOUS
  <2>1. k < l \/ l < k
    BY <1>1
  <2>2. rank(k) < rank(l) \/ rank(l) < rank(k)
    BY <2>1, RankTells
  <2>3. rank(k) \in Int /\ rank(l) \in Int
    BY <1>1, <1>2
  <2> QED
    BY <2>2, <2>3
<1>4. IsFiniteSet(places) /\ Cardinality(places) = size
  <2>1. 0 \in Int /\ size - 1 \in Int
    BY <1>1
  <2>2. IsFiniteSet(places) /\ Cardinality(places) = IF 0 > size - 1 THEN 0 ELSE (size - 1) - 0 + 1
    BY <2>1, FS_Interval
  <2> HIDE DEF places, size
  <2> QED
    BY <1>1, <2>2
<1>5. f \in Injection(Open, places)
  <2> HIDE DEF rank, places
  <2> QED
    BY <1>2, <1>3 DEF Injection, IsInjective
<1>6. f \in Surjection(Open, places)
  <2> HIDE DEF f, places
  <2> QED
    BY <1>1, <1>4, <1>5, FS_Injection
<1>7. \A n \in places : \E k \in Open : rank(k) = n
  <2> HIDE DEF rank, places
  <2> QED
    BY <1>6 DEF Surjection
<1> HIDE DEF rank, size
<1>8. \A k \in Open : rank(k) + 1 \in 1 .. size
  BY <1>1, <1>2
<1>9. \A n \in 1 .. size : n - 1 \in places
  BY <1>1
<1> QED
  BY <1>3, <1>7, <1>8, <1>9 DEF rank, size

LEMMA UnexpiredIsOpen ==
    /\ Unexpired \in Seq(Expiries)
    /\ \A e \in ToSet(Listed) : e >= today => e \in ToSet(Unexpired)
<1> DEFINE size == Cardinality(Open)
           at(n) == CHOOSE k \in Open : Cardinality({m \in Open : m < k}) = n - 1
<1>1. \A n \in 1 .. size : at(n) \in Open /\ Cardinality(Before(at(n))) = n - 1
  <2> SUFFICES ASSUME NEW n \in 1 .. size PROVE at(n) \in Open /\ Cardinality(Before(at(n))) = n - 1
    OBVIOUS
  <2>1. \E k \in Open : Cardinality({m \in Open : m < k}) = n - 1
    BY RankIsPlace DEF Before
  <2> QED
    BY <2>1 DEF Before
<1>2. Unexpired = [n \in 1 .. size |-> Listed[at(n)]]
  BY DEF Unexpired
<1> HIDE DEF at
<1>3. \A k \in Open : Listed[k] \in Expiries
  BY DEF Open, Expiries, ToSet
<1>4. size \in Nat
  BY OpenIsFinite
<1> HIDE DEF size
<1>5. Unexpired \in Seq(Expiries) /\ DOMAIN Unexpired = 1 .. size
  BY <1>1, <1>2, <1>3, <1>4
<1>6. ASSUME NEW e \in ToSet(Listed), e >= today PROVE e \in ToSet(Unexpired)
  <2>1. PICK k \in DOMAIN Listed : e = Listed[k]
    BY <1>6 DEF ToSet
  <2>2. k \in Open
    BY <1>6, <2>1 DEF Open
  <2> DEFINE n == Cardinality(Before(k)) + 1
  <2>3. n \in 1 .. size /\ Cardinality(Before(k)) \in Nat
    <3>1. IsFiniteSet(Before(k))
      BY OpenIsFinite, FS_Subset DEF Before
    <3> QED
      BY <2>2, <3>1, RankIsPlace, FS_CardinalityType DEF size
  <2>4. Cardinality(Before(at(n))) = Cardinality(Before(k)) /\ at(n) \in Open
    BY <1>1, <2>3
  <2>5. at(n) = k
    BY <2>2, <2>4, RankIsPlace
  <2> HIDE DEF n
  <2>6. Unexpired[n] = e
    BY <1>2, <2>1, <2>3, <2>5
  <2> QED
    BY <1>5, <2>3, <2>6 DEF ToSet
<1> QED
  BY <1>5, <1>6

-----------------------------------------------------------------------------
(* What the operators do to a document, continued                          *)

\* With nothing left to ask for, the parent is forgotten.
LEMMA ParentForgotten ==
    ASSUME NEW d, NEW e, Leaves(d, e), e.current = None, Snapshot(d) => e.pending = <<>>
    PROVE  LET g == [e EXCEPT !.parent = None]
           IN Leaves(d, g) /\ g.state = e.state
<1> DEFINE g == [e EXCEPT !.parent = None]
<1>1. IsDoc(e)
  BY DEF Leaves
<1>2. /\ IsDoc(g) /\ g.cursor = e.cursor /\ g.current = e.current /\ g.pending = e.pending
      /\ g.state = e.state
  BY <1>1 DEF IsDoc, DocFields
<1> HIDE DEF g
<1> QED
  BY <1>2 DEF Leaves, g

\* Leaving without a task is leaving the last expiry.
LEMMA NoneIsLast ==
    ASSUME NEW d, DocSound(d), NEW e, Leaves(d, e), e.current = None, Snapshot(d)
    PROVE  e.pending = <<>>
<1> SUFFICES ASSUME e.pending # <<>> PROVE FALSE
  OBVIOUS
<1>1. d.pending \in Seq(Expiries) /\ d.pending # <<>> /\ d.parent \in ChainTasks
  BY DEF DocSound, Expanding
<1>2. e.pending = Tail(d.pending) /\ e.parent = d.parent /\ e.current = NextChild(e)
  BY DEF Leaves
<1>3. e.pending \in Seq(Expiries) /\ e.parent \in ChainTasks
  BY <1>1, <1>2
<1> QED
  BY <1>2, <1>3, ChildIsSound

LEMMA RejectionIsLeaving ==
    ASSUME NEW d, DocSound(d), d.current # None
    PROVE  LET e == record_rejection(d, d.current)
           IN Leaves(d, e) /\ e.state = d.state
<1> DEFINE a == Assess(d, d.current)
           b == [a EXCEPT !.wait = "no"]
           g == [b EXCEPT !.reviewable = FALSE]
<1>1. Leaves(d, a) /\ a.state = d.state /\ IsDoc(a)
  BY AssessIsLeaving DEF Leaves
<1>2. record_rejection(d, d.current) =
        IF d.current.family = "chain_snapshot" /\ g.current = None THEN [g EXCEPT !.parent = None] ELSE g
  BY DEF record_rejection
<1> HIDE DEF a
<1>3. Alike(a, b) /\ b.state = a.state /\ IsDoc(b)
  BY <1>1, AlikeChanges DEF Minor, Alike
<1> HIDE DEF b
<1>4. Alike(b, g) /\ g.state = b.state
  BY <1>3, AlikeChanges DEF Minor
<1> HIDE DEF g
<1>5. Leaves(d, g) /\ g.state = d.state
  BY <1>1, <1>3, <1>4, AlikeKeeps, AlikeChains
<1>6. CASE d.current.family = "chain_snapshot" /\ g.current = None
  <2>1. Snapshot(d)
    BY <1>6 DEF Snapshot
  <2>2. g.pending = <<>>
    BY <1>5, <1>6, <2>1, NoneIsLast
  <2> QED
    BY <1>2, <1>5, <1>6, <2>2, ParentForgotten
<1>7. CASE ~(d.current.family = "chain_snapshot" /\ g.current = None)
  BY <1>2, <1>5, <1>7
<1> QED
  BY <1>6, <1>7

LEMMA ReviewIsLeaving ==
    ASSUME NEW d, DocSound(d), d.current # None
    PROVE  /\ Leaves(d, [record_rejection(d, d.current) EXCEPT !.skipRejected = TRUE, !.state = "paused"])
           /\ Leaves(d, [Leave(d, d.current) EXCEPT !.assessed = @ + 1, !.state = "paused"])
<1>1. ASSUME NEW e, Leaves(d, e), NEW f \in Minor, NEW v
      PROVE  Leaves(d, [e EXCEPT ![f] = v, !.state = "paused"])
  <2> DEFINE g == [e EXCEPT ![f] = v]
             h == [g EXCEPT !.state = "paused"]
  <2>1. Alike(e, g) /\ IsDoc(g)
    BY <1>1, AlikeChanges DEF Leaves, Alike
  <2> HIDE DEF g
  <2>2. Alike(g, h) /\ h.state = "paused"
    BY <2>1, AlikeChanges
  <2> HIDE DEF h
  <2>3. Leaves(d, h)
    BY <1>1, <2>1, <2>2, AlikeKeeps, AlikeChains
  <2> QED
    BY <2>3 DEF h, g
<1>2. Leaves(d, [record_rejection(d, d.current) EXCEPT !.skipRejected = TRUE, !.state = "paused"])
  BY <1>1, RejectionIsLeaving DEF Minor
<1>3. Leaves(d, [Leave(d, d.current) EXCEPT !.assessed = @ + 1, !.state = "paused"])
  BY <1>1, LeaveIsLeaving DEF Minor
<1> QED
  BY <1>2, <1>3

\* What a result does to the counters before the task is left.
Counted(d) == [d EXCEPT !.assessed = @ + 1, !.retries = 0, !.wait = "no", !.reviewable = FALSE]

LEMMA CountedIsAlike ==
    ASSUME NEW d, IsDoc(d)
    PROVE  Alike(d, Counted(d)) /\ Counted(d).state = d.state
<1> DEFINE a == [d EXCEPT !.assessed = @ + 1]
           b == [a EXCEPT !.retries = 0]
           c == [b EXCEPT !.wait = "no"]
           e == [c EXCEPT !.reviewable = FALSE]
<1>1. Counted(d) = e
  BY DEF Counted
<1>2. Alike(d, a) /\ a.state = d.state /\ IsDoc(a)
  BY AlikeChanges DEF Minor, Alike
<1> HIDE DEF a
<1>3. Alike(a, b) /\ b.state = a.state /\ IsDoc(b)
  BY <1>2, AlikeChanges DEF Minor, Alike
<1> HIDE DEF b
<1>4. Alike(b, c) /\ c.state = b.state /\ IsDoc(c)
  BY <1>3, AlikeChanges DEF Minor, Alike
<1> HIDE DEF c
<1>5. Alike(c, e) /\ e.state = c.state
  BY <1>4, AlikeChanges DEF Minor
<1> QED
  BY <1>1, <1>2, <1>3, <1>4, <1>5, AlikeChains

LEMMA AlikeLeaves ==
    ASSUME NEW d, NEW a, Alike(d, a), a.state = d.state, NEW e, Leaves(a, e)
    PROVE  Leaves(d, e)
<1>1. Snapshot(d) <=> Snapshot(a)
  BY DEF Alike, Snapshot
<1> QED
  BY <1>1 DEF Alike, Leaves

\* A result that lists no expiries.
LEMMA SucceedIsLeaving ==
    ASSUME NEW d, DocSound(d), d.current # None, NEW b, ~(d.current.family = "chain" /\ b = "rows")
    PROVE  LET e == Succeed(d, d.current, b)
           IN Leaves(d, e) /\ e.state = d.state
<1> DEFINE t == d.current
           d0 == Counted(d)
           l == Leave(d0, t)
           d2 == [l EXCEPT !.current = None]
           e == Succeed(d, t, b)
<1>1. e = IF d2.pending # <<>> THEN [d2 EXCEPT !.current = NextChild(d2)] ELSE [d2 EXCEPT !.parent = None]
  BY DEF Succeed, Counted
<1>2. Alike(d, d0) /\ d0.state = d.state
  BY CountedIsAlike DEF DocSound
<1>3. DocSound(d0) /\ d0.current = t
  BY <1>2, AlikeKeeps DEF Alike
<1> HIDE DEF d0
<1>4. Leaves(d, l) /\ l.state = d.state /\ IsDoc(l)
  BY <1>2, <1>3, LeaveIsLeaving, AlikeLeaves DEF Leaves
<1> HIDE DEF l
<1>5. /\ IsDoc(d2) /\ d2.current = None /\ d2.pending = l.pending /\ d2.parent = l.parent
      /\ d2.cursor = l.cursor /\ d2.state = l.state
  BY <1>4 DEF IsDoc, DocFields
<1>6. CASE d2.pending # <<>>
  <2>1. Snapshot(d) /\ l.current = NextChild(l)
    BY <1>4, <1>5, <1>6 DEF Leaves, DocSound
  <2>2. NextChild(d2) = NextChild(l)
    BY <1>5 DEF NextChild
  <2> HIDE DEF d2
  <2>3. e = [d2 EXCEPT !.current = l.current]
    BY <1>1, <1>6, <2>1, <2>2
  <2>4. Alike(l, e) /\ e.state = l.state
    BY <1>5, <2>3 DEF Alike, IsDoc, DocFields
  <2> HIDE DEF e
  <2> QED
    BY <1>4, <2>4, AlikeKeeps DEF e
<1>7. CASE d2.pending = <<>>
  <2>1. Leaves(d, d2)
    <3> HIDE DEF d2
    <3> QED
      BY <1>4, <1>5, <1>7 DEF Leaves
  <2> HIDE DEF d2
  <2> QED
    BY <1>1, <1>4, <1>5, <1>7, <2>1, ParentForgotten
<1> QED
  BY <1>6, <1>7

-----------------------------------------------------------------------------

\* A chain is answered: its expiries are to be asked for next.
Lists(d, e) ==
    /\ IsDoc(e) /\ CursorSound(e.cursor) /\ e.state = d.state /\ e.pending = Unexpired
    /\ IF e.pending = <<>> THEN e.current = None ELSE e.parent = d.current /\ e.current = NextChild(e)

LEMMA SucceedLists ==
    ASSUME NEW d, DocSound(d), d.current # None, d.current.family = "chain"
    PROVE  Lists(d, Succeed(d, d.current, "rows"))
<1> DEFINE t == d.current
           d0 == Counted(d)
           c == advance(d0.cursor, t)
           g == [d0 EXCEPT !.pending = Unexpired]
           d1 == [g EXCEPT !.parent = t]
           d2 == [[d1 EXCEPT !.cursor = c] EXCEPT !.current = None]
           e == Succeed(d, t, "rows")
<1>1. e = IF d2.pending # <<>> THEN [d2 EXCEPT !.current = NextChild(d2)] ELSE [d2 EXCEPT !.parent = None]
  <2>1. "chain" # "chain_snapshot" /\ t.family = "chain"
    OBVIOUS
  <2>2. d1 = [d0 EXCEPT !.pending = Unexpired, !.parent = t]
    OBVIOUS
  <2>3. d1.cursor = d0.cursor
    BY CountedIsAlike DEF DocSound, Alike, IsDoc, DocFields
  <2> DEFINE l == Leave(d1, t)
  <2>4. l = [[d1 EXCEPT !.cursor = c] EXCEPT !.current = None]
    <3> HIDE DEF d1
    <3> QED
      BY <2>1, <2>3 DEF Leave
  <2>5. [l EXCEPT !.current = None] = d2
    <3> DEFINE k == [d1 EXCEPT !.cursor = c]
    <3> HIDE DEF k, d1
    <3>1. l = [k EXCEPT !.current = None] /\ d2 = [k EXCEPT !.current = None]
      BY <2>4 DEF k
    <3> HIDE DEF l, d2
    <3> QED
      BY <3>1
  <2>6. e = LET x == [Leave([d0 EXCEPT !.pending = Unexpired, !.parent = t], t) EXCEPT !.current = None]
            IN IF x.pending # <<>> THEN [x EXCEPT !.current = NextChild(x)] ELSE [x EXCEPT !.parent = None]
    BY <2>1, Zenon DEF Succeed, Counted
  <2> HIDE DEF d2, d0, e
  <2> QED
    BY <2>2, <2>5, <2>6
<1>2. Alike(d, d0) /\ d0.state = d.state /\ IsDoc(d0) /\ CursorSound(d0.cursor)
  BY CountedIsAlike DEF DocSound, Alike
<1>3. CursorSound(c)
  BY <1>2, AdvanceIsSound
<1> HIDE DEF d0, c
<1>4. IsDoc(g) /\ g.state = d.state /\ g.pending = Unexpired
  BY <1>2 DEF IsDoc, DocFields
<1> HIDE DEF g
<1>5. IsDoc(d1) /\ d1.state = d.state /\ d1.pending = Unexpired /\ d1.parent = t
  BY <1>4 DEF IsDoc, DocFields
<1> HIDE DEF d1
<1>6. /\ IsDoc(d2) /\ d2.state = d.state /\ d2.pending = Unexpired /\ d2.parent = t /\ d2.cursor = c
      /\ d2.current = None
  BY <1>5 DEF IsDoc, DocFields
<1> HIDE DEF d2
<1>7. CASE d2.pending # <<>>
  <2> DEFINE n == NextChild(d2)
  <2>1. e = [d2 EXCEPT !.current = n]
    BY <1>1, <1>7
  <2> HIDE DEF n, e
  <2>2. /\ IsDoc(e) /\ e.state = d.state /\ e.pending = Unexpired /\ e.parent = t /\ e.cursor = c
        /\ e.current = n
    BY <1>6, <2>1 DEF IsDoc, DocFields
  <2>3. NextChild(e) = n
    BY <1>6, <2>2 DEF NextChild, n
  <2> QED
    BY <1>3, <1>6, <1>7, <2>2, <2>3 DEF Lists, e
<1>8. CASE d2.pending = <<>>
  <2>1. e = [d2 EXCEPT !.parent = None]
    BY <1>1, <1>8
  <2> HIDE DEF e
  <2>2. IsDoc(e) /\ e.state = d.state /\ e.pending = Unexpired /\ e.cursor = c /\ e.current = None
    BY <1>6, <2>1 DEF IsDoc, DocFields
  <2> QED
    BY <1>3, <1>6, <1>8, <2>2 DEF Lists, e
<1> QED
  BY <1>7, <1>8

LEMMA ListsKeeps ==
    ASSUME NEW d, DocSound(d), d.current # None, d.current \in ChainTasks, d.current.family = "chain",
           NEW e, Lists(d, e)
    PROVE  /\ DocSound(e)
           /\ \A R, Q :
                 /\ R \subseteq Q /\ Accounted(R, d, today)
                 /\ \A x \in Expanded(Q) : x \in Expanded(R) \/ x.task = d.current
                 => Accounted(Q, e, today)
<1>0. d.state # "completed" /\ ~Snapshot(d)
  BY DEF DocSound, Snapshot
<1>1. CASE e.pending # <<>>
  <2>1. e.pending \in Seq(Expiries) /\ e.parent = d.current /\ e.current = NextChild(e)
        /\ \A i \in ToSet(Listed) : i >= today => i \in ToSet(e.pending)
    BY <1>1, UnexpiredIsOpen DEF Lists
  <2>2. Snapshot(e) /\ TaskSound(e.current) /\ e.current.item = d.current.item
    BY <1>1, <2>1, ChildIsSound DEF Snapshot
  <2>3. DocSound(e)
    BY <1>0, <1>1, <2>1, <2>2 DEF DocSound, Expanding, Lists
  <2>4. ASSUME NEW R, NEW Q, R \subseteq Q, Accounted(R, d, today),
               \A x \in Expanded(Q) : x \in Expanded(R) \/ x.task = d.current
        PROVE  Accounted(Q, e, today)
    <3> SUFFICES ASSUME NEW x \in Expanded(Q), NEW i \in ToSet(Listed), i >= today
                 PROVE  Covered(Q, x, i) \/ Expands(e, x, i)
      BY DEF Accounted
    <3>1. CASE x.task = d.current
      BY <2>1, <2>2, <3>1 DEF Expands
    <3>2. CASE x.task # d.current
      <4>1. Covered(R, x, i)
        BY <1>0, <2>4, <3>2 DEF Accounted, Expands
      <4> QED
        BY <2>4, <4>1 DEF Covered
    <3> QED
      BY <3>1, <3>2
  <2> QED
    BY <2>3, <2>4
<1>2. CASE e.pending = <<>>
  <2>1. e.current = None /\ \A i \in ToSet(Listed) : ~(i >= today)
    <3>1. Unexpired = <<>> /\ e.current = None
      BY <1>2 DEF Lists
    <3>2. ToSet(Unexpired) = {}
      BY <3>1 DEF ToSet
    <3> QED
      BY <3>1, <3>2, UnexpiredIsOpen
  <2>2. DocSound(e)
    BY <1>0, <1>2, <2>1 DEF DocSound, Lists, Snapshot
  <2> QED
    BY <2>1, <2>2 DEF Accounted
<1> QED
  BY <1>1, <1>2

Answered == {"auth", "budget", "access", "rate", "rejected", "other"}
Stuck(d) == d.state \in {"request_review", "permission_blocked"}

LEMMA HandleIsEither ==
    ASSUME NEW d, DocSound(d), d.current # None, NEW e \in Answered
    PROVE  LET h == Handle(d, d.current, e)
           IN /\ Fails(d, e) => Leaves(d, h) /\ h.state = d.state
              /\ ~Fails(d, e) => /\ Alike(d, h)
                                 /\ h.state \in {d.state, "token_required", "permission_blocked", "request_review"}
<1> DEFINE t == d.current
           h == Handle(d, t, e)
           retried == [[d EXCEPT !.retries = @ + 1] EXCEPT !.wait = "backoff"]
           review == [[[[d EXCEPT !.state = "request_review"] EXCEPT !.reviewable = TRUE]
                        EXCEPT !.retries = 0] EXCEPT !.wait = "no"]
<1>1. IsDoc(d)
  BY DEF DocSound
<1>2. ASSUME NEW g, IsDoc(g), NEW f \in Minor \cup {"state"}, NEW v
      PROVE  LET x == [g EXCEPT ![f] = v] IN Alike(g, x) /\ IsDoc(x) /\ (f # "state" => x.state = g.state)
  BY <1>2, AlikeChanges DEF Alike
<1>3. Alike(d, retried) /\ retried.state = d.state
  <2> DEFINE x == [d EXCEPT !.retries = @ + 1]
  <2>1. Alike(d, x) /\ IsDoc(x) /\ x.state = d.state
    BY <1>1, <1>2 DEF Minor
  <2> HIDE DEF x
  <2>2. Alike(x, [x EXCEPT !.wait = "backoff"]) /\ [x EXCEPT !.wait = "backoff"].state = x.state
    BY <1>2, <2>1 DEF Minor
  <2> QED
    BY <2>1, <2>2, AlikeChains DEF x
<1>4. Alike(d, review) /\ review.state = "request_review"
  <2> DEFINE x == [d EXCEPT !.state = "request_review"]
             y == [x EXCEPT !.reviewable = TRUE]
             z == [y EXCEPT !.retries = 0]
  <2>1. Alike(d, x) /\ IsDoc(x) /\ x.state = "request_review"
    BY <1>1, AlikeChanges DEF Alike
  <2> HIDE DEF x
  <2>2. Alike(x, y) /\ IsDoc(y) /\ y.state = x.state
    BY <1>2, <2>1 DEF Minor
  <2> HIDE DEF y
  <2>3. Alike(y, z) /\ IsDoc(z) /\ z.state = y.state
    BY <1>2, <2>2 DEF Minor
  <2> HIDE DEF z
  <2>4. Alike(z, [z EXCEPT !.wait = "no"]) /\ [z EXCEPT !.wait = "no"].state = z.state
    BY <1>2, <2>3 DEF Minor
  <2> QED
    BY <2>1, <2>2, <2>3, <2>4, AlikeChains DEF x, y, z
<1>5. /\ e = "auth" => h = [d EXCEPT !.state = "token_required"] /\ ~Fails(d, e)
      /\ e = "budget" => h = [d EXCEPT !.wait = "nextday"] /\ ~Fails(d, e)
      /\ e = "access" => h = [d EXCEPT !.state = "permission_blocked"] /\ ~Fails(d, e)
  BY DEF Handle, Fails
<1>6. e = "rate" => h = retried /\ ~Fails(d, e)
  BY DEF Handle, Fails
<1>7. e = "rejected" => IF d.skipRejected THEN h = record_rejection(d, t) /\ Fails(d, e) ELSE h = review /\ ~Fails(d, e)
  BY DEF Handle, Fails
<1>8. e = "other" => IF Fails(d, e) THEN h = Assess(d, t) ELSE h = retried
  BY DEF Handle, Fails
<1> HIDE DEF h, retried, review
<1>9. CASE e \in {"auth", "budget", "access"}
  <2>1. ASSUME e = "budget" PROVE Alike(d, h) /\ h.state = d.state
    <3>1. h = [d EXCEPT !.wait = "nextday"]
      BY <1>5, <2>1
    <3> QED
      BY <1>1, <1>2, <3>1 DEF Minor
  <2>2. ASSUME e # "budget" PROVE Alike(d, h) /\ h.state \in {"token_required", "permission_blocked"}
    <3>1. PICK v \in {"token_required", "permission_blocked"} : h = [d EXCEPT !.state = v]
      BY <1>5, <1>9, <2>2
    <3> QED
      BY <1>1, <3>1, AlikeChanges
  <2>3. Alike(d, h) /\ h.state \in {d.state, "token_required", "permission_blocked"}
    BY <2>1, <2>2
  <2> QED
    BY <1>5, <1>9, <2>3 DEF h
<1>10. CASE e = "rate"
  BY <1>3, <1>6, <1>10 DEF h
<1>11. CASE e = "rejected"
  BY <1>4, <1>7, <1>11, RejectionIsLeaving DEF h
<1>12. CASE e = "other"
  BY <1>3, <1>8, <1>12, AssessIsLeaving DEF h
<1> QED
  BY <1>9, <1>10, <1>11, <1>12 DEF Answered

LEMMA SaveIsAlike ==
    ASSUME NEW d, IsDoc(d), NEW old
    PROVE  Alike(d, save_job(old, d)) /\ save_job(old, d).state \in {d.state, "paused"}
<1> DEFINE v == d.flag \/ old.flag
           e == [d EXCEPT !.state = "paused", !.flag = @ \/ old.flag]
<1>1. e = [d EXCEPT !.state = "paused", !.flag = v]
  OBVIOUS
<1> HIDE DEF v
<1>2. Alike(d, e) /\ e.state = "paused"
  BY <1>1 DEF Alike, IsDoc, DocFields
<1>3. Alike(d, d)
  BY DEF Alike
<1>4. save_job(old, d) \in {d, e}
  BY Zenon DEF save_job
<1> HIDE DEF e
<1> QED
  BY <1>2, <1>3, <1>4

LEMMA PlannedIsSound ==
    ASSUME NEW d, DocSound(d), d.state = "running", NEW j, NEW R, \A x \in R : OutcomeSound(x),
           Accounted(R, d, today)
    PROVE  LET p == Planned(j, d)
           IN DocSound(p) /\ Accounted(R, p, today) /\ p.state \in {"running", "no_work", "completed"}
<1> DEFINE pages == JobPages(j)
           plan == NextTask(pages, Cfg, d.cursor, today)
           p == Planned(j, d)
           s == IF ~plan.done THEN d.state ELSE IF d.assessed = 0 THEN "no_work" ELSE "completed"
           c == plan.cursor
           t == plan.task
<1>1. CASE d.current # None
  BY <1>1 DEF Planned
<1>2. CASE d.current = None
  <2>1. PlanSound(plan)
    <3>1. pages \in Plans /\ CursorSound(d.cursor)
      BY DEF JobPages, Plans, DocSound
    <3> HIDE DEF pages
    <3> QED
      BY <3>1, PlanIsSound
  <2>2. p = IF t # None THEN [d EXCEPT !.cursor = c, !.current = t] ELSE [d EXCEPT !.cursor = c, !.state = s]
    BY <1>2 DEF Planned
  <2> HIDE DEF plan
  <2>3. CursorSound(c) /\ (t # None => TaskSound(t) /\ t.family # "chain_snapshot")
    BY <2>1 DEF PlanSound
  <2>4. s \in {"running", "no_work", "completed"}
    OBVIOUS
  <2> HIDE DEF s, c, t, p
  <2>5. ~Snapshot(d) /\ d.pending = <<>> /\ IsDoc(d)
    BY <1>2 DEF Snapshot, DocSound
  <2>6. /\ IsDoc(p) /\ p.cursor = c /\ p.pending = <<>> /\ p.current = t
        /\ p.state \in {"running", "no_work", "completed"} /\ (p.state = "completed" => t = None)
    <3>1. CASE t # None
      BY <2>2, <2>5, <3>1 DEF IsDoc, DocFields
    <3>2. CASE t = None
      BY <1>2, <2>2, <2>4, <2>5, <3>2 DEF IsDoc, DocFields
    <3> QED
      BY <3>1, <3>2
  <2>7. ~Snapshot(p)
    BY <2>3, <2>6 DEF Snapshot
  <2>8. DocSound(p)
    BY <2>3, <2>6, <2>7 DEF DocSound
  <2>9. Accounted(R, p, today)
    <3> SUFFICES ASSUME NEW x \in Expanded(R), NEW i \in ToSet(Listed), i >= today PROVE Covered(R, x, i)
      BY DEF Accounted
    <3>1. x.task # None
      BY DEF Expanded, OutcomeSound
    <3> QED
      BY <1>2, <2>5, <3>1 DEF Accounted, Expands
  <2> QED
    BY <2>6, <2>8, <2>9 DEF p
<1> QED
  BY <1>1, <1>2

-----------------------------------------------------------------------------
(* The invariant of the jobs, of documents J, outcomes R and raw answers W *)

Copying == {"checkpoint", "look", "call", "sent", "persist", "save"}
Asking == {"look", "call", "sent", "persist"}

Sound(R, d, day) ==
    DocSound(d) /\ Accounted(R, d, day) /\ (Stuck(d) => Fresh(R, d))

\* The outcomes of a job, and the raw answers behind its chains.
OutcomesOf(j, R, W) ==
    /\ \A x \in R : OutcomeSound(x)
    /\ \A x \in Expanded(R) : \E z \in W : z.key = <<j, Key(x.task)>> /\ z.body = "rows"
RawSound(W) ==
    /\ \A y, z \in W : y.key = z.key => y = z
    /\ \A z \in W : z.body \in Bodies

World(J, R, W, day) ==
    /\ RawSound(W)
    /\ \A j \in Ids : /\ OutcomesOf(j, R[j], W)
                      /\ J[j] = NoJob => R[j] = {}
                      /\ J[j] # NoJob => Sound(R[j], J[j], day)

\* A run that has read works at the task its job is at, as long as it asks.
AtTask(x, J) ==
    x.doc.state \in {"running", "paused"} /\ x.doc.current # None /\ J[x.job].current = x.doc.current
Keyed(x) ==
    /\ x.doc.current.skip = None
    /\ x.doc.current.family \notin History => x.raw = <<x.job, Key(x.doc.current)>>
RunOk(x, J, R, W, day) ==
    /\ x.pc # "idle" => x.job \in Ids /\ J[x.job] # NoJob
    /\ x.pc \in Copying => Sound(R[x.job], x.doc, day) /\ J[x.job].state \in {"running", "paused"}
    /\ x.pc = "checkpoint" => ~Stuck(x.doc)
    /\ x.pc \in Asking => AtTask(x, J)
    /\ x.pc \in Asking \ {"look"} => Keyed(x)
    /\ x.pc \in {"call", "sent"} => \A z \in W : z.key # x.raw
    /\ x.pc = "persist" => \E z \in W : z.key = x.raw /\ z.body = x.body

LEMMA DocIsJob ==
    ASSUME NEW d, IsDoc(d)
    PROVE  d # NoJob
<1>1. DOMAIN d = DocFields /\ DOMAIN NoJob = {"state"} /\ "wait" \in DocFields
  BY DEF IsDoc, NoJob, DocFields
<1> QED
  BY <1>1

\* Time takes no expiry in.
LEMMA SoundAges ==
    ASSUME NEW R, NEW d, NEW day \in Int, NEW next \in Int, next >= day, Sound(R, d, day)
    PROVE  Sound(R, d, next)
<1>1. \A e \in ToSet(Listed) : e \in Int
  BY ChainsAssumption DEF ToSet
<1>2. \A e \in ToSet(Listed) : e >= next => e >= day
  BY <1>1
<1> QED
  BY <1>2, Zenon DEF Sound, Accounted

\* The same job at the same task, not newly completed or stuck.
LEMMA SoundAlike ==
    ASSUME NEW R, NEW d, NEW e, NEW day, Sound(R, d, day), Alike(d, e),
           e.state \in {d.state, "running", "paused"}
    PROVE  Sound(R, e, day)
<1>1. DocSound(e)
  BY AlikeKeeps DEF Sound
<1>2. Accounted(R, e, day)
  BY AlikeKeeps DEF Sound
<1>3. Stuck(e) => Fresh(R, e)
  <2>1. Stuck(e) => Stuck(d)
    BY DEF Stuck
  <2> QED
    BY <2>1, AlikeKeeps DEF Sound
<1> QED
  BY <1>1, <1>2, <1>3 DEF Sound

\* More outcomes, and a chain more at most: the one the job is at.
LEMMA AccountedGrows ==
    ASSUME NEW R, NEW Q, NEW d, NEW day, R \subseteq Q, Accounted(R, d, day),
           \A x \in Expanded(Q) : x \in Expanded(R) \/ x.task = d.current
    PROVE  Accounted(Q, d, day)
<1> SUFFICES ASSUME NEW x \in Expanded(Q), NEW e \in ToSet(Listed), e >= day
             PROVE  Covered(Q, x, e) \/ Expands(d, x, e)
  BY DEF Accounted
<1>1. CASE x \in Expanded(R)
  BY <1>1 DEF Accounted, Covered
<1>2. CASE x.task = d.current
  BY <1>2 DEF Expands
<1> QED
  BY <1>1, <1>2

\* What pauses, resumes, waits or ages leaves everything sound.
LEMMA AlikeStep ==
    ASSUME NEW J, NEW K, NEW R, NEW W, NEW day \in Int, NEW next \in Int, next >= day,
           World(J, R, W, day),
           \A j \in Ids : \/ K[j] = J[j]
                          \/ /\ J[j] # NoJob /\ Alike(J[j], K[j])
                             /\ K[j].state \in {J[j].state, "running", "paused"}
    PROVE  /\ World(K, R, W, next)
           /\ \A x : RunOk(x, J, R, W, day) => RunOk(x, K, R, W, next)
<1>1. ASSUME NEW j \in Ids, J[j] # NoJob PROVE K[j] # NoJob /\ Sound(R[j], K[j], next)
  <2>1. Sound(R[j], J[j], day) /\ J[j] # NoJob
    BY <1>1 DEF World
  <2>2. CASE K[j] = J[j]
    BY <2>1, <2>2, SoundAges
  <2>3. CASE Alike(J[j], K[j]) /\ K[j].state \in {J[j].state, "running", "paused"}
    BY <2>1, <2>3, SoundAges, SoundAlike, DocIsJob DEF Alike
  <2> QED
    BY <2>2, <2>3
<1>2. \A j \in Ids : J[j] = NoJob => K[j] = NoJob
  OBVIOUS
<1>3. World(K, R, W, next)
  BY <1>1, <1>2 DEF World
<1>4. ASSUME NEW x, RunOk(x, J, R, W, day) PROVE RunOk(x, K, R, W, next)
  <2>1. x.pc # "idle" => x.job \in Ids /\ K[x.job] # NoJob
    BY <1>1, <1>4 DEF RunOk
  <2>2. x.pc \in Copying => /\ Sound(R[x.job], x.doc, next) /\ K[x.job].state \in {"running", "paused"}
                            /\ K[x.job].current = J[x.job].current
    <3> SUFFICES ASSUME x.pc \in Copying
                 PROVE  /\ Sound(R[x.job], x.doc, next) /\ K[x.job].state \in {"running", "paused"}
                        /\ K[x.job].current = J[x.job].current
      OBVIOUS
    <3>1. x.job \in Ids /\ Sound(R[x.job], x.doc, day) /\ J[x.job].state \in {"running", "paused"}
      BY <1>4 DEF RunOk, Copying
    <3>2. K[x.job] = J[x.job] \/ (Alike(J[x.job], K[x.job]) /\ K[x.job].state \in {J[x.job].state, "running", "paused"})
      BY <3>1
    <3> QED
      BY <3>1, <3>2, SoundAges DEF Alike
  <2> QED
    BY <1>4, <2>1, <2>2 DEF RunOk, Copying, Asking, AtTask
<1> QED
  BY <1>3, <1>4

\* A run that has not read yet, or is done, has only to have a job.
LEMMA NotCopying ==
    ASSUME NEW x, NEW J, NEW R, NEW W, NEW day, x.pc \notin Copying,
           x.pc # "idle" => x.job \in Ids /\ J[x.job] # NoJob
    PROVE  RunOk(x, J, R, W, day)
BY DEF RunOk, Copying, Asking

\* A run of another job.
LEMMA OtherJob ==
    ASSUME NEW x, NEW J, NEW K, NEW R, NEW Q, NEW W, NEW day, RunOk(x, J, R, W, day),
           x.pc # "idle" => K[x.job] = J[x.job] /\ Q[x.job] = R[x.job]
    PROVE  RunOk(x, K, Q, W, day)
BY DEF RunOk, Copying, Asking, AtTask

\* One job has another document and other outcomes.
LEMMA WorldChanges ==
    ASSUME NEW J, NEW K, NEW R, NEW Q, NEW W, NEW V, NEW day, World(J, R, W, day), W \subseteq V,
           RawSound(V), NEW c \in Ids, \A j \in Ids \ {c} : K[j] = J[j] /\ Q[j] = R[j],
           OutcomesOf(c, Q[c], V), K[c] # NoJob, Sound(Q[c], K[c], day)
    PROVE  World(K, Q, V, day)
<1>1. ASSUME NEW j \in Ids
      PROVE  /\ OutcomesOf(j, Q[j], V)
             /\ K[j] = NoJob => Q[j] = {}
             /\ K[j] # NoJob => Sound(Q[j], K[j], day)
  <2>1. CASE j = c
    BY <2>1
  <2>2. CASE j # c
    <3>1. K[j] = J[j] /\ Q[j] = R[j]
      BY <2>2
    <3>2. OutcomesOf(j, R[j], W)
      BY DEF World
    <3>3. OutcomesOf(j, Q[j], V)
      BY <3>1, <3>2 DEF OutcomesOf
    <3> QED
      BY <3>1, <3>3 DEF World
  <2> QED
    BY <2>1, <2>2
<1> QED
  BY <1>1, Zenon DEF World

-----------------------------------------------------------------------------
JobInv ==
    /\ results = [j \in Ids |-> results[j]] /\ today \in Int
    /\ \A r \in Runners : Working(r) => lease = r
    /\ World(jobs, results, raw, today)
    /\ \A r \in Runners : RunOk(run[r], jobs, results, raw, today)

\* The holder of the lease goes on: nobody else is in the middle of a run.
LEMMA HolderMoves ==
    ASSUME DocsInv, JobInv, NEW r \in Runners, Working(r), NEW y, run' = [run EXCEPT ![r] = y],
           lease' = lease \/ y.pc \in {"idle", "report"},
           results' = [j \in Ids |-> results'[j]], today' = today,
           World(jobs', results', raw', today), RunOk(y, jobs', results', raw', today),
           \A j \in Ids : jobs[j] # NoJob => jobs'[j] # NoJob
    PROVE  JobInv'
<1>1. lease = r /\ run'[r] = y /\ \A q \in Runners \ {r} : run'[q] = run[q]
  BY DEF JobInv, DocsInv, RunsSound
<1>2. ASSUME NEW q \in Runners, q # r PROVE ~Working(q)' /\ RunOk(run'[q], jobs', results', raw', today)
  <2>1. ~Working(q) /\ RunOk(run[q], jobs, results, raw, today) /\ run'[q] = run[q]
    BY <1>1, <1>2 DEF JobInv
  <2>2. run[q].pc \notin Copying /\ (run[q].pc # "idle" => run[q].job \in Ids /\ jobs'[run[q].job] # NoJob)
    BY <2>1 DEF Working, Copying, RunOk
  <2> QED
    BY <2>1, <2>2, NotCopying DEF Working
<1>3. Working(r)' => lease' = r
  BY <1>1 DEF Working
<1>4. \A q \in Runners : Working(q)' => lease' = q
  BY <1>2, <1>3
<1>5. \A q \in Runners : RunOk(run'[q], jobs', results', raw', today)
  BY <1>1, <1>2
<1> QED
  BY <1>4, <1>5 DEF JobInv

\* Steps that only pause, resume, wait or age, whatever runs give up or begin.
LEMMA OthersMove ==
    ASSUME JobInv, results' = results, raw' = raw, today' \in Int, today' >= today,
           lease' = lease \/ ~Working(lease),
           \A q \in Runners : \/ run'[q] = run[q]
                              \/ /\ run'[q].pc \in {"idle", "acquire"}
                                 /\ run'[q].pc # "idle" => run'[q].job \in Ids /\ jobs[run'[q].job] # NoJob,
           \A j \in Ids : \/ jobs'[j] = jobs[j]
                          \/ /\ jobs[j] # NoJob /\ Alike(jobs[j], jobs'[j])
                             /\ jobs'[j].state \in {jobs[j].state, "running", "paused"}
    PROVE  JobInv'
<1>1. /\ World(jobs', results, raw, today')
      /\ \A x : RunOk(x, jobs, results, raw, today) => RunOk(x, jobs', results, raw, today')
  <2>1. World(jobs, results, raw, today) /\ today \in Int
    BY DEF JobInv
  <2> QED
    BY <2>1, AlikeStep
<1>2. ASSUME NEW q \in Runners
      PROVE  (Working(q)' => lease' = q) /\ RunOk(run'[q], jobs', results', raw', today')
  <2>1. CASE run'[q] = run[q]
    <3>1. RunOk(run[q], jobs, results, raw, today) /\ (Working(q) => lease = q)
      BY DEF JobInv
    <3>2. RunOk(run'[q], jobs', results', raw', today')
      BY <1>1, <2>1, <3>1
    <3> QED
      BY <2>1, <3>1, <3>2 DEF Working
  <2>2. CASE /\ run'[q].pc \in {"idle", "acquire"}
             /\ run'[q].pc # "idle" => run'[q].job \in Ids /\ jobs[run'[q].job] # NoJob
    <3>1. run'[q].pc # "idle" => run'[q].job \in Ids /\ jobs'[run'[q].job] # NoJob
      BY <2>2, DocIsJob DEF Alike
    <3>2. run'[q].pc \notin Copying
      BY <2>2 DEF Copying
    <3>3. RunOk(run'[q], jobs', results', raw', today')
      BY <3>1, <3>2, NotCopying
    <3> QED
      BY <2>2, <3>3 DEF Working
  <2> QED
    BY <2>1, <2>2
<1>3. results' = [j \in Ids |-> results'[j]]
  BY DEF JobInv
<1> QED
  BY <1>1, <1>2, <1>3 DEF JobInv

\* What is known of a run that works on a copy.
LEMMA CopyIs ==
    ASSUME DocsInv, JobInv, NEW r \in Runners, run[r].pc \in Copying
    PROVE  /\ Working(r) /\ Job(r) \in Ids /\ jobs[Job(r)] # NoJob
           /\ Sound(results[Job(r)], Doc(r), today) /\ Sound(results[Job(r)], jobs[Job(r)], today)
           /\ OutcomesOf(Job(r), results[Job(r)], raw)
           /\ jobs[Job(r)].state \in {"running", "paused"}
           /\ run[r].pc \in Asking => /\ Task(r) # None /\ jobs[Job(r)].current = Task(r)
                                      /\ Doc(r).state \in {"running", "paused"} /\ TaskSound(Task(r))
<1>1. RunOk(run[r], jobs, results, raw, today) /\ World(jobs, results, raw, today)
  BY DEF JobInv
<1>2. /\ Job(r) \in Ids /\ jobs[Job(r)] # NoJob /\ Sound(results[Job(r)], Doc(r), today)
      /\ jobs[Job(r)].state \in {"running", "paused"}
  BY <1>1 DEF RunOk, Job, Doc, Copying
<1>3. Sound(results[Job(r)], jobs[Job(r)], today) /\ OutcomesOf(Job(r), results[Job(r)], raw)
  BY <1>1, <1>2 DEF World
<1>4. run[r].pc \in Asking => AtTask(run[r], jobs)
  BY <1>1 DEF RunOk
<1>5. run[r].pc \in Asking => /\ Task(r) # None /\ jobs[Job(r)].current = Task(r)
                              /\ Doc(r).state \in {"running", "paused"} /\ TaskSound(Task(r))
  BY <1>2, <1>4 DEF AtTask, Sound, DocSound, Job, Doc, Task
<1> QED
  BY <1>2, <1>3, <1>5 DEF Working, Copying

\* A task that was not answered with rows is not one of the chains that were.
LEMMA AskingIsFresh ==
    ASSUME DocsInv, JobInv, NEW r \in Runners,
           \/ run[r].pc \in {"call", "sent"}
           \/ run[r].pc = "persist" /\ run[r].body # "rows"
    PROVE  Fresh(results[Job(r)], Doc(r))
<1> SUFFICES ASSUME NEW x \in Expanded(results[Job(r)]), x.task = Doc(r).current PROVE FALSE
  BY DEF Fresh
<1>1. RunOk(run[r], jobs, results, raw, today) /\ RawSound(raw)
  BY DEF JobInv, World
<1>2. run[r].pc \in Copying
  BY DEF Copying
<1>3. OutcomesOf(Job(r), results[Job(r)], raw)
  BY <1>2, CopyIs
<1>4. PICK z \in raw : z.key = <<Job(r), Key(x.task)>> /\ z.body = "rows"
  BY <1>3 DEF OutcomesOf
<1>5. x.task.family \notin History
  BY DEF Expanded, History
<1>6. run[r].raw = z.key
  BY <1>1, <1>4, <1>5 DEF RunOk, Keyed, Asking, Job, Doc
<1>7. CASE run[r].pc \in {"call", "sent"}
  BY <1>1, <1>6, <1>7 DEF RunOk
<1>8. CASE run[r].pc = "persist" /\ run[r].body # "rows"
  <2>1. PICK y \in raw : y.key = run[r].raw /\ y.body = run[r].body
    BY <1>1, <1>8 DEF RunOk
  <2>2. y = z
    BY <1>1, <1>6, <2>1 DEF RawSound
  <2> QED
    BY <1>4, <1>8, <2>1, <2>2
<1> QED
  BY <1>7, <1>8

LEMMA RunIs ==
    ASSUME DocsInv, NEW r \in Runners
    PROVE  /\ run = [q \in Runners |-> run[q]]
           /\ run[r] = [f \in {"pc", "job", "doc", "raw", "body", "failed"} |-> run[r][f]]
BY DEF DocsInv, RunsSound, RunSound

\* A result under its own name.
LEMMA InstallResult ==
    ASSUME NEW R, \A x \in R : OutcomeSound(x), NEW t, t # None, TaskSound(t), NEW s,
           s = "completed" /\ t.family = "chain" => t \in ChainTasks
    PROVE  Adds(R, Install(R, t, s), t, s)
<1> DEFINE k == Key(t)
           o == Outcome(k, t, s)
<1>1. OutcomeSound(o)
  <2>1. o.key = k /\ o.task = t /\ o.status = s
    BY DEF Outcome
  <2> HIDE DEF o
  <2> QED
    BY <2>1 DEF OutcomeSound
<1>2. Install(R, t, s) = InstallOnce(R, Outcome(k, t, s))
  BY DEF Install
<1> HIDE DEF k
<1> QED
  BY <1>1, <1>2, InstallKeeps

\* A result of a kind that lists no expiries: the run saves the document it leaves with.
LEMMA OutcomeStep ==
    ASSUME DocsInv, JobInv, NEW r \in Runners, run[r].pc \in Asking,
           Snapshot(Doc(r)) \/ Fresh(results[Job(r)], Doc(r)),
           NEW s, s # "completed" \/ Task(r).family # "chain",
           NEW e, Leaves(Doc(r), e), e.state = Doc(r).state,
           results' = [results EXCEPT ![Job(r)] = Install(@, Task(r), s)],
           run' = [run EXCEPT ![r].pc = "save", ![r].doc = e],
           UNCHANGED <<jobs, raw, lease, recorder, today, crashes, commands>>
    PROVE  JobInv'
<1> DEFINE j == Job(r)
           d == Doc(r)
           t == Task(r)
           R == results[j]
           Q == Install(R, t, s)
           y == [run[r] EXCEPT !.pc = "save", !.doc = e]
<1>1. run[r].pc \in Copying
  BY DEF Copying, Asking
<1>2. /\ Working(r) /\ j \in Ids /\ jobs[j] # NoJob /\ Sound(R, d, today) /\ Sound(R, jobs[j], today)
      /\ OutcomesOf(j, R, raw) /\ jobs[j].state \in {"running", "paused"}
      /\ t # None /\ jobs[j].current = t /\ d.state \in {"running", "paused"} /\ TaskSound(t)
  BY <1>1, CopyIs
<1>4. /\ R \subseteq Q /\ (\A x \in Q : OutcomeSound(x)) /\ Answers(Q, t) /\ Expanded(Q) = Expanded(R)
  <2>1. s = "completed" /\ t.family = "chain" => t \in ChainTasks
    OBVIOUS
  <2>2. t # None /\ TaskSound(t) /\ (s # "completed" \/ t.family # "chain") /\ \A x \in R : OutcomeSound(x)
    BY <1>2 DEF OutcomesOf
  <2> HIDE DEF R, t
  <2>3. Adds(R, Q, t, s)
    BY <2>1, <2>2, InstallResult
  <2> HIDE DEF Q
  <2> QED
    BY <2>2, <2>3 DEF Adds
<1>5. run' = [run EXCEPT ![r] = y] /\ y.pc = "save" /\ y.doc = e /\ y.job = j
  BY RunIs DEF Job
<1>6. results' = [results EXCEPT ![j] = Q] /\ results' = [k \in Ids |-> results'[k]]
      /\ results'[j] = Q /\ \A k \in Ids \ {j} : results'[k] = results[k]
  BY <1>2 DEF JobInv
<1> HIDE DEF Q, y
<1>7. Sound(Q, e, today)
  <2>1. DocSound(d) /\ d.current = t /\ Accounted(R, d, today) /\ \A x \in R : OutcomeSound(x)
    BY <1>2 DEF Sound, OutcomesOf, Task, Doc
  <2>2. DocSound(e)
    BY <1>2, <2>1, LeavesSound
  <2>3. Accounted(Q, e, today)
    BY <1>2, <1>4, <2>1, LeavesAccounted
  <2>4. ~Stuck(e)
    BY <1>2 DEF Stuck
  <2> QED
    BY <2>2, <2>3, <2>4 DEF Sound
<1>8. Sound(Q, jobs[j], today) /\ OutcomesOf(j, Q, raw)
  <2>1. Accounted(Q, jobs[j], today)
    BY <1>2, <1>4, AccountedGrows DEF Sound
  <2>2. ~Stuck(jobs[j])
    BY <1>2 DEF Stuck
  <2> QED
    BY <1>2, <1>4, <2>1, <2>2 DEF Sound, OutcomesOf
<1>9. World(jobs', results', raw', today)
  <2>1. World(jobs, results, raw, today) /\ RawSound(raw)
    BY DEF JobInv, World
  <2> HIDE DEF j
  <2> QED
    BY <1>2, <1>6, <1>8, <2>1, WorldChanges
<1>10. RunOk(y, jobs', results', raw', today)
  BY <1>2, <1>5, <1>6, <1>7 DEF RunOk, Copying, Asking
<1> QED
  BY <1>2, <1>5, <1>6, <1>9, <1>10, HolderMoves

-----------------------------------------------------------------------------
(* The steps of the run that holds the lease                               *)

\* The run alone changes.
LEMMA CopyMoves ==
    ASSUME DocsInv, JobInv, NEW r \in Runners, Working(r), NEW y, run' = [run EXCEPT ![r] = y],
           UNCHANGED <<jobs, results, raw, today>>, lease' = lease \/ y.pc \in {"idle", "report"},
           RunOk(y, jobs, results, raw, today)
    PROVE  JobInv'
<1>1. World(jobs', results', raw', today) /\ RunOk(y, jobs', results', raw', today)
  BY DEF JobInv
<1>2. results' = [j \in Ids |-> results'[j]]
  BY DEF JobInv
<1> QED
  BY <1>1, <1>2, HolderMoves

LEMMA GoesOff ==
    ASSUME DocsInv, JobInv, NEW r \in Runners, Working(r), NEW y, run' = [run EXCEPT ![r] = y],
           UNCHANGED <<jobs, results, raw, today>>, lease' = lease \/ y.pc \in {"idle", "report"},
           y.pc \notin Copying, y.job = Job(r) \/ y.pc = "idle"
    PROVE  JobInv'
<1>1. RunOk(run[r], jobs, results, raw, today)
  BY DEF JobInv
<1>2. y.pc # "idle" => y.job \in Ids /\ jobs[y.job] # NoJob
  BY <1>1 DEF RunOk, Working, Job
<1> QED
  BY <1>2, NotCopying, CopyMoves

LEMMA ReadStep ==
    ASSUME DocsInv, JobInv, NEW r \in Runners, Read(r)
    PROVE  JobInv'
<1> DEFINE j == Job(r)
           old == jobs[j]
           p == Planned(j, old)
           q == [p EXCEPT !.state = "paused"]
<1>0. Working(r) /\ run[r].pc = "read" /\ UNCHANGED <<jobs, results, raw, today, lease>>
  BY DEF Read, Working
<1>1. CASE old.state # "running" \/ old.wait \in Waiting
  <2>1. run' = [run EXCEPT ![r] = [run[r] EXCEPT !.pc = "release"]]
    BY <1>1, RunIs DEF Read, Go
  <2>2. [run[r] EXCEPT !.pc = "release"].pc = "release" /\ [run[r] EXCEPT !.pc = "release"].job = Job(r)
    BY RunIs DEF Job
  <2> QED
    BY <1>0, <2>1, <2>2, GoesOff DEF Copying
<1>2. CASE ~(old.state # "running" \/ old.wait \in Waiting)
  <2>1. j \in Ids /\ jobs[j] # NoJob /\ World(jobs, results, raw, today)
    BY <1>0 DEF JobInv, RunOk, Job
  <2>2. Sound(results[j], old, today) /\ OutcomesOf(j, results[j], raw)
    BY <2>1 DEF World
  <2>3. DocSound(p) /\ Accounted(results[j], p, today) /\ p.state \in {"running", "no_work", "completed"}
    BY <1>2, <2>2, PlannedIsSound DEF Sound, OutcomesOf
  <2>4. PICK d \in {p, q} : run' = [run EXCEPT ![r].pc = "checkpoint", ![r].doc = d]
    BY <1>2 DEF Read
  <2> HIDE DEF p
  <2>5. Sound(results[j], p, today) /\ ~Stuck(p)
    BY <2>3 DEF Sound, Stuck
  <2>6. Alike(p, q) /\ q.state = "paused"
    <3>1. IsDoc(p) /\ "state" \in Minor \cup {"state"}
      BY <2>3, Zenon DEF DocSound
    <3> QED
      BY ONLY <3>1, AlikeChanges
  <2> HIDE DEF q
  <2>7. Sound(results[j], q, today) /\ ~Stuck(q)
    BY <2>5, <2>6, SoundAlike DEF Stuck
  <2>8. Sound(results[j], d, today) /\ ~Stuck(d)
    BY <2>5, <2>7
  <2> DEFINE y == [run[r] EXCEPT !.pc = "checkpoint", !.doc = d]
  <2>9. run' = [run EXCEPT ![r] = y] /\ y.pc = "checkpoint" /\ y.doc = d /\ y.job = j
    BY <2>4, RunIs DEF Job
  <2> HIDE DEF y
  <2>10. RunOk(y, jobs, results, raw, today)
    BY <1>2, <2>1, <2>8, <2>9 DEF RunOk, Copying, Asking
  <2> QED
    BY <1>0, <2>9, <2>10, CopyMoves
<1> QED
  BY <1>1, <1>2

\* The document is written, with the pause that was found.
LEMMA WriteStep ==
    ASSUME DocsInv, JobInv, NEW r \in Runners, run[r].pc \in Copying,
           NEW doc, doc = save_job(jobs[Job(r)], Doc(r)), jobs' = [jobs EXCEPT ![Job(r)] = doc],
           UNCHANGED <<results, raw, lease, today>>
    PROVE  /\ World(jobs', results', raw', today) /\ \A j \in Ids : jobs[j] # NoJob => jobs'[j] # NoJob
           /\ jobs'[Job(r)] = doc /\ Sound(results[Job(r)], doc, today) /\ Alike(Doc(r), doc)
           /\ doc.state \in {Doc(r).state, "paused"}
<1> DEFINE j == Job(r)
<1>1. /\ j \in Ids /\ Sound(results[j], Doc(r), today) /\ World(jobs, results, raw, today) /\ RawSound(raw)
      /\ OutcomesOf(j, results[j], raw)
  BY CopyIs DEF JobInv, World
<1>2. Alike(Doc(r), doc) /\ doc.state \in {Doc(r).state, "paused"}
  BY <1>1, SaveIsAlike DEF Sound, DocSound
<1>3. Sound(results[j], doc, today) /\ doc # NoJob
  BY <1>1, <1>2, SoundAlike, DocIsJob DEF Alike
<1>4. jobs'[j] = doc /\ \A k \in Ids \ {j} : jobs'[k] = jobs[k]
  BY <1>1 DEF DocsInv, JobsSound
<1>5. World(jobs', results', raw', today)
  <2> HIDE DEF j
  <2> QED
    BY <1>1, <1>3, <1>4, WorldChanges
<1> QED
  BY <1>2, <1>3, <1>4, <1>5

LEMMA CheckpointStep ==
    ASSUME DocsInv, JobInv, NEW r \in Runners, Checkpoint(r)
    PROVE  JobInv'
<1> DEFINE j == Job(r)
           doc == save_job(jobs[j], Doc(r))
           pc == IF Task(r) = None \/ Doc(r).state # "running" THEN "release" ELSE "look"
           y == [run[r] EXCEPT !.pc = pc, !.doc = doc]
<1>1. /\ run[r].pc = "checkpoint" /\ jobs' = [jobs EXCEPT ![j] = doc]
      /\ run' = [run EXCEPT ![r].doc = doc, ![r].pc = pc]
      /\ UNCHANGED <<results, raw, lease, today>>
  BY DEF Checkpoint
<1>2. /\ Working(r) /\ j \in Ids
  BY <1>1, CopyIs DEF Copying
<1>3. run[r].pc \in Copying
  BY <1>1 DEF Copying
<1>4. /\ World(jobs', results', raw', today) /\ \A k \in Ids : jobs[k] # NoJob => jobs'[k] # NoJob
      /\ jobs'[j] = doc /\ Sound(results[j], doc, today) /\ Alike(Doc(r), doc)
      /\ doc.state \in {Doc(r).state, "paused"}
  BY <1>1, <1>3, WriteStep
<1> HIDE DEF doc
<1>5. run' = [run EXCEPT ![r] = y] /\ y.pc = pc /\ y.doc = doc /\ y.job = j
  BY <1>1, RunIs DEF Job
<1> HIDE DEF y
<1>6. jobs'[j] # NoJob /\ results' = [k \in Ids |-> results'[k]]
  BY <1>1, <1>2, <1>3, <1>4, CopyIs DEF JobInv
<1>7. CASE pc = "release"
  <2>1. RunOk(y, jobs', results', raw', today)
    BY <1>2, <1>5, <1>6, <1>7, NotCopying DEF Copying
  <2> QED
    BY <1>1, <1>2, <1>4, <1>5, <1>6, <2>1, HolderMoves
<1>8. CASE pc # "release"
  <2>1. pc = "look" /\ Task(r) # None /\ Doc(r).state = "running"
    BY <1>8
  <2>2. doc.state \in {"running", "paused"} /\ doc.current # None
    BY <1>4, <2>1 DEF Alike, Task, Doc
  <2>3. AtTask(y, jobs')
    BY <1>4, <1>5, <2>2 DEF AtTask
  <2>4. RunOk(y, jobs', results', raw', today)
    BY <1>1, <1>2, <1>4, <1>5, <1>6, <2>1, <2>2, <2>3 DEF RunOk, Copying, Asking
  <2> QED
    BY <1>1, <1>2, <1>4, <1>5, <1>6, <2>4, HolderMoves
<1> QED
  BY <1>7, <1>8

LEMMA SaveStep ==
    ASSUME DocsInv, JobInv, NEW r \in Runners, Save(r)
    PROVE  JobInv'
<1> DEFINE j == Job(r)
           doc == save_job(jobs[j], Doc(r))
           y == [run[r] EXCEPT !.pc = "release"]
<1>1. run[r].pc = "save" /\ UNCHANGED <<results, raw, lease, today>>
  BY DEF Save
<1>2. Working(r) /\ j \in Ids /\ run[r].pc \in Copying
  BY <1>1, CopyIs DEF Copying
<1>3. jobs' = [jobs EXCEPT ![j] = doc]
  BY <1>2 DEF Save, DocsInv, JobsSound
<1>4. /\ World(jobs', results', raw', today) /\ \A k \in Ids : jobs[k] # NoJob => jobs'[k] # NoJob
  BY <1>1, <1>2, <1>3, WriteStep
<1>5. run' = [run EXCEPT ![r] = y] /\ y.pc = "release" /\ y.job = j
  BY RunIs DEF Job, Save, Go
<1> HIDE DEF y
<1>6. jobs'[j] # NoJob /\ results' = [k \in Ids |-> results'[k]]
  BY <1>1, <1>2, <1>4, CopyIs DEF JobInv
<1>7. RunOk(y, jobs', results', raw', today)
  BY <1>2, <1>5, <1>6, NotCopying DEF Copying
<1> QED
  BY <1>1, <1>2, <1>4, <1>5, <1>6, <1>7, HolderMoves

-----------------------------------------------------------------------------
\* The run goes on with the task it is at.
LEMMA AskingMoves ==
    ASSUME NEW x, NEW y, NEW J, NEW R, NEW W, NEW day, RunOk(x, J, R, W, day), x.pc \in Asking,
           y.job = x.job, y.doc = x.doc, y.pc \in Asking, Keyed(y),
           y.pc \in {"call", "sent"} => \A z \in W : z.key # y.raw,
           y.pc = "persist" => \E z \in W : z.key = y.raw /\ z.body = y.body
    PROVE  RunOk(y, J, R, W, day)
BY DEF RunOk, Copying, Asking, AtTask

LEMMA LookStep ==
    ASSUME DocsInv, JobInv, NEW r \in Runners, Look(r)
    PROVE  JobInv'
<1> DEFINE t == Task(r)
           first == RawKey(Job(r), Doc(r), t)
           stale == /\ t.family \in History /\ ~Doc(r).force
                    /\ \E x \in Stored(first) : ~cache_is_closed(t, x)
           key == IF stale THEN FreshKey(Job(r), t) ELSE first
           pc == IF Stored(key) = {} THEN "call" ELSE "persist"
           body == IF Stored(key) = {} THEN None ELSE (CHOOSE x \in Stored(key) : TRUE).body
           y == [run[r] EXCEPT !.raw = key, !.pc = pc, !.body = body]
<1>1. /\ run[r].pc = "look" /\ t.skip = None /\ UNCHANGED <<jobs, results, raw, lease, today>>
      /\ run' = [run EXCEPT ![r].raw = key, ![r].pc = pc, ![r].body = body]
  BY DEF Look
<1>2. t.family \notin History => key = <<Job(r), Key(t)>>
  BY DEF RawKey
<1> HIDE DEF key
<1>3. pc = "call" => \A z \in raw : z.key # key
  BY DEF Stored
<1>4. pc = "persist" => \E z \in raw : z.key = key /\ z.body = body
  BY DEF Stored
<1>5. pc \in {"call", "persist"}
  OBVIOUS
<1> HIDE DEF pc, body
<1>6. run' = [run EXCEPT ![r] = y] /\ y.pc = pc /\ y.raw = key /\ y.body = body /\ y.job = Job(r) /\ y.doc = Doc(r)
  BY <1>1, RunIs DEF Job, Doc
<1> HIDE DEF y
<1>7. Keyed(y)
  BY <1>1, <1>2, <1>6 DEF Keyed, Task, Doc
<1>8. Working(r) /\ RunOk(run[r], jobs, results, raw, today) /\ run[r].pc \in Asking
  BY <1>1 DEF JobInv, Working, Asking
<1>9. RunOk(y, jobs, results, raw, today)
  BY <1>3, <1>4, <1>5, <1>6, <1>7, <1>8, AskingMoves DEF Asking, Job, Doc
<1> QED
  BY <1>1, <1>6, <1>8, <1>9, CopyMoves

LEMMA CallStep ==
    ASSUME DocsInv, JobInv, NEW r \in Runners, Call(r)
    PROVE  JobInv'
<1>1. run[r].pc = "call" /\ UNCHANGED <<jobs, results, raw, lease, today>> /\ Working(r)
  BY DEF Call, Working
<1>2. lease = r
  BY <1>1 DEF JobInv
<1> DEFINE y == [run[r] EXCEPT !.pc = "sent"]
<1>3. run' = [run EXCEPT ![r] = y]
  BY <1>2, RunIs DEF Call, Go
<1>4. y.pc = "sent" /\ y.job = run[r].job /\ y.doc = run[r].doc /\ y.raw = run[r].raw
  BY RunIs
<1> HIDE DEF y
<1>5. RunOk(run[r], jobs, results, raw, today)
  BY DEF JobInv
<1>6. Keyed(y) /\ \A z \in raw : z.key # y.raw
  BY <1>1, <1>4, <1>5 DEF RunOk, Keyed, Asking
<1>7. RunOk(y, jobs, results, raw, today)
  BY <1>1, <1>4, <1>5, <1>6, AskingMoves DEF Asking
<1> QED
  BY <1>1, <1>3, <1>7, CopyMoves

LEMMA AnswerStep ==
    ASSUME DocsInv, JobInv, NEW r \in Runners, NEW b \in Bodies, Answer(r, b)
    PROVE  JobInv'
<1> DEFINE z == [key |-> run[r].raw, day |-> today, body |-> b]
           y == [run[r] EXCEPT !.pc = "persist", !.body = b]
<1>1. /\ run[r].pc = "sent" /\ UNCHANGED <<jobs, results, lease, today>> /\ Working(r)
      /\ run' = [run EXCEPT ![r].pc = "persist", ![r].body = b]
  BY DEF Answer, Working
<1>2. RunOk(run[r], jobs, results, raw, today) /\ World(jobs, results, raw, today) /\ RawSound(raw)
  BY DEF JobInv, World
<1>3. \A x \in raw : x.key # run[r].raw
  BY <1>1, <1>2 DEF RunOk
<1>4. raw' = raw \cup {z}
  BY <1>3 DEF Answer, Stored
<1>5. z.key = run[r].raw /\ z.body = b
  OBVIOUS
<1> HIDE DEF z
<1>6. RawSound(raw')
  BY <1>2, <1>3, <1>4, <1>5 DEF RawSound
<1>7. run' = [run EXCEPT ![r] = y]
  BY <1>1, RunIs
<1>8. /\ y.pc = "persist" /\ y.job = run[r].job /\ y.doc = run[r].doc /\ y.raw = run[r].raw /\ y.body = b
  BY RunIs
<1> HIDE DEF y
<1>9. Keyed(y)
  BY <1>1, <1>2, <1>8 DEF RunOk, Keyed, Asking
<1>10. RunOk(y, jobs, results, raw', today)
  BY <1>1, <1>2, <1>4, <1>5, <1>8, <1>9 DEF RunOk, Copying, Asking, AtTask
<1>11. World(jobs, results, raw', today)
  <2>1. ASSUME NEW j \in Ids PROVE OutcomesOf(j, results[j], raw')
    BY <1>2, <1>4 DEF World, OutcomesOf
  <2> QED
    BY <1>2, <1>6, <2>1 DEF World
<1>12. results' = [j \in Ids |-> results'[j]]
  BY <1>1 DEF JobInv
<1>13. World(jobs', results', raw', today) /\ RunOk(y, jobs', results', raw', today)
  BY <1>1, <1>10, <1>11
<1> QED
  BY <1>1, <1>7, <1>12, <1>13, HolderMoves

LEMMA UnsupportedStep ==
    ASSUME DocsInv, JobInv, NEW r \in Runners, Unsupported(r)
    PROVE  JobInv'
<1> DEFINE e == Succeed(Doc(r), Task(r), "unsupported")
<1>1. run[r].pc \in Asking /\ run[r].pc \in Copying /\ Task(r).skip # None
  BY DEF Unsupported, Asking, Copying
<1>2. /\ DocSound(Doc(r)) /\ Task(r) # None /\ OutcomesOf(Job(r), results[Job(r)], raw)
  BY <1>1, CopyIs DEF Sound
<1>3. Leaves(Doc(r), e) /\ e.state = Doc(r).state
  BY <1>2, SucceedIsLeaving DEF Task, Doc
<1>4. Fresh(results[Job(r)], Doc(r))
  <2> SUFFICES ASSUME NEW x \in Expanded(results[Job(r)]), x.task = Task(r) PROVE FALSE
    BY DEF Fresh, Task, Doc
  <2>1. x.task \in ChainTasks
    BY <1>2 DEF OutcomesOf, OutcomeSound, Expanded
  <2> QED
    BY <1>1, <2>1 DEF ChainTasks
<1> HIDE DEF e
<1>5. /\ results' = [results EXCEPT ![Job(r)] = Install(@, Task(r), "unsupported")]
      /\ run' = [run EXCEPT ![r].pc = "save", ![r].doc = e]
      /\ UNCHANGED <<jobs, raw, lease, recorder, today, crashes, commands>>
  BY DEF Unsupported, e
<1> QED
  BY <1>1, <1>3, <1>4, <1>5, OutcomeStep

LEMMA RefuseStep ==
    ASSUME DocsInv, JobInv, NEW r \in Runners, NEW e \in Answered, Refuse(r, e), run[r].pc \in Asking,
           Fresh(results[Job(r)], Doc(r))
    PROVE  JobInv'
<1> DEFINE j == Job(r)
           d == Doc(r)
           h == Handle(d, Task(r), e)
<1>1. run[r].pc \in Copying
  BY DEF Copying, Asking
<1>2. /\ Working(r) /\ j \in Ids /\ jobs[j] # NoJob /\ Sound(results[j], d, today)
      /\ jobs[j].state \in {"running", "paused"}
      /\ Task(r) # None /\ d.state \in {"running", "paused"}
  BY <1>1, CopyIs
<1>3. /\ Fails(d, e) => Leaves(d, h) /\ h.state = d.state
      /\ ~Fails(d, e) => /\ Alike(d, h)
                         /\ h.state \in {d.state, "token_required", "permission_blocked", "request_review"}
  BY <1>2, HandleIsEither DEF Sound, Task, Doc
<1>4. /\ results' = IF Fails(d, e) THEN [results EXCEPT ![j] = Install(@, Task(r), "failed")] ELSE results
      /\ run' = [run EXCEPT ![r].pc = "save", ![r].doc = h]
      /\ UNCHANGED <<jobs, raw, lease, recorder, today, crashes, commands>>
  BY DEF Refuse
<1> HIDE DEF h
<1>5. CASE Fails(d, e)
  BY <1>3, <1>4, <1>5, OutcomeStep
<1>6. CASE ~Fails(d, e)
  <2> DEFINE y == [run[r] EXCEPT !.pc = "save", !.doc = h]
  <2>1. run' = [run EXCEPT ![r] = y] /\ y.pc = "save" /\ y.doc = h /\ y.job = j
    BY <1>4, RunIs DEF Job
  <2> HIDE DEF y
  <2>2. DocSound(h) /\ Accounted(results[j], h, today) /\ Fresh(results[j], h)
    <3>1. h.state # "completed"
      BY <1>2, <1>3, <1>6
    <3> QED
      BY <1>2, <1>3, <1>6, <3>1, AlikeKeeps DEF Sound
  <2>3. RunOk(y, jobs, results, raw, today)
    BY <1>2, <2>1, <2>2 DEF RunOk, Copying, Asking, Sound
  <2> QED
    BY <1>2, <1>4, <1>6, <2>1, <2>3, CopyMoves
<1> QED
  BY <1>5, <1>6

-----------------------------------------------------------------------------
\* A chain is answered with rows: what it listed is now to be asked for.
LEMMA ChainAnswered ==
    ASSUME DocsInv, JobInv, NEW r \in Runners, Persist(r), run[r].body = "rows", Task(r).family = "chain"
    PROVE  JobInv'
<1> DEFINE j == Job(r)
           d == Doc(r)
           t == Task(r)
           R == results[j]
           Q == Install(R, t, "completed")
           e == Succeed(d, t, "rows")
           y == [run[r] EXCEPT !.pc = "save", !.doc = e]
<1>1. /\ run[r].pc = "persist" /\ UNCHANGED <<jobs, raw, lease, today>>
      /\ run[r].pc \in Copying /\ run[r].pc \in Asking
      /\ results' = [results EXCEPT ![j] = Install(@, t, "completed")]
      /\ run' = [run EXCEPT ![r].pc = "save", ![r].doc = e]
  BY DEF Persist, Status, Copying, Asking
<1>2. /\ Working(r) /\ j \in Ids /\ jobs[j] # NoJob /\ Sound(R, d, today) /\ Sound(R, jobs[j], today)
      /\ OutcomesOf(j, R, raw) /\ jobs[j].state \in {"running", "paused"}
      /\ t # None /\ jobs[j].current = t /\ d.state \in {"running", "paused"} /\ TaskSound(t)
  BY <1>1, CopyIs
<1>3. RunOk(run[r], jobs, results, raw, today) /\ World(jobs, results, raw, today) /\ RawSound(raw)
  BY DEF JobInv, World
<1>4. Keyed(run[r]) /\ d.current = t /\ t.skip = None
  BY <1>1, <1>3 DEF RunOk, Asking, Keyed, Task, Doc
<1>5. t \in ChainTasks
  BY <1>2, <1>4 DEF TaskSound, ChainLike
<1>6. \E z \in raw : z.key = <<j, Key(t)>> /\ z.body = "rows"
  <2>1. t.family \notin History
    BY DEF History
  <2>2. run[r].raw = <<j, Key(t)>>
    BY <1>4, <2>1 DEF Keyed, Job, Task
  <2> QED
    BY <1>1, <1>3, <2>2 DEF RunOk
<1>7. Adds(R, Q, t, "completed")
  <2>1. \A x \in R : OutcomeSound(x)
    BY <1>2 DEF OutcomesOf
  <2> QED
    BY <1>2, <1>5, <2>1, InstallResult
<1>8. Lists(d, e)
  BY <1>2, <1>4, SucceedLists DEF Sound
<1>9. run' = [run EXCEPT ![r] = y] /\ y.pc = "save" /\ y.doc = e /\ y.job = j
  BY <1>1, RunIs DEF Job
<1>10. results' = [results EXCEPT ![j] = Q] /\ results' = [k \in Ids |-> results'[k]]
       /\ results'[j] = Q /\ \A k \in Ids \ {j} : results'[k] = results[k]
  BY <1>1, <1>2 DEF JobInv
<1> HIDE DEF Q, y, e
<1>11. /\ R \subseteq Q /\ (\A x \in Q : OutcomeSound(x))
       /\ \A x \in Expanded(Q) : x \in Expanded(R) \/ x.task = t
  BY <1>7 DEF Adds
<1>12. DocSound(e) /\ Accounted(Q, e, today)
  <2>1. DocSound(d) /\ Accounted(R, d, today) /\ d.current # None /\ d.current \in ChainTasks
        /\ d.current.family = "chain"
    BY <1>2, <1>4, <1>5 DEF Sound
  <2>2. \A x \in Expanded(Q) : x \in Expanded(R) \/ x.task = d.current
    BY <1>4, <1>11
  <2> HIDE DEF R, d
  <2> QED
    BY <1>8, <1>11, <2>1, <2>2, ListsKeeps
<1>13. ~Stuck(e)
  BY <1>2, <1>8 DEF Stuck, Lists
<1>14. Sound(Q, jobs[j], today) /\ OutcomesOf(j, Q, raw)
  <2>1. Accounted(Q, jobs[j], today)
    BY <1>2, <1>11, AccountedGrows DEF Sound
  <2>2. ~Stuck(jobs[j])
    BY <1>2 DEF Stuck
  <2>3. \A x \in Expanded(Q) : \E z \in raw : z.key = <<j, Key(x.task)>> /\ z.body = "rows"
    BY <1>2, <1>6, <1>11 DEF OutcomesOf
  <2> QED
    BY <1>2, <1>11, <2>1, <2>2, <2>3 DEF Sound, OutcomesOf
<1>15. World(jobs', results', raw', today)
  <2> HIDE DEF j
  <2> QED
    BY <1>1, <1>2, <1>3, <1>10, <1>14, WorldChanges
<1>16. RunOk(y, jobs', results', raw', today)
  BY <1>1, <1>2, <1>9, <1>10, <1>12, <1>13 DEF RunOk, Copying, Asking, Sound
<1> QED
  BY <1>1, <1>2, <1>9, <1>10, <1>15, <1>16, HolderMoves

LEMMA PersistStep ==
    ASSUME DocsInv, JobInv, NEW r \in Runners, Persist(r)
    PROVE  JobInv'
<1> DEFINE b == run[r].body
           e == Succeed(Doc(r), Task(r), b)
           s == Status(b)
<1>1. run[r].pc \in Asking /\ run[r].pc \in Copying /\ run[r].pc = "persist"
  BY DEF Persist, Asking, Copying
<1>2. CASE b = "rows" /\ Task(r).family = "chain"
  BY <1>2, ChainAnswered
<1>3. CASE ~(b = "rows" /\ Task(r).family = "chain")
  <2>1. DocSound(Doc(r)) /\ Task(r) # None
    BY <1>1, CopyIs DEF Sound
  <2>2. Leaves(Doc(r), e) /\ e.state = Doc(r).state
    BY <1>3, <2>1, SucceedIsLeaving DEF Task, Doc
  <2>3. b \in Bodies
    <3>1. RunOk(run[r], jobs, results, raw, today) /\ RawSound(raw)
      BY DEF JobInv, World
    <3> QED
      BY <1>1, <3>1 DEF RunOk, RawSound
  <2>4. s # "completed" \/ Task(r).family # "chain"
    BY <1>3, <2>3, ChainsAssumption DEF Status
  <2>5. Snapshot(Doc(r)) \/ Fresh(results[Job(r)], Doc(r))
    <3>1. CASE Task(r).family # "chain"
      BY <3>1 DEF Fresh, Expanded, Task, Doc
    <3>2. CASE Task(r).family = "chain"
      BY <1>1, <1>3, <3>2, AskingIsFresh
    <3> QED
      BY <3>1, <3>2
  <2> HIDE DEF e, s
  <2>6. /\ results' = [results EXCEPT ![Job(r)] = Install(@, Task(r), s)]
        /\ run' = [run EXCEPT ![r].pc = "save", ![r].doc = e]
        /\ UNCHANGED <<jobs, raw, lease, recorder, today, crashes, commands>>
    BY DEF Persist, s, e
  <2> QED
    BY <1>1, <2>2, <2>4, <2>5, <2>6, OutcomeStep
<1> QED
  BY <1>2, <1>3

LEMMA ReleaseStep ==
    ASSUME DocsInv, JobInv, NEW r \in Runners, Release(r)
    PROVE  JobInv'
<1>1. Working(r) /\ UNCHANGED <<jobs, results, raw, today>>
  BY DEF Release, Working
<1> DEFINE y == IF run[r].failed THEN [Idle EXCEPT !.pc = "report", !.job = Job(r)] ELSE Idle
<1>2. run' = [run EXCEPT ![r] = y]
  BY DEF Release
<1>3. y.pc \in {"idle", "report"} /\ (y.job = Job(r) \/ y.pc = "idle")
  BY DEF Idle
<1> HIDE DEF y
<1> QED
  BY <1>1, <1>2, <1>3, GoesOff DEF Copying

LEMMA AbortStep ==
    ASSUME DocsInv, JobInv, NEW r \in Runners, Abort(r)
    PROVE  JobInv'
<1> DEFINE y == [run[r] EXCEPT !.pc = "release", !.failed = TRUE]
<1>1. Working(r) /\ UNCHANGED <<jobs, results, raw, today, lease>>
  BY DEF Abort, Working
<1>2. run' = [run EXCEPT ![r] = y] /\ y.pc = "release" /\ y.job = Job(r)
  BY RunIs DEF Abort, Job
<1> HIDE DEF y
<1> QED
  BY <1>1, <1>2, GoesOff DEF Copying

LEMMA AcquireStep ==
    ASSUME DocsInv, JobInv, NEW r \in Runners, Acquire(r)
    PROVE  JobInv'
<1>1. /\ run[r].pc = "acquire" /\ UNCHANGED <<jobs, results, raw, today>>
      /\ RunOk(run[r], jobs, results, raw, today) /\ \A q \in Runners : Working(q) => lease = q
  BY DEF Acquire, JobInv
<1>2. CASE lease = None
  <2> DEFINE y == [run[r] EXCEPT !.pc = "read"]
  <2>1. run' = [run EXCEPT ![r] = y] /\ y.pc = "read" /\ y.job = run[r].job /\ lease' = r
    BY <1>2, RunIs DEF Acquire, Go
  <2> HIDE DEF y
  <2>2. RunOk(y, jobs, results, raw, today)
    BY <1>1, <2>1, NotCopying DEF RunOk, Copying
  <2>3. ASSUME NEW q \in Runners
        PROVE  (Working(q)' => lease' = q) /\ RunOk(run'[q], jobs', results', raw', today')
    <3>1. CASE q = r
      <4>1. run'[q] = y
        BY <2>1, <3>1, RunIs
      <4> QED
        BY <1>1, <2>1, <2>2, <3>1, <4>1
    <3>2. CASE q # r
      <4>1. run'[q] = run[q] /\ ~Working(q)
        BY <1>1, <1>2, <2>1, <3>2, RunIs, ChainsAssumption
      <4>2. RunOk(run[q], jobs, results, raw, today)
        BY DEF JobInv
      <4> QED
        BY <1>1, <4>1, <4>2 DEF Working
    <3> QED
      BY <3>1, <3>2
  <2>4. World(jobs', results', raw', today') /\ results' = [k \in Ids |-> results'[k]] /\ today' \in Int
    BY <1>1 DEF JobInv
  <2> QED
    BY <2>3, <2>4 DEF JobInv
<1>3. CASE lease # None
  <2>1. run' = [run EXCEPT ![r] = Idle] /\ lease' = lease
    BY <1>3 DEF Acquire
  <2>2. \A q \in Runners : run'[q] = run[q] \/ run'[q].pc = "idle"
    BY <2>1, RunIs DEF Idle
  <2>3. today' \in Int /\ today' >= today
    BY <1>1 DEF JobInv
  <2> QED
    BY <1>1, <2>1, <2>2, <2>3, OthersMove
<1> QED
  BY <1>2, <1>3

\* A runner that begins, ends or reports.
LEMMA AsideStep ==
    ASSUME DocsInv, JobInv, NEW r \in Runners,
           \/ \E j \in Ids : Ready(r, j)
           \/ \E transient \in BOOLEAN : pause_failed_job(r, transient)
           \/ Crash(r)
    PROVE  JobInv'
<1>0. UNCHANGED <<results, raw, lease, today>>
  BY DEF Ready, pause_failed_job, Crash
<1>1. UNCHANGED <<results, raw, lease, today>> /\ today' \in Int /\ today' >= today
  BY <1>0 DEF JobInv
<1>2. CASE \E j \in Ids : Ready(r, j)
  <2>1. PICK j \in Ids : Ready(r, j)
    BY <1>2
  <2> DEFINE y == [Idle EXCEPT !.pc = "acquire", !.job = j]
  <2>2. run' = [run EXCEPT ![r] = y] /\ jobs' = jobs /\ jobs[j] # NoJob /\ y.pc = "acquire" /\ y.job = j
    BY <2>1 DEF Ready, Idle, Exists
  <2> HIDE DEF y
  <2>3. \A q \in Runners : run'[q] = run[q] \/ run'[q] = y
    BY <2>2, RunIs
  <2> QED
    BY <1>1, <2>2, <2>3, OthersMove
<1>3. CASE \E transient \in BOOLEAN : pause_failed_job(r, transient)
  <2>1. PICK transient \in BOOLEAN : pause_failed_job(r, transient)
    BY <1>3
  <2> DEFINE j == Job(r)
             old == jobs[j]
             w == [old EXCEPT !.wait = "backoff"]
             p == [old EXCEPT !.state = "paused"]
  <2>2. run[r].pc = "report" /\ run' = [run EXCEPT ![r] = Idle]
    BY <2>1 DEF pause_failed_job
  <2>3. j \in Ids /\ old # NoJob /\ World(jobs, results, raw, today)
    BY <2>2 DEF JobInv, RunOk, Job
  <2>4. IsDoc(old)
    BY <2>3 DEF World, Sound, DocSound
  <2>5. jobs' = [jobs EXCEPT ![j] = IF transient THEN w ELSE p]
    BY <2>1, <2>3 DEF pause_failed_job, DocsInv, JobsSound
  <2> HIDE DEF old
  <2>6. Alike(old, w) /\ w.state = old.state /\ Alike(old, p) /\ p.state = "paused"
    BY <2>4, AlikeChanges DEF Minor
  <2> HIDE DEF w, p
  <2>7. \A k \in Ids : \/ jobs'[k] = jobs[k]
                       \/ jobs[k] # NoJob /\ Alike(jobs[k], jobs'[k])
                          /\ jobs'[k].state \in {jobs[k].state, "running", "paused"}
    <3>1. jobs'[j] \in {w, p} /\ \A k \in Ids \ {j} : jobs'[k] = jobs[k]
      BY <2>3, <2>5 DEF DocsInv, JobsSound
    <3>2. Alike(old, jobs'[j]) /\ jobs'[j].state \in {old.state, "running", "paused"}
      BY <2>6, <3>1
    <3> QED
      BY <2>3, <3>1, <3>2 DEF old
  <2>8. \A q \in Runners : run'[q] = run[q] \/ run'[q].pc = "idle"
    BY <2>2, RunIs DEF Idle
  <2> QED
    BY <1>1, <2>7, <2>8, OthersMove
<1>4. CASE Crash(r)
  <2>1. run' = [run EXCEPT ![r] = Idle] /\ jobs' = jobs
    BY <1>4 DEF Crash
  <2>2. \A q \in Runners : run'[q] = run[q] \/ run'[q].pc = "idle"
    BY <2>1, RunIs DEF Idle
  <2> QED
    BY <1>1, <2>1, <2>2, OthersMove
<1> QED
  BY <1>2, <1>3, <1>4

\* Every step of a run.
LEMMA RunsKeep ==
    ASSUME DocsInv, JobInv, NEW r \in Runners, Step(r) \/ Abort(r) \/ Crash(r)
    PROVE  JobInv'
<1>1. CASE OverBudget(r)
  <2>1. run[r].pc = "call" /\ Refuse(r, "budget")
    BY <1>1 DEF OverBudget
  <2> QED
    BY <2>1, AskingIsFresh, RefuseStep DEF Answered, Asking
<1>2. CASE \E e \in Errors : Error(r, e)
  <2>1. PICK e \in Errors : run[r].pc = "sent" /\ Refuse(r, e)
    BY <1>2 DEF Error
  <2>2. e \in Answered
    BY ChainsAssumption DEF Answered
  <2> QED
    BY <2>1, <2>2, AskingIsFresh, RefuseStep DEF Asking
<1>3. CASE Unreadable(r)
  <2>1. run[r].pc = "persist" /\ run[r].body # "rows" /\ Refuse(r, "other")
    BY <1>3 DEF Unreadable
  <2> QED
    BY <2>1, AskingIsFresh, RefuseStep DEF Answered, Asking
<1> QED
  BY <1>1, <1>2, <1>3, AcquireStep, ReadStep, CheckpointStep, LookStep, UnsupportedStep, CallStep, PersistStep,
     SaveStep, ReleaseStep, AnswerStep, AsideStep, AbortStep DEF Step

-----------------------------------------------------------------------------
(* What the admin and the environment do                                   *)

\* A job that no run works on gets another document and other outcomes.
LEMMA JobStep ==
    ASSUME JobInv, NEW c \in Ids, NEW e, NEW Q, jobs' = [jobs EXCEPT ![c] = e], DocsInv,
           results' = [results EXCEPT ![c] = Q], UNCHANGED <<raw, lease, run, today>>,
           e # NoJob, Sound(Q, e, today), OutcomesOf(c, Q, raw),
           jobs[c] = NoJob \/ jobs[c].state \notin {"running", "paused"}
    PROVE  JobInv'
<1>1. /\ jobs'[c] = e /\ results'[c] = Q /\ results' = [j \in Ids |-> results'[j]]
      /\ \A j \in Ids \ {c} : jobs'[j] = jobs[j] /\ results'[j] = results[j]
  BY DEF JobInv, DocsInv, JobsSound
<1>2. World(jobs', results', raw, today)
  BY <1>1, WorldChanges DEF JobInv, World
<1>3. ASSUME NEW q \in Runners PROVE RunOk(run[q], jobs', results', raw, today)
  <2>1. RunOk(run[q], jobs, results, raw, today)
    BY DEF JobInv
  <2>2. CASE run[q].job # c
    <3>1. run[q].pc # "idle" => run[q].job \in Ids \ {c}
      BY <2>1, <2>2 DEF RunOk
    <3> QED
      BY <1>1, <2>1, <3>1, OtherJob
  <2>3. CASE run[q].job = c
    <3>1. run[q].pc \notin Copying
      BY <2>1, <2>3 DEF RunOk, Copying
    <3> QED
      BY <1>1, <2>3, <3>1, NotCopying
  <2> QED
    BY <2>2, <2>3
<1>4. \A q \in Runners : Working(q)' <=> Working(q)
  BY DEF Working
<1> QED
  BY <1>1, <1>2, <1>3, <1>4 DEF JobInv

\* A job that has stopped at a task leaves it, with an outcome of its own.
LEMMA ReviewStep ==
    ASSUME JobInv, DocsInv, NEW j \in Ids, jobs[j] # NoJob, Stuck(jobs[j]), jobs[j].current # None,
           NEW e, Leaves(jobs[j], e), e.state = "paused", NEW k, NEW s, s # "completed",
           k \in {Key(jobs[j].current), <<TRUE, jobs[j].current>>},
           jobs' = [jobs EXCEPT ![j] = e],
           results' = [results EXCEPT ![j] = InstallOnce(results[j], Outcome(k, jobs[j].current, s))],
           UNCHANGED <<raw, lease, run, today>>
    PROVE  JobInv'
<1> DEFINE d == jobs[j]
           R == results[j]
           o == Outcome(k, d.current, s)
           Q == InstallOnce(R, o)
<1>1. World(jobs, results, raw, today)
  BY DEF JobInv
<1>2. Sound(R, d, today) /\ OutcomesOf(j, R, raw) /\ DocSound(d)
  BY <1>1 DEF World, Sound
<1>3. OutcomeSound(o)
  <2>1. o.key = k /\ o.task = d.current /\ o.status = s
    BY DEF Outcome
  <2> HIDE DEF o
  <2> QED
    BY <1>2, <2>1 DEF OutcomeSound, DocSound
<1>4. Adds(R, Q, d.current, s)
  BY <1>2, <1>3, InstallKeeps DEF OutcomesOf
<1> HIDE DEF Q
<1>5. R \subseteq Q /\ (\A x \in Q : OutcomeSound(x)) /\ Answers(Q, d.current) /\ Expanded(Q) = Expanded(R)
  BY <1>4 DEF Adds
<1>6. DocSound(e) /\ IsDoc(e)
  BY <1>2, LeavesSound DEF DocSound
<1>7. Accounted(Q, e, today)
  <2>1. Fresh(R, d) /\ Accounted(R, d, today) /\ \A x \in R : OutcomeSound(x)
    BY <1>2 DEF Sound, OutcomesOf
  <2> QED
    BY <1>2, <1>5, <2>1, LeavesAccounted
<1>8. Sound(Q, e, today) /\ OutcomesOf(j, Q, raw)
  BY <1>2, <1>5, <1>6, <1>7 DEF Sound, Stuck, OutcomesOf
<1>9. jobs[j].state \notin {"running", "paused"} /\ e # NoJob
  BY <1>6, DocIsJob DEF Stuck
<1>10. results' = [results EXCEPT ![j] = Q]
  BY DEF Q
<1> QED
  BY <1>8, <1>9, <1>10, JobStep

LEMMA ContinueStep ==
    ASSUME JobInv, DocsInv, NEW j \in Ids, ContinueRejected(j)
    PROVE  JobInv'
<1> DEFINE d == jobs[j]
           x == record_rejection(d, d.current)
           e == [x EXCEPT !.skipRejected = TRUE, !.state = "paused"]
           k == Key(d.current)
<1>1. /\ d # NoJob /\ d.current # None /\ Stuck(d) /\ UNCHANGED <<raw, lease, run, today>>
  BY DEF ContinueRejected, Stuck, Exists
<1>2. jobs' = [jobs EXCEPT ![j] = e]
      /\ results' = [results EXCEPT ![j] = InstallOnce(results[j], Outcome(k, d.current, "failed"))]
  BY DEF ContinueRejected, Install, JobInv
<1>3. DocSound(d)
  BY <1>1 DEF JobInv, World, Sound
<1>4. Leaves(d, e) /\ Leaves(d, x)
  BY <1>1, <1>3, ReviewIsLeaving, RejectionIsLeaving
<1>5. IsDoc(x)
  BY <1>4 DEF Leaves
<1> HIDE DEF x
<1>6. e.state = "paused"
  BY <1>5 DEF IsDoc, DocFields
<1>7. k \in {Key(d.current), <<TRUE, d.current>>}
  OBVIOUS
<1> HIDE DEF e, k
<1> QED
  BY <1>1, <1>2, <1>4, <1>6, <1>7, ReviewStep

LEMMA SkipStep ==
    ASSUME JobInv, DocsInv, NEW j \in Ids, SkipBlocked(j)
    PROVE  JobInv'
<1> DEFINE d == jobs[j]
           x == Leave(d, d.current)
           e == [x EXCEPT !.assessed = @ + 1, !.state = "paused"]
           k == <<TRUE, d.current>>
<1>1. /\ d # NoJob /\ d.current # None /\ Stuck(d) /\ UNCHANGED <<raw, lease, run, today>>
  BY DEF SkipBlocked, Stuck, Exists
<1>2. jobs' = [jobs EXCEPT ![j] = e]
      /\ results' = [results EXCEPT ![j] = InstallOnce(results[j], Outcome(k, d.current, "permission_blocked"))]
  BY DEF SkipBlocked, JobInv
<1>3. DocSound(d)
  BY <1>1 DEF JobInv, World, Sound
<1>4. Leaves(d, e) /\ Leaves(d, x)
  BY <1>1, <1>3, ReviewIsLeaving, LeaveIsLeaving
<1>5. IsDoc(x)
  BY <1>4 DEF Leaves
<1> HIDE DEF x
<1>6. e.state = "paused"
  BY <1>5 DEF IsDoc, DocFields
<1>7. k \in {Key(d.current), <<TRUE, d.current>>}
  OBVIOUS
<1> HIDE DEF e, k
<1> QED
  BY <1>1, <1>2, <1>4, <1>6, <1>7, ReviewStep

\* A retry begins with one task, and the expiry of its own.
LEMMA RetryStep ==
    ASSUME JobInv, DocsInv, NEW j \in Ids, NEW x \in results[j], NEW c \in Children, Retry(j, x, c)
    PROVE  JobInv'
<1> DEFINE snapshot == x.task.family = "chain_snapshot"
           parent == IF snapshot THEN x.task ELSE None
           pending == IF snapshot THEN <<x.task.expiry>> ELSE <<>>
           force == jobs[j].flag
           skip == jobs[j].skipRejected
           e == [create EXCEPT !.current = x.task, !.force = TRUE, !.flag = force, !.skipRejected = skip,
                               !.parent = parent, !.pending = pending]
<1>1. c \in Ids /\ jobs[c] = NoJob /\ jobs' = [jobs EXCEPT ![c] = e]
      /\ UNCHANGED <<results, raw, lease, run, today>>
  BY DEF Retry, Ids, Exists
<1>2. results[c] = {} /\ OutcomesOf(c, results[c], raw) /\ OutcomeSound(x)
  BY <1>1 DEF JobInv, World, OutcomesOf
<1>3. x.task # None /\ TaskSound(x.task)
  BY <1>2 DEF OutcomeSound
<1> HIDE DEF parent, pending, force, skip, snapshot
<1>4. /\ IsDoc(e) /\ e.cursor = Start0 /\ e.current = x.task /\ e.parent = parent /\ e.pending = pending
      /\ e.state = "paused"
  BY DEF IsDoc, DocFields, create
<1> HIDE DEF e
<1>5. CursorSound(e.cursor)
  BY <1>4 DEF CursorSound, CursorFields, Start0
<1>6. snapshot => Expanding(e)
  <2> SUFFICES ASSUME snapshot PROVE Expanding(e)
    OBVIOUS
  <2>1. x.task \in ChainTasks /\ x.task.family = "chain_snapshot"
    BY <1>3 DEF TaskSound, ChainLike, snapshot
  <2> DEFINE t == x.task
  <2>2. t = [t EXCEPT !.family = "chain_snapshot", !.expiry = t.expiry] /\ t.expiry \in Expiries
    BY <2>1 DEF ChainTasks, Expiries
  <2>3. e.parent = t /\ e.pending = <<t.expiry>> /\ e.current = t
    BY <1>4 DEF parent, pending
  <2>4. e.pending \in Seq(Expiries) /\ e.pending # <<>> /\ Head(e.pending) = t.expiry
    BY <2>2, <2>3
  <2>5. NextChild(e) = t
    BY <2>2, <2>3, <2>4 DEF NextChild
  <2> QED
    BY <2>1, <2>3, <2>4, <2>5 DEF Expanding
<1>7. ~snapshot => e.pending = <<>>
  BY <1>4 DEF pending
<1>8. Snapshot(e) <=> snapshot
  BY <1>3, <1>4 DEF Snapshot, snapshot
<1>9. DocSound(e)
  BY <1>3, <1>4, <1>5, <1>6, <1>7, <1>8 DEF DocSound
<1>10. Sound(results[c], e, today) /\ e # NoJob
  BY <1>2, <1>4, <1>9, DocIsJob DEF Sound, Accounted, Fresh, Expanded
<1>11. results' = [results EXCEPT ![c] = results[c]]
  BY <1>1 DEF JobInv
<1> QED
  BY <1>1, <1>2, <1>10, <1>11, JobStep

-----------------------------------------------------------------------------
\* A document that is paused, resumed or waits no longer.
LEMMA Nudged ==
    ASSUME JobInv, NEW j \in Ids, jobs[j] # NoJob
    PROVE  /\ LET e == [jobs[j] EXCEPT !.state = "paused", !.flag = TRUE]
              IN Alike(jobs[j], e) /\ e.state = "paused"
           /\ Alike(jobs[j], Resumed(jobs[j])) /\ Resumed(jobs[j]).state \in {jobs[j].state, "running"}
           /\ LET e == [jobs[j] EXCEPT !.skipRejected = FALSE]
              IN Alike(jobs[j], e) /\ e.state = jobs[j].state
           /\ LET e == [jobs[j] EXCEPT !.wait = "no"]
              IN Alike(jobs[j], e) /\ e.state = jobs[j].state
<1> DEFINE d == jobs[j]
           p == [d EXCEPT !.state = "paused", !.flag = TRUE]
           q == [d EXCEPT !.state = "running", !.flag = FALSE]
<1>1. IsDoc(d)
  BY DEF JobInv, World, Sound, DocSound
<1>2. Alike(d, d)
  BY <1>1 DEF Alike
<1> HIDE DEF d
<1>3. Alike(d, p) /\ p.state = "paused"
  BY <1>1 DEF Alike, IsDoc, DocFields
<1>4. Alike(d, q) /\ q.state = "running"
  BY <1>1 DEF Alike, IsDoc, DocFields
<1>5. Resumed(d) \in {d, q}
  BY DEF Resumed
<1>6. Alike(d, Resumed(d)) /\ Resumed(d).state \in {d.state, "running"}
  BY <1>2, <1>4, <1>5
<1>7. /\ Alike(d, [d EXCEPT !.skipRejected = FALSE]) /\ [d EXCEPT !.skipRejected = FALSE].state = d.state
      /\ Alike(d, [d EXCEPT !.wait = "no"]) /\ [d EXCEPT !.wait = "no"].state = d.state
  BY <1>1, AlikeChanges DEF Minor
<1> QED
  BY <1>3, <1>6, <1>7 DEF d

LEMMA AdminsKeep ==
    ASSUME DocsInv, JobInv, Control \/ (\E j \in Ids : Elapse(j)) \/ NextDay
    PROVE  JobInv'
<1> DEFINE Nudges(j) == /\ jobs[j] # NoJob /\ Alike(jobs[j], jobs'[j])
                        /\ jobs'[j].state \in {jobs[j].state, "running", "paused"}
<1>1. ASSUME results' = results, raw' = raw, lease' = lease, run' = run, today' \in Int, today' >= today,
             \A j \in Ids : jobs'[j] = jobs[j] \/ Nudges(j)
      PROVE  JobInv'
  BY <1>1, OthersMove
<1>2. ASSUME NEW j \in Ids, jobs[j] # NoJob, NEW e, Alike(jobs[j], e),
             e.state \in {jobs[j].state, "running", "paused"}, jobs' = [jobs EXCEPT ![j] = e],
             UNCHANGED <<results, raw, lease, run, today>>
      PROVE  JobInv'
  <2>1. jobs'[j] = e /\ \A k \in Ids \ {j} : jobs'[k] = jobs[k]
    BY <1>2 DEF DocsInv, JobsSound
  <2>2. \A k \in Ids : jobs'[k] = jobs[k] \/ Nudges(k)
    BY <1>2, <2>1
  <2>3. today' \in Int /\ today' >= today
    BY <1>2 DEF JobInv
  <2> QED
    BY <1>1, <1>2, <2>2, <2>3
<1>3. ASSUME NEW j \in Ids, Pause(j) PROVE JobInv'
  BY <1>2, <1>3, Nudged DEF Pause, Admin, Exists
<1>4. ASSUME NEW j \in Ids, Resume(j) PROVE JobInv'
  BY <1>2, <1>4, Nudged DEF Resume, Admin, Exists
<1>5. ASSUME NEW j \in Ids, StopOnRejected(j) PROVE JobInv'
  BY <1>2, <1>5, Nudged DEF StopOnRejected, Admin, Exists
<1>6. ASSUME NEW j \in Ids, Elapse(j) PROVE JobInv'
  <2> DEFINE e == [jobs[j] EXCEPT !.wait = "no"]
  <2>1. jobs' = [jobs EXCEPT ![j] = e] /\ jobs[j] # NoJob /\ UNCHANGED <<results, raw, lease, run, today>>
    BY <1>6 DEF Elapse, Exists, DocsInv, JobsSound
  <2>2. Alike(jobs[j], e) /\ e.state = jobs[j].state
    BY <2>1, Nudged
  <2> HIDE DEF e
  <2> QED
    BY <1>2, <2>1, <2>2
<1>7. CASE StartRecorder
  <2> DEFINE e(j) == [jobs[j] EXCEPT !.state = "paused", !.flag = TRUE]
  <2>1. /\ UNCHANGED <<results, raw, lease, run, today>>
        /\ \A j \in Ids : jobs'[j] = jobs[j] \/ (jobs[j] # NoJob /\ jobs'[j] = e(j))
    BY <1>7 DEF StartRecorder, Exists
  <2>2. \A j \in Ids : jobs[j] # NoJob => Alike(jobs[j], e(j)) /\ e(j).state = "paused"
    BY Nudged
  <2> HIDE DEF e
  <2>3. today' \in Int /\ today' >= today
    BY <2>1 DEF JobInv
  <2>4. \A j \in Ids : jobs'[j] = jobs[j] \/ Nudges(j)
    BY <2>1, <2>2
  <2> QED
    BY <1>1, <2>1, <2>3, <2>4
<1>8. CASE credentials_saved
  <2>1. /\ UNCHANGED <<results, raw, lease, run, today>>
        /\ \A j \in Ids : jobs'[j] = jobs[j] \/ (jobs[j] # NoJob /\ jobs'[j] = Resumed(jobs[j]))
    BY <1>8 DEF credentials_saved, Exists
  <2>2. \A j \in Ids : jobs'[j] = jobs[j] \/ Nudges(j)
    BY <2>1, Nudged
  <2>3. today' \in Int /\ today' >= today
    BY <2>1 DEF JobInv
  <2> QED
    BY <1>1, <2>1, <2>2, <2>3
<1>9. CASE PauseRecorder
  <2>1. UNCHANGED <<jobs, results, raw, lease, run, today>>
    BY <1>9 DEF PauseRecorder
  <2>2. today' \in Int /\ today' >= today
    BY <2>1 DEF JobInv
  <2> QED
    BY <1>1, <2>1, <2>2
<1>10. CASE NextDay
  <2> DEFINE e(j) == [jobs[j] EXCEPT !.wait = "no"]
  <2>1. /\ UNCHANGED <<results, raw, lease, run>> /\ today' = today + 1
        /\ \A j \in Ids : jobs'[j] = jobs[j] \/ (jobs[j] # NoJob /\ jobs'[j] = e(j))
    BY <1>10 DEF NextDay, Exists
  <2>2. \A j \in Ids : jobs[j] # NoJob => Alike(jobs[j], e(j)) /\ e(j).state = jobs[j].state
    BY Nudged
  <2> HIDE DEF e
  <2>3. today' \in Int /\ today' >= today
    BY <2>1 DEF JobInv
  <2>4. \A j \in Ids : jobs'[j] = jobs[j] \/ Nudges(j)
    BY <2>1, <2>2
  <2> QED
    BY <1>1, <2>1, <2>3, <2>4
<1> QED
  BY <1>3, <1>4, <1>5, <1>6, <1>7, <1>8, <1>9, <1>10, ContinueStep, SkipStep, RetryStep DEF Control, Command

\* A lease ends when its run has ended, and nothing else happens.
LEMMA LeaseKeeps ==
    ASSUME DocsInv, JobInv, Overrun = FALSE, ExpireLease \/ UNCHANGED vars
    PROVE  JobInv'
<1>1. UNCHANGED <<jobs, results, raw, run, today>> /\ (lease' = lease \/ ~Working(lease))
  BY DEF ExpireLease, vars
<1>2. today' \in Int /\ today' >= today
  BY <1>1 DEF JobInv
<1> QED
  BY <1>1, <1>2, OthersMove

LEMMA JobsBegin == Init => JobInv
<1> SUFFICES ASSUME Init PROVE JobInv
  OBVIOUS
<1>1. /\ jobs = [j \in Ids |-> IF j \in Jobs THEN create ELSE NoJob] /\ results = [j \in Ids |-> {}]
      /\ raw = {} /\ run = [r \in Runners |-> Idle] /\ today = Day0
  BY DEF Init
<1>2. IsDoc(create)
  BY DEF IsDoc, DocFields, create
<1>3. CursorSound(create.cursor)
  BY DEF CursorSound, CursorFields, create, Start0
<1>4. create.current = None /\ create.pending = <<>> /\ create.state = "paused"
  BY DEF create
<1>5. Sound({}, create, today)
  BY <1>2, <1>3, <1>4 DEF Sound, DocSound, Snapshot, Accounted, Expanded, Stuck
<1>6. \A j \in Ids : OutcomesOf(j, {}, raw)
  BY DEF OutcomesOf, Expanded
<1>7. World(jobs, results, raw, today)
  BY <1>1, <1>5, <1>6 DEF World, RawSound
<1>8. \A r \in Runners : run[r].pc = "idle"
  BY <1>1 DEF Idle
<1>9. \A r \in Runners : RunOk(run[r], jobs, results, raw, today)
  BY <1>8, NotCopying DEF Copying
<1> QED
  BY <1>1, <1>7, <1>8, <1>9, ChainsAssumption DEF JobInv, Working

LEMMA CompletedIsCovered == JobInv => EveryExpiryHasOutcome
<1> SUFFICES ASSUME JobInv, NEW j \in Ids, Exists(j), jobs[j].state = "completed",
                    NEW x \in results[j], x.status = "completed", x.task.family = "chain",
                    NEW e \in ToSet(Listed), e >= today
             PROVE  \E y \in results[j] : /\ y.task.family = "chain_snapshot"
                                          /\ y.task.item = x.task.item
                                          /\ y.task.expiry = e
  BY DEF EveryExpiryHasOutcome
<1>1. Sound(results[j], jobs[j], today) /\ OutcomeSound(x) /\ x \in Expanded(results[j])
  BY DEF JobInv, World, OutcomesOf, Exists, Expanded
<1>2. jobs[j].current = None /\ x.task # None
  BY <1>1 DEF Sound, DocSound, OutcomeSound
<1>3. ~Expands(jobs[j], x, e)
  BY <1>2 DEF Expands, Snapshot
<1> QED
  BY <1>1, <1>3 DEF Sound, Accounted, Covered

\* Whatever is answered, refused, skipped, retried, paused, aborted or crashes: a completed
\* job has an outcome for each unexpired expiry that one of its chains listed, provided no
\* lease ends while its run goes on.
THEOREM ExpiriesAnswered ==
    ASSUME Overrun = FALSE
    PROVE  Spec => []EveryExpiryHasOutcome
<1> DEFINE IInv == DocsInv /\ JobInv
<1>1. Init => IInv
  BY DocsBegin, JobsBegin
<1>2. IInv /\ [Next]_vars => IInv'
  <2> SUFFICES ASSUME DocsInv, JobInv, [Next]_vars PROVE DocsInv' /\ JobInv'
    OBVIOUS
  <2>1. CASE \E r \in Runners : Step(r) \/ Abort(r) \/ Crash(r)
    BY <2>1, RunStep, RunsKeep
  <2>2. CASE Control \/ (\E j \in Ids : Elapse(j)) \/ NextDay
    BY <2>2, OthersStep, AdminsKeep
  <2>3. CASE ExpireLease \/ UNCHANGED vars
    BY <2>3, OthersStep, LeaseKeeps
  <2> QED
    BY <2>1, <2>2, <2>3 DEF Next, Environment
<1>3. IInv => EveryExpiryHasOutcome
  BY CompletedIsCovered
<1> QED
  BY <1>1, <1>2, <1>3, PTL DEF Spec
=============================================================================
