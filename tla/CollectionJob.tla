---------------------------- MODULE CollectionJob ----------------------------
(***************************************************************************)
(* Cloud collection jobs (live-app/collection.py, class Collector).        *)
(*                                                                         *)
(* A job is one document of a shared store, its outcomes are documents     *)
(* that are written once, and any number of runners (worker executions,   *)
(* browser requests) may call run for it.  A run holds the collector lease, *)
(* works on its own copy of the document and replaces the whole document  *)
(* at a checkpoint before the request and again after it, while an admin   *)
(* changes the same document by compare-and-swap.  Every access to the     *)
(* store is a step of its own; replace is atomic (its retry loop hides a   *)
(* lost race).  A lease and a back-off end by steps of the environment.    *)
(***************************************************************************)
EXTENDS CollectionPlan

CONSTANTS
    Jobs,       \* names of the planned jobs
    Children,   \* names for retry jobs
    Runners,    \* callers of run
    Pages, Cfg, \* the pages and the configuration of every planned job
    Listed,     \* the expiries the provider lists for a chain
    Errors,     \* the error classes the provider may answer with
    Bodies,     \* the kinds of body it may answer with
    Day0, LastDay,
    MaxRetries, \* bound on counted retries (rate limits count without limit)
    MaxCommands,\* bound on the admin's commands
    MaxCrash,   \* bound on crashes, aborted runs and overrun leases
    Overrun     \* whether a lease may end while its run is still going

\* A chain is asked for once per item: the tasks it and its children can be.
ChainItems == UNION {ToSet(Pages[p].items) : p \in DOMAIN Pages}
ChainTasks == [family : {"chain", "chain_snapshot"}, item : ChainItems, variant : {None},
               from : {Cfg.start}, to : {Cfg.end}, skip : {None}, gap : {FALSE}, batch : {{}},
               span : {0}, expiry : {0} \cup ToSet(Listed)]

\* The plan has the families of collection.py:33, the children of a chain are not
\* among them; dates are numbers; None is no value and no status.
ASSUME ChainsAssumption ==
    /\ DOMAIN Pages = 1..Len(Pages) /\ Len(Pages) \in Nat /\ PlanSteps \in Nat
    /\ \A p \in DOMAIN Pages : Pages[p].family \in History \cup Feeds \cup {"chain", "quotes"}
    /\ "chain" \notin DOMAIN Batch
    /\ Len(Listed) \in Nat /\ DOMAIN Listed = 1..Len(Listed) /\ \A k \in DOMAIN Listed : Listed[k] \in Int
    /\ None \notin ChainTasks /\ None \notin Runners
    /\ Bodies \subseteq {"rows", "empty", "partial", "bad"}
    /\ Errors \subseteq {"auth", "access", "rate", "rejected", "other"}
    /\ Day0 \in Int

VARIABLES
    jobs,     \* the job documents
    results,  \* results/<job>/<key>: outcomes of each job, written once
    raw,      \* responses/<key>: raw answers, written once
    lease,    \* holder of control/lease
    run,      \* what each runner is doing, with its copy of the document
    recorder, \* control/data-system enabled
    today,
    crashes,  \* faults so far, bounded by MaxCrash
    commands  \* admin commands so far, bounded by MaxCommands

vars == <<jobs, results, raw, lease, run, recorder, today, crashes, commands>>

Ids == Jobs \cup Children
NoJob == [state |-> "absent"]
Exists(j) == jobs[j] # NoJob
Waiting == {"backoff", "nextday"}

JobPages(j) == IF j \in Children THEN <<>> ELSE Pages

\* The name of a result leaves out why the task was skipped; skip-blocked
\* names its result by the whole task.
Key(t) == <<FALSE, [t EXCEPT !.skip = None, !.gap = FALSE]>>
Outcome(key, t, status) == [key |-> key, task |-> t, status |-> status]
InstallOnce(set, x) == IF \E y \in set : y.key = x.key THEN set ELSE set \cup {x}
Install(set, t, status) == InstallOnce(set, Outcome(Key(t), t, status))

\* History is shared by all jobs, anything else belongs to the job, and so
\* does a forced fetch or an answer taken before its range had closed.
RawKey(j, doc, t) == <<IF t.family \in History /\ ~doc.force THEN None ELSE j, Key(t)>>
FreshKey(j, t) == <<j, Key(t), "closed">>
Stored(k) == {x \in raw : x.key = k}
cache_is_closed(t, x) == x.day >= t.to

create == [state |-> "paused", flag |-> FALSE, cursor |-> Start0, current |-> None,
           pending |-> <<>>, parent |-> None, retries |-> 0, wait |-> "no",
           reviewable |-> FALSE, skipRejected |-> FALSE, force |-> FALSE, assessed |-> 0]

Idle == [pc |-> "idle", job |-> None, doc |-> NoJob, raw |-> None, body |-> None,
         failed |-> FALSE]

Init ==
    /\ jobs = [j \in Ids |-> IF j \in Jobs THEN create ELSE NoJob]
    /\ results = [j \in Ids |-> {}]
    /\ raw = {}
    /\ lease = None
    /\ run = [r \in Runners |-> Idle]
    /\ recorder = FALSE
    /\ today = Day0
    /\ crashes = 0
    /\ commands = 0

-----------------------------------------------------------------------------
(* What a finished task does to the document.                              *)

\* Leave the task: the next listed expiry, or the cursor moves on.
NextChild(d) == [d.parent EXCEPT !.family = "chain_snapshot", !.expiry = Head(d.pending)]

Leave(doc, t) ==
    LET d == IF t.family = "chain_snapshot" THEN [doc EXCEPT !.pending = Tail(@)]
             ELSE [doc EXCEPT !.cursor = advance(@, t)]
    IN IF t.family = "chain_snapshot" /\ d.pending # <<>>
       THEN [d EXCEPT !.current = NextChild(d)]
       ELSE [d EXCEPT !.current = None]

Assess(doc, t) ==
    [Leave(doc, t) EXCEPT !.assessed = @ + 1, !.retries = 0]

record_rejection(doc, t) ==
    LET d == [Assess(doc, t) EXCEPT !.wait = "no", !.reviewable = FALSE]
    IN IF t.family = "chain_snapshot" /\ d.current = None
       THEN [d EXCEPT !.parent = None] ELSE d

\* The listed expiries that have not passed, in the order they were listed.
Open == {k \in DOMAIN Listed : Listed[k] >= today}
Unexpired == [n \in 1..Cardinality(Open) |->
                Listed[CHOOSE k \in Open : Cardinality({m \in Open : m < k}) = n - 1]]

\* A result with rows or without; a chain's listed expiries become children.
Succeed(doc, t, body) ==
    LET listed == IF t.family = "chain" /\ body = "rows"
                  THEN Unexpired ELSE <<>>
        d0 == [doc EXCEPT !.assessed = @ + 1, !.retries = 0, !.wait = "no",
                          !.reviewable = FALSE]
        d1 == IF t.family = "chain" /\ body = "rows"
              THEN [d0 EXCEPT !.pending = listed, !.parent = t] ELSE d0
        d2 == [Leave(d1, t) EXCEPT !.current = None]
    IN IF d2.pending # <<>> THEN [d2 EXCEPT !.current = NextChild(d2)]
       ELSE [d2 EXCEPT !.parent = None]

Status(body) == IF body = "rows" THEN "completed" ELSE body

\* What an error of the provider does: the document, and whether the task
\* gets a failed outcome.
Fails(doc, e) ==
    \/ e = "rejected" /\ doc.skipRejected
    \/ e = "other" /\ doc.retries + 1 >= 3

Handle(doc, t, e) ==
    CASE e = "auth"   -> [doc EXCEPT !.state = "token_required"]
      [] e = "budget" -> [doc EXCEPT !.wait = "nextday"]
      [] e = "access" -> [doc EXCEPT !.state = "permission_blocked"]
      [] e = "rate"   -> [doc EXCEPT !.retries = @ + 1, !.wait = "backoff"]
      [] e = "rejected" /\ doc.skipRejected -> record_rejection(doc, t)
      [] e = "rejected" /\ ~doc.skipRejected ->
             [doc EXCEPT !.state = "request_review", !.reviewable = TRUE,
                         !.retries = 0, !.wait = "no"]
      [] e = "other" /\ ~Fails(doc, e) -> [doc EXCEPT !.retries = @ + 1, !.wait = "backoff"]
      [] OTHER -> Assess(doc, t)

\* A plausible error: the copy of the run always wins.
CopyWins(old, doc) == doc

\* save_job: the whole document is replaced, except that a pause stays.
save_job(old, doc) ==
    IF old.state = "paused" /\ doc.state = "running"
    THEN [doc EXCEPT !.state = "paused", !.flag = @ \/ old.flag] ELSE doc

-----------------------------------------------------------------------------
(* run                                                                     *)

Go(r, pc) == run' = [run EXCEPT ![r].pc = pc]
Doc(r) == run[r].doc
Task(r) == run[r].doc.current
Job(r) == run[r].job

Ready(r, j) ==
    /\ run[r].pc = "idle"
    /\ Exists(j) /\ jobs[j].state = "running" /\ jobs[j].wait \notin Waiting
    /\ run' = [run EXCEPT ![r] = [Idle EXCEPT !.pc = "acquire", !.job = j]]
    /\ UNCHANGED <<jobs, results, raw, lease, recorder, today, crashes, commands>>

Acquire(r) ==
    /\ run[r].pc = "acquire"
    /\ IF lease = None THEN lease' = r /\ Go(r, "read")
       ELSE run' = [run EXCEPT ![r] = Idle] /\ UNCHANGED lease
    /\ UNCHANGED <<jobs, results, raw, recorder, today, crashes, commands>>

\* A plausible error: a run plans from the cursor and forgets pending children.
FromCursor(j, doc) ==
    LET plan == NextTask(JobPages(j), Cfg, doc.cursor, today)
    IN IF plan.task # None
       THEN [doc EXCEPT !.cursor = plan.cursor, !.current = plan.task]
       ELSE [doc EXCEPT !.cursor = plan.cursor, !.current = None, !.state = "completed"]

\* The document the run works on, with the task it is to checkpoint.
Planned(j, doc) ==
    LET plan == NextTask(JobPages(j), Cfg, doc.cursor, today)
    IN IF doc.current # None THEN doc
       ELSE IF plan.task # None
       THEN [doc EXCEPT !.cursor = plan.cursor, !.current = plan.task]
       ELSE [doc EXCEPT !.cursor = plan.cursor,
                !.state = IF ~plan.done THEN @
                          ELSE IF doc.assessed = 0 THEN "no_work" ELSE "completed"]

Read(r) ==
    /\ run[r].pc = "read"
    /\ LET old == jobs[Job(r)] IN
       IF old.state # "running" \/ old.wait \in Waiting THEN Go(r, "release")
       ELSE \E doc \in {Planned(Job(r), old)} :
              LET feed == doc.current # None /\ doc.current.family \in Feeds /\ recorder
              IN run' = [run EXCEPT ![r].pc = "checkpoint",
                           ![r].doc = IF feed THEN [doc EXCEPT !.state = "paused"] ELSE doc]
    /\ UNCHANGED <<jobs, results, raw, lease, recorder, today, crashes, commands>>

\* The pause found here is kept in the copy, and the request still goes out.
Checkpoint(r) ==
    LET doc == save_job(jobs[Job(r)], Doc(r))
        done == Task(r) = None \/ Doc(r).state # "running"
    IN /\ run[r].pc = "checkpoint"
       /\ jobs' = [jobs EXCEPT ![Job(r)] = doc]
       /\ run' = [run EXCEPT ![r].doc = doc, ![r].pc = IF done THEN "release" ELSE "look"]
       /\ UNCHANGED <<results, raw, lease, recorder, today, crashes, commands>>

Look(r) ==
    LET t == Task(r)
        first == RawKey(Job(r), Doc(r), t)
        stale == /\ t.family \in History /\ ~Doc(r).force
                 /\ \E x \in Stored(first) : ~cache_is_closed(t, x)
        key == IF stale THEN FreshKey(Job(r), t) ELSE first
    IN /\ run[r].pc = "look" /\ t.skip = None
       /\ run' = [run EXCEPT ![r].raw = key,
                    ![r].pc = IF Stored(key) = {} THEN "call" ELSE "persist",
                    ![r].body = IF Stored(key) = {} THEN None
                                ELSE (CHOOSE x \in Stored(key) : TRUE).body]
       /\ UNCHANGED <<jobs, results, raw, lease, recorder, today, crashes, commands>>

\* A skipped task is an outcome without a request.
Unsupported(r) ==
    LET t == Task(r) IN
    /\ run[r].pc = "look" /\ t.skip # None
    /\ results' = [results EXCEPT ![Job(r)] = Install(@, t, "unsupported")]
    /\ run' = [run EXCEPT ![r].pc = "save", ![r].doc = Succeed(Doc(r), t, "unsupported")]
    /\ UNCHANGED <<jobs, raw, lease, recorder, today, crashes, commands>>

\* call: the reservation in the lease document checks the owner again.
Call(r) ==
    /\ run[r].pc = "call"
    /\ IF lease = r THEN Go(r, "sent") ELSE Go(r, "release")
    /\ UNCHANGED <<jobs, results, raw, lease, recorder, today, crashes, commands>>

Refuse(r, e) ==
    LET t == Task(r) IN
    /\ e \in {"rate", "other"} => Doc(r).retries < MaxRetries
    /\ results' = IF Fails(Doc(r), e)
                  THEN [results EXCEPT ![Job(r)] = Install(@, t, "failed")]
                  ELSE results
    /\ run' = [run EXCEPT ![r].pc = "save", ![r].doc = Handle(Doc(r), t, e)]
    /\ UNCHANGED <<jobs, raw, lease, recorder, today, crashes, commands>>

OverBudget(r) ==
    /\ run[r].pc = "call" /\ lease = r /\ today < LastDay
    /\ Refuse(r, "budget")

Answer(r, b) ==
    /\ run[r].pc = "sent"
    /\ raw' = IF Stored(run[r].raw) = {}
              THEN raw \cup {[key |-> run[r].raw, day |-> today, body |-> b]} ELSE raw
    /\ run' = [run EXCEPT ![r].pc = "persist", ![r].body = b]
    /\ UNCHANGED <<jobs, results, lease, recorder, today, crashes, commands>>

Error(r, e) == run[r].pc = "sent" /\ Refuse(r, e)

\* persist_result, then the outcome; a body it cannot read is an error.
Persist(r) ==
    LET t == Task(r) IN
    /\ run[r].pc = "persist" /\ run[r].body # "bad"
    /\ results' = [results EXCEPT ![Job(r)] = Install(@, t, Status(run[r].body))]
    /\ run' = [run EXCEPT ![r].pc = "save", ![r].doc = Succeed(Doc(r), t, run[r].body)]
    /\ UNCHANGED <<jobs, raw, lease, recorder, today, crashes, commands>>

Unreadable(r) ==
    run[r].pc = "persist" /\ run[r].body = "bad" /\ Refuse(r, "other")

Save(r) ==
    /\ run[r].pc = "save"
    /\ jobs' = [jobs EXCEPT ![Job(r)] = save_job(@, Doc(r))]
    /\ Go(r, "release")
    /\ UNCHANGED <<results, raw, lease, recorder, today, crashes, commands>>

Release(r) ==
    /\ run[r].pc = "release"
    /\ lease' = IF lease = r THEN None ELSE lease
    /\ run' = [run EXCEPT ![r] = IF run[r].failed
                     THEN [Idle EXCEPT !.pc = "report", !.job = Job(r)] ELSE Idle]
    /\ UNCHANGED <<jobs, results, raw, recorder, today, crashes, commands>>

\* An exception that is not the provider's leaves the run; the worker then
\* marks the job: a short back-off, or a pause for review.
Abort(r) ==
    /\ crashes < MaxCrash
    /\ run[r].pc \in {"read", "checkpoint", "look", "persist", "save"}
    /\ run' = [run EXCEPT ![r].pc = "release", ![r].failed = TRUE]
    /\ crashes' = crashes + 1
    /\ UNCHANGED <<jobs, results, raw, lease, recorder, today, commands>>

pause_failed_job(r, transient) ==
    /\ run[r].pc = "report"
    /\ jobs' = [jobs EXCEPT ![Job(r)] =
                  IF transient THEN [@ EXCEPT !.wait = "backoff"]
                  ELSE [@ EXCEPT !.state = "paused"]]
    /\ run' = [run EXCEPT ![r] = Idle]
    /\ UNCHANGED <<results, raw, lease, recorder, today, crashes, commands>>

-----------------------------------------------------------------------------
(* Admin                                                                   *)

Admin(j, doc) ==
    /\ jobs' = [jobs EXCEPT ![j] = doc]
    /\ UNCHANGED <<results, raw, lease, run, recorder, today, crashes>>

Pause(j) ==
    /\ Exists(j)
    /\ Admin(j, [jobs[j] EXCEPT !.state = "paused", !.flag = TRUE])

Resumed(doc) ==
    IF doc.state = "completed" THEN doc ELSE [doc EXCEPT !.state = "running", !.flag = FALSE]

Resume(j) ==
    /\ Exists(j)
    /\ Admin(j, Resumed(jobs[j]))

ContinueRejected(j) ==
    /\ Exists(j) /\ jobs[j].state = "request_review"
    /\ jobs[j].current # None /\ jobs[j].reviewable
    /\ jobs' = [jobs EXCEPT ![j] =
                  [record_rejection(jobs[j], jobs[j].current) EXCEPT !.skipRejected = TRUE,
                                                         !.state = "paused"]]
    /\ results' = [results EXCEPT ![j] = Install(@, jobs[j].current, "failed")]
    /\ UNCHANGED <<raw, lease, run, recorder, today, crashes>>

StopOnRejected(j) ==
    /\ Exists(j) /\ jobs[j].state # "running" /\ jobs[j].skipRejected
    /\ Admin(j, [jobs[j] EXCEPT !.skipRejected = FALSE])

SkipBlocked(j) ==
    /\ Exists(j) /\ jobs[j].state = "permission_blocked" /\ jobs[j].current # None
    /\ jobs' = [jobs EXCEPT ![j] =
                  [Leave(jobs[j], jobs[j].current) EXCEPT !.assessed = @ + 1, !.state = "paused"]]
    /\ results' = [results EXCEPT ![j] =
                     InstallOnce(@, Outcome(<<TRUE, jobs[j].current>>, jobs[j].current,
                                              "permission_blocked"))]
    /\ UNCHANGED <<raw, lease, run, recorder, today, crashes>>

\* retry: a child job for one unsuccessful outcome of a job.
Retry(j, x, c) ==
    /\ Exists(j) /\ c \in Children /\ ~Exists(c)
    /\ x \in results[j] /\ x.status \in {"failed", "partial", "empty"}
    /\ jobs' = [jobs EXCEPT ![c] =
                  [create EXCEPT !.current = x.task, !.force = TRUE,
                      !.flag = jobs[j].flag, !.skipRejected = jobs[j].skipRejected,
                      !.parent = IF x.task.family = "chain_snapshot" THEN x.task ELSE None,
                      !.pending = IF x.task.family = "chain_snapshot"
                                  THEN <<x.task.expiry>> ELSE <<>>]]
    /\ UNCHANGED <<results, raw, lease, run, recorder, today, crashes>>

\* The data system owns the feed connections while it is enabled.
FeedsOnly(j) == j \in Jobs /\ \A p \in 1..Len(Pages) : Pages[p].family \in Feeds

StartRecorder ==
    /\ ~recorder /\ recorder' = TRUE
    /\ jobs' = [j \in Ids |-> IF Exists(j) /\ jobs[j].state = "running" /\ FeedsOnly(j)
                              THEN [jobs[j] EXCEPT !.state = "paused", !.flag = TRUE]
                              ELSE jobs[j]]
    /\ UNCHANGED <<results, raw, lease, run, today, crashes>>

PauseRecorder ==
    /\ recorder /\ recorder' = FALSE
    /\ UNCHANGED <<jobs, results, raw, lease, run, today, crashes>>

\* A new token resumes every job that waits for one.
credentials_saved ==
    /\ recorder
    /\ \E j \in Ids : Exists(j) /\ jobs[j].state = "token_required"
    /\ jobs' = [j \in Ids |-> IF Exists(j) /\ jobs[j].state = "token_required"
                              THEN Resumed(jobs[j]) ELSE jobs[j]]
    /\ UNCHANGED <<results, raw, lease, run, recorder, today, crashes>>

-----------------------------------------------------------------------------
(* Environment                                                             *)

Elapse(j) ==
    /\ Exists(j) /\ jobs[j].wait = "backoff"
    /\ jobs' = [jobs EXCEPT ![j].wait = "no"]
    /\ UNCHANGED <<results, raw, lease, run, recorder, today, crashes, commands>>

NextDay ==
    /\ today < LastDay /\ today' = today + 1
    /\ jobs' = [j \in Ids |-> IF Exists(j) /\ jobs[j].wait = "nextday"
                              THEN [jobs[j] EXCEPT !.wait = "no"] ELSE jobs[j]]
    /\ UNCHANGED <<results, raw, lease, run, recorder, crashes, commands>>

Crash(r) ==
    /\ crashes < MaxCrash /\ run[r].pc # "idle"
    /\ run' = [run EXCEPT ![r] = Idle]
    /\ crashes' = crashes + 1
    /\ UNCHANGED <<jobs, results, raw, lease, recorder, today, commands>>

Working(r) == run[r].pc \notin {"idle", "acquire", "report"}

\* 600 s after acquire, whether or not the run has ended.
ExpireLease ==
    /\ lease # None
    /\ Working(lease) => Overrun /\ crashes < MaxCrash
    /\ lease' = None
    /\ crashes' = IF Working(lease) THEN crashes + 1 ELSE crashes
    /\ UNCHANGED <<jobs, results, raw, run, recorder, today, commands>>

Step(r) ==
    \/ Acquire(r) \/ Read(r) \/ Checkpoint(r) \/ Look(r) \/ Unsupported(r)
    \/ Call(r) \/ OverBudget(r) \/ Persist(r) \/ Unreadable(r)
    \/ Save(r) \/ Release(r)
    \/ \E j \in Ids : Ready(r, j)
    \/ \E b \in Bodies : Answer(r, b)
    \/ \E e \in Errors : Error(r, e)
    \/ \E transient \in BOOLEAN : pause_failed_job(r, transient)

Command ==
    \/ \E j \in Ids : \/ Pause(j) \/ Resume(j) \/ ContinueRejected(j)
                      \/ StopOnRejected(j) \/ SkipBlocked(j)
                      \/ \E x \in results[j], c \in Children : Retry(j, x, c)
    \/ StartRecorder \/ PauseRecorder \/ credentials_saved

Control == commands < MaxCommands /\ commands' = commands + 1 /\ Command

Environment ==
    \/ \E j \in Ids : Elapse(j)
    \/ \E r \in Runners : Abort(r) \/ Crash(r)
    \/ NextDay \/ ExpireLease

Next == (\E r \in Runners : Step(r)) \/ Control \/ Environment

Spec == Init /\ [][Next]_vars

-----------------------------------------------------------------------------
(* Properties                                                              *)

States == {"paused", "running", "completed", "no_work", "token_required",
           "permission_blocked", "request_review"}

\* Documents, leases and runners keep their shape.
TypeOK ==
    /\ \A j \in Ids : Exists(j) => /\ jobs[j].state \in States
                                   /\ jobs[j].wait \in Waiting \cup {"no"}
                                   /\ jobs[j].assessed \in Nat
                                   /\ jobs[j].retries \in 0..MaxRetries
    /\ lease \in Runners \cup {None}
    /\ \A r \in Runners : Working(r) => Job(r) \in Ids

\* A task answers for its days of an item; one that was skipped, for all days.
Covers(t, i, v, d) ==
    /\ t.item = i \/ i \in t.batch
    /\ t.batch # {} \/ t.variant = v
    /\ t.family \in History /\ (t.gap \/ t.skip = None) => t.from <= d /\ d < t.to

\* When the cursor has left an item, each of its variants has a stored
\* outcome for each day of the plan; so a job that says "every selected item
\* has an outcome" has one, whatever crashed, overlapped or was skipped.
EveryItemHasOutcome ==
    \A j \in Jobs : Exists(j) =>
      \A pos \in Wanted(Pages, Cfg) :
        LET family == Pages[pos[1]].family
            i == Pages[pos[1]].items[pos[2]]
            last == IF family \in {"daily", "intraday"} /\ contract_expiry(i) # 0
                    THEN Least(Cfg.end, contract_expiry(i) + 1) ELSE Cfg.end
        IN ~NotBefore(pos, jobs[j].cursor) =>
             \A v \in ToSet(variants(family, i, Cfg)), d \in Cfg.start..(last - 1) :
               \E x \in results[j] : Covers(x.task, i, v, d)

\* A completed job has an outcome for every unexpired expiry that a chain of
\* it listed: the children are not lost between two documents.
EveryExpiryHasOutcome ==
    \A j \in Ids : Exists(j) /\ jobs[j].state = "completed" =>
      \A x \in results[j] :
        x.status = "completed" /\ x.task.family = "chain" =>
          \A e \in ToSet(Listed) : e >= today =>
            \E y \in results[j] : /\ y.task.family = "chain_snapshot"
                                  /\ y.task.item = x.task.item
                                  /\ y.task.expiry = e

\* The count a job reports never exceeds the outcomes it has stored.
AssessedBacked ==
    \A j \in Ids : Exists(j) => jobs[j].assessed <= Cardinality(results[j])

\* What a job says of its items is backed by what it has stored.
ItemsAccounted == EveryItemHasOutcome /\ AssessedBacked

\* "A pause wins over in-flight results": no step of a run sets a job that
\* is paused by a user going again.
PauseHolds ==
    [][\A j \in Ids : Exists(j) /\ jobs[j].state = "paused" /\ run' # run =>
          jobs'[j].state # "running"]_vars

\* The same sentence in full: whatever a run in flight finds out, the job its
\* user has paused stays paused.
PauseWins ==
    [][\A j \in Ids : Exists(j) /\ jobs[j].state = "paused" /\ jobs[j].flag /\ run' # run =>
          jobs'[j].state = "paused"]_vars
=============================================================================
