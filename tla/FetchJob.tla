------------------------------ MODULE FetchJob ------------------------------
(***************************************************************************)
(* personal-trading-phase1/app: one history job from registration to its   *)
(* end.  PostgreSQL holds the jobs, the receipts and the candles and is the *)
(* outbox; Redis carries deliveries, which may be lost or duplicated, and  *)
(* the account gate; Celery workers (tasks.process_job) call the provider. *)
(* A worker may be lost, fail, or lose its database session at any point.  *)
(*                                                                         *)
(* One instrument; mapping says whether its identity is verified (verified *)
(* and not blocked: import_master changes the two together and keeps the   *)
(* fingerprint).  Times are left out: due says that the clock has passed   *)
(* next_attempt_at.                                                        *)
(***************************************************************************)
EXTENDS Integers, FiniteSets

CONSTANTS
  Workers,        \* Celery worker processes
  Jobs,           \* one per requested window of the instrument
  Candles, Covers,\* stored candle keys, and those inside each job's window
  Versions,       \* contents a candle may have in an answer
  MaxAttempts,    \* settings().max_fetch_attempts
  \* bounds of the model, not of the code
  MaxMessages,    \* deliveries of one job waiting in the queue
  MaxDisturbances \* failures, deferrals, identity changes and resumptions

ASSUME JobsAssumption ==
  /\ IsFiniteSet(Jobs) /\ "none" \notin Workers /\ "none" \notin Versions
  /\ Covers \in [Jobs -> SUBSET Candles]
ASSUME FetchBounds ==
  /\ MaxAttempts \in Nat \ {0} /\ MaxMessages \in Nat \ {0}
  /\ MaxDisturbances \in Nat

VARIABLES
  job,        \* fetch_jobs: status, attempts, due
  receipts,   \* request_attempts: outcome of each attempt of each job
  candles,    \* historical_data
  mapping,    \* Instrument.mapping_verified /\ ~MasterIdentity.blocked
  lock,       \* holder of each job's advisory lock (a database session)
  messages,   \* deliveries waiting in Redis
  cooldown,   \* the account gate refuses until the cooldown ends
  worker,     \* process_job in each worker
  calls,      \* history: requests sent to the provider for each job
  received,   \* history: the rows of the answer that finished each job
  evidence,   \* history: rate evidence is on record and has not cooled down
  spent       \* disturbances so far

database == <<job, receipts, candles, mapping>>
redis == <<messages, cooldown>>
history == <<calls, received, evidence>>
vars == <<database, lock, redis, worker, history, spent>>

-----------------------------------------------------------------------------

ACTIVE == {"QUEUED", "RETRY_WAIT", "RUNNING"}
Status == ACTIVE \cup {"NONE", "ROWS_RECEIVED", "FAILED", "AUTH_REQUIRED"}
Ended == {"ROWS_RECEIVED", "FAILED"}

NoRows == [c \in Candles |-> "none"]
\* What dhan.fetch can return: outcome, whether it may be retried, rows, and
\* explicit rate evidence.
RowSets(j) == {rows \in [Candles -> Versions \cup {"none"}] :
                 rows # NoRows /\ \A c \in Candles \ Covers[j] : rows[c] = "none"}
Answer(outcome, rows, rate) == [outcome |-> outcome, rows |-> rows, rate |-> rate]
Answers(j) ==
  {Answer("ROWS_RECEIVED", rows, FALSE) : rows \in RowSets(j)}
  \cup {Answer("RATE_LIMIT", NoRows, TRUE), Answer("PROVIDER_TRANSIENT", NoRows, FALSE),
        Answer("REVIEW", NoRows, FALSE)}
  \cup {Answer("AUTH_REQUIRED", NoRows, rate) : rate \in BOOLEAN}
Retryable == {"RATE_LIMIT", "PROVIDER_TRANSIENT"}
NoAnswer == Answer("none", NoRows, FALSE)

IdleWorker == [pc |-> "idle", job |-> "none", conn |-> TRUE, answer |-> NoAnswer, delay |-> FALSE]
Open(w) == worker[w].pc # "idle"

NewJob == [status |-> "NONE", attempts |-> 0, due |-> FALSE]

Init ==
  /\ job = [j \in Jobs |-> NewJob]
  /\ receipts = [j \in Jobs |-> [k \in 1 .. MaxAttempts |-> "none"]]
  /\ candles = NoRows
  /\ mapping = TRUE
  /\ lock = [j \in Jobs |-> "none"]
  /\ messages = [j \in Jobs |-> 0]
  /\ cooldown = FALSE
  /\ worker = [w \in Workers |-> IdleWorker]
  /\ calls = [j \in Jobs |-> 0]
  /\ received = [j \in Jobs |-> NoRows]
  /\ evidence = FALSE
  /\ spent = 0

Disturb == spent < MaxDisturbances /\ spent' = spent + 1

Publish(j) ==
  messages' = [messages EXCEPT ![j] = IF @ < MaxMessages THEN @ + 1 ELSE @]

-----------------------------------------------------------------------------
(* The API and the dispatcher *)

\* enqueue: register every window that is not there yet; a repeated request
\* finds its job as it is.
Enqueue(js) ==
  /\ mapping
  /\ \E j \in js : job[j].status = "NONE"
  /\ job' = [j \in Jobs |-> IF j \in js /\ job[j].status = "NONE"
               THEN [status |-> "QUEUED", attempts |-> 0, due |-> TRUE]
               ELSE job[j]]
  /\ UNCHANGED <<receipts, candles, mapping, lock, redis, worker, history, spent>>

Resumable(j) == job[j].status = "AUTH_REQUIRED" /\ job[j].attempts < MaxAttempts
\* manual_retry, and the update of maintain after a credential change.
Resume(j) ==
  /\ Resumable(j)
  /\ Disturb
  /\ job' = [job EXCEPT ![j] = [@ EXCEPT !.status = "QUEUED", !.due = TRUE]]
  /\ UNCHANGED <<receipts, candles, mapping, lock, redis, worker, history>>

WaitingOnly == {"QUEUED", "RETRY_WAIT"}     \* bug: an interrupted job is forgotten
Dispatchable == ACTIVE
\* dispatch_once, again and again while the job is due: last_dispatched_at only
\* spaces the publications, and is lost when the dispatcher dies before its commit.
Dispatch(j) ==
  /\ job[j].status \in Dispatchable /\ job[j].due
  /\ Publish(j)
  /\ UNCHANGED <<database, lock, cooldown, worker, history, spent>>

\* The clock passes next_attempt_at.
BecomesDue(j) ==
  /\ job[j].status \in ACTIVE /\ ~job[j].due
  /\ job' = [job EXCEPT ![j].due = TRUE]
  /\ UNCHANGED <<receipts, candles, mapping, lock, redis, worker, history, spent>>

\* Redis loses a delivery.
LoseMessage(j) ==
  /\ messages[j] > 0
  /\ Disturb
  /\ messages' = [messages EXCEPT ![j] = @ - 1]
  /\ UNCHANGED <<database, lock, cooldown, worker, history>>

\* import_master finds the identity changed, or back as it was recorded.
RefreshMaster ==
  /\ Disturb
  /\ mapping' = ~mapping
  /\ UNCHANGED <<job, receipts, candles, lock, redis, worker, history>>

-----------------------------------------------------------------------------
(* process_job *)

\* The task ends and its message is acknowledged.
Ends(w) == worker' = [worker EXCEPT ![w] = IdleWorker]

Takes(w, j) ==
  /\ ~Open(w) /\ messages[j] > 0
  /\ messages' = [messages EXCEPT ![j] = @ - 1]
  /\ UNCHANGED <<receipts, candles, mapping, cooldown, history>>

Claimable(j) == job[j].status \in ACTIVE /\ job[j].due

\* The lock is held, or the job is not active or not due: nothing to do.
Ignore(w, j) ==
  /\ Takes(w, j)
  /\ lock[j] # "none" \/ ~Claimable(j)
  /\ UNCHANGED <<job, lock, worker, spent>>

Exhausted(j) == job[j].attempts >= MaxAttempts

\* Unverified mapping, exhausted attempts or missing credentials: the job is
\* stopped, committed, and the lock freed again.
Stop(w, j) ==
  /\ Takes(w, j)
  /\ lock[j] = "none" /\ Claimable(j)
  /\ \/ /\ ~mapping \/ Exhausted(j)
        /\ job' = [job EXCEPT ![j].status = "FAILED"]
     \/ /\ mapping /\ ~Exhausted(j)
        /\ job' = [job EXCEPT ![j].status = "AUTH_REQUIRED"]
  /\ UNCHANGED <<lock, worker, spent>>

\* Every check passes; the worker keeps the lock and turns to the gate.
Claim(w, j) ==
  /\ Takes(w, j)
  /\ lock[j] = "none" /\ Claimable(j) /\ mapping /\ ~Exhausted(j)
  /\ lock' = [lock EXCEPT ![j] = w]
  /\ worker' = [worker EXCEPT ![w] = [IdleWorker EXCEPT !.pc = "admit", !.job = j]]
  /\ UNCHANGED <<job, spent>>

\* The storage limit, or a gate that would keep the task waiting for more than
\* five seconds: the job is put off without counting an attempt.
Defer(w) ==
  LET j == worker[w].job IN
  /\ worker[w].pc = "admit" /\ worker[w].conn
  /\ Disturb
  /\ job' = [job EXCEPT ![j] = [@ EXCEPT !.status = "RETRY_WAIT", !.due = FALSE]]
  /\ worker' = [worker EXCEPT ![w].pc = "finish", ![w].delay = TRUE]
  /\ UNCHANGED <<receipts, candles, mapping, lock, redis, history>>

\* A receipt left behind by a process that died is kept as evidence.
Interrupt(rs) == [k \in 1 .. MaxAttempts |->
                    IF rs[k] = "STARTED" THEN "INTERRUPTED_UNKNOWN" ELSE rs[k]]

UncountedAttempt(n) == IF n = 0 THEN 1 ELSE n     \* bug: counts the first attempt only
NextAttempt(n) == n + 1

\* The gate grants a slot and the STARTED receipt is committed.
Admit(w) ==
  LET j == worker[w].job
      n == NextAttempt(job[j].attempts)
  IN
  /\ worker[w].pc = "admit" /\ worker[w].conn
  /\ ~cooldown
  /\ receipts' = [receipts EXCEPT ![j] = [Interrupt(@) EXCEPT ![n] = "STARTED"]]
  /\ job' = [job EXCEPT ![j] = [@ EXCEPT !.attempts = n, !.status = "RUNNING"]]
  /\ worker' = [worker EXCEPT ![w].pc = "call"]
  /\ UNCHANGED <<candles, mapping, lock, redis, history, spent>>

\* dhan.fetch; without credentials it answers AUTH_REQUIRED and sends nothing.
Call(w) ==
  LET j == worker[w].job IN
  /\ worker[w].pc = "call"
  /\ \E answer \in Answers(j) :
       /\ worker' = [worker EXCEPT ![w].pc = "record", ![w].answer = answer]
       /\ calls' \in {[calls EXCEPT ![j] = @ + 1]}
                     \cup (IF answer = Answer("AUTH_REQUIRED", NoRows, FALSE) THEN {calls} ELSE {})
  /\ UNCHANGED <<database, lock, redis, received, evidence, spent>>

AlwaysTrusted(answer) == answer             \* bug: identity not checked again
\* The identity is read again under row locks before anything is saved.
Fenced(answer) ==
  IF mapping THEN answer ELSE Answer("IDENTITY_CHANGED_DURING_REQUEST", NoRows, answer.rate)

\* save_rows: insert ... on conflict do nothing.
SaveRows(old, rows) == [c \in Candles |-> IF old[c] = "none" THEN rows[c] ELSE old[c]]
Conflicts(saved, rows) == {c \in Candles : rows[c] # "none" /\ saved[c] # rows[c]}

\* The verdict of one answer on its job.
Verdict(jb, answer) ==
  CASE answer.rows # NoRows ->
         [jb EXCEPT !.status = IF Conflicts(SaveRows(candles, answer.rows), answer.rows) = {}
                               THEN "ROWS_RECEIVED" ELSE "FAILED"]
    [] answer.outcome = "AUTH_REQUIRED" -> [jb EXCEPT !.status = "AUTH_REQUIRED"]
    [] answer.outcome \in Retryable /\ jb.attempts < MaxAttempts ->
         [jb EXCEPT !.status = "RETRY_WAIT", !.due = FALSE]
    [] OTHER -> [jb EXCEPT !.status = "FAILED"]

AnySession(w) == TRUE                       \* bug: recorded through a new session
Session(w) == worker[w].conn

\* The receipt, the candles and the job are committed together.
Record(w) ==
  LET j == worker[w].job
      answer == Fenced(worker[w].answer)
      after == Verdict(job[j], answer)
  IN
  /\ worker[w].pc = "record" /\ Session(w)
  /\ receipts' = [receipts EXCEPT ![j][job[j].attempts] = answer.outcome]
  /\ candles' = SaveRows(candles, answer.rows)
  /\ job' = [job EXCEPT ![j] = after]
  /\ received' = [received EXCEPT ![j] = answer.rows]
  /\ evidence' = (evidence \/ answer.rate)
  /\ worker' = [worker EXCEPT ![w].pc = IF answer.rate THEN "cool" ELSE "finish",
                              ![w].delay = (after.status = "RETRY_WAIT")]
  /\ UNCHANGED <<mapping, lock, redis, calls, spent>>

\* After the commit the account-wide cooldown is set, unless Redis fails.
Cool(w) ==
  /\ worker[w].pc = "cool"
  /\ \/ cooldown' = TRUE /\ UNCHANGED spent
     \/ Disturb /\ UNCHANGED cooldown
  /\ worker' = [worker EXCEPT ![w].pc = "finish"]
  /\ UNCHANGED <<database, lock, messages, history>>

CooldownEnds ==
  /\ cooldown \/ evidence
  /\ cooldown' = FALSE /\ evidence' = FALSE
  /\ UNCHANGED <<database, lock, messages, worker, calls, received, spent>>

Release(w) == [j \in Jobs |-> IF lock[j] = w THEN "none" ELSE lock[j]]

\* Unlock, publish the retry if there is a delay, acknowledge.
Finish(w) ==
  /\ worker[w].pc = "finish"
  /\ lock' = Release(w)
  /\ IF worker[w].delay \/ ~worker[w].conn
     THEN Publish(worker[w].job) ELSE UNCHANGED messages
  /\ Ends(w)
  /\ UNCHANGED <<database, cooldown, history, spent>>

\* A statement on a lost session raises; the task is retried.
SessionFails(w) ==
  /\ worker[w].pc \in {"admit", "record"} /\ ~worker[w].conn
  /\ Publish(worker[w].job)
  /\ Ends(w)
  /\ UNCHANGED <<database, lock, cooldown, history, spent>>

\* The worker is lost, the time limit passes, Redis or PostgreSQL raises: the
\* transaction is rolled back, the session and its lock are gone, and the
\* message comes back (late acknowledgement, retry) or not.
Interrupted(w) ==
  /\ Open(w)
  /\ Disturb
  /\ lock' = Release(w)
  /\ Publish(worker[w].job) \/ UNCHANGED messages
  /\ Ends(w)
  /\ UNCHANGED <<database, cooldown, history>>

\* The server drops the session, and with it the lock; the worker finds out at
\* its next statement.
LoseSession(w) ==
  /\ Open(w) /\ worker[w].conn
  /\ Disturb
  /\ lock' = Release(w)
  /\ worker' = [worker EXCEPT ![w].conn = FALSE]
  /\ UNCHANGED <<database, redis, history>>

-----------------------------------------------------------------------------

Work(w) == Admit(w) \/ Call(w) \/ Record(w) \/ Cool(w) \/ Finish(w) \/ SessionFails(w)
Receive(w) == \E j \in Jobs : Ignore(w, j) \/ Stop(w, j) \/ Claim(w, j)

Next ==
  \/ \E js \in SUBSET Jobs : Enqueue(js)
  \/ \E j \in Jobs :
       Resume(j) \/ Dispatch(j) \/ BecomesDue(j) \/ LoseMessage(j)
  \/ \E w \in Workers :
       Receive(w) \/ Defer(w) \/ Work(w) \/ Interrupted(w) \/ LoseSession(w)
  \/ RefreshMaster
  \/ CooldownEnds

\* The dispatcher loops every five seconds, time passes, the workers consume
\* the queue and every wait of a task is bounded.
Fairness ==
  /\ \A j \in Jobs : /\ WF_vars(Dispatch(j)) /\ WF_vars(BecomesDue(j))
                     /\ SF_vars(\E w \in Workers : Ignore(w, j) \/ Stop(w, j) \/ Claim(w, j))
  /\ \A w \in Workers : WF_vars(Work(w))
  /\ WF_vars(CooldownEnds)

Spec == Init /\ [][Next]_vars
FairSpec == Spec /\ Fairness

-----------------------------------------------------------------------------
(* Properties *)

Outcomes == {"none", "ROWS_RECEIVED", "RATE_LIMIT", "PROVIDER_TRANSIENT", "REVIEW",
             "AUTH_REQUIRED", "IDENTITY_CHANGED_DURING_REQUEST"}
Rows == [Candles -> Versions \cup {"none"}]

\* Every variable has the shape the code gives it.
TypeOK ==
  /\ job \in [Jobs -> [status : Status, attempts : 0 .. MaxAttempts, due : BOOLEAN]]
  /\ receipts \in [Jobs -> [1 .. MaxAttempts ->
                              Outcomes \cup {"STARTED", "INTERRUPTED_UNKNOWN"}]]
  /\ candles \in Rows
  /\ mapping \in BOOLEAN
  /\ lock \in [Jobs -> Workers \cup {"none"}]
  /\ messages \in [Jobs -> 0 .. MaxMessages]
  /\ cooldown \in BOOLEAN
  /\ worker \in [Workers -> [pc : {"idle", "admit", "call", "record", "cool", "finish"},
                             job : Jobs \cup {"none"}, conn : BOOLEAN,
                             answer : [outcome : Outcomes, rows : Rows, rate : BOOLEAN],
                             delay : BOOLEAN]]
  /\ calls \in [Jobs -> Nat]
  /\ received \in [Jobs -> Rows]
  /\ evidence \in BOOLEAN
  /\ spent \in 0 .. MaxDisturbances

\* "A maximum of four provider attempts per chunk", whatever is lost, repeated
\* or interrupted: every request had its receipt committed before it was sent.
RequestsBounded ==
  \A j \in Jobs : /\ calls[j] <= Cardinality({k \in 1 .. MaxAttempts : receipts[j][k] # "none"})
                  /\ calls[j] <= job[j].attempts

\* A job has at most one open receipt, that of its latest attempt.
OneOpenReceipt ==
  \A j \in Jobs : \A k \in 1 .. MaxAttempts :
    receipts[j][k] = "STARTED" => k = job[j].attempts

\* "An interrupted attempt remains INTERRUPTED_UNKNOWN": a closed receipt is
\* never rewritten, not even by the worker it had been taken for dead.
ReceiptsAreFinal ==
  [][\A j \in Jobs : \A k \in 1 .. MaxAttempts :
       receipts[j][k] \notin {"none", "STARTED"} => receipts'[j][k] = receipts[j][k]]_vars

\* "Dispatcher replay cannot skip that due time": an attempt starts only when
\* the job's next_attempt_at has passed, whichever delivery causes it.
NeverEarly ==
  [][\A j \in Jobs : job'[j].attempts > job[j].attempts => job[j].due]_vars

\* A job that ended stays as it ended: no late answer, duplicate delivery or
\* resume reopens it.
EndedStays ==
  [][\A j \in Jobs : job[j].status \in Ended => job'[j].status = job[j].status]_vars

\* What no step undoes: a due time that has not passed, a closed receipt, an
\* ended job.
NothingUndone == NeverEarly /\ ReceiptsAreFinal /\ EndedStays

\* ROWS_RECEIVED is a promise: what the job was answered is what is stored,
\* for ever, although other jobs may bring other versions of the same candle.
StoredAsReceived ==
  \A j \in Jobs : job[j].status = "ROWS_RECEIVED" =>
    \A c \in Candles : received[j][c] \in {"none", candles[c]}

\* What the database says of the requests is true: each was receipted, at most
\* one receipt is open, and rows reported as received are the rows stored.
ReceiptsSound == RequestsBounded /\ OneOpenReceipt /\ StoredAsReceived

\* "a concurrent master refresh must not reinterpret a reused derivative ID":
\* candles are saved only while the mapping is verified.
SavedUnderIdentity == [][candles' # candles => mapping]_vars

\* "Account limit responses set a shared cooldown": once rate evidence is on
\* record, no slot is granted before it has cooled down, unless the worker that
\* recorded it is just about to set the cooldown.
LimitCoolsAccount ==
  [][(\E j \in Jobs : job'[j].attempts > job[j].attempts) /\ evidence
        => \E w \in Workers : worker[w].pc = "cool"]_vars

\* Every registered job ends or waits for credentials, across lost messages,
\* lost workers and lost sessions.
JobsSettle == \A j \in Jobs : (job[j].status \in ACTIVE) ~> (job[j].status \notin ACTIVE)
=============================================================================
