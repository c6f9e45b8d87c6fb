--------------------------- MODULE HistoryPlanner ---------------------------
(***************************************************************************)
(* personal-trading-phase1/app/market_collection.py: the collection planner *)
(* of the history database.  Every minute the dispatcher calls maintain: one  *)
(* transaction that imports the daily master, seeds a cursor for every new  *)
(* series, reads what became of the requested windows and registers the    *)
(* next ones.  Workers, the API and gap repair change jobs meanwhile; only *)
(* maintain, alone under its advisory lock, changes cursors.  FetchJob.tla *)
(* has the life of one job in detail, here a job is taken and answered.    *)
(*                                                                         *)
(* Days are integers; end is target_end, the first day not requested yet.  *)
(***************************************************************************)
EXTENDS Integers, FiniteSets, FiniteSetsExt

CONSTANTS
  Identities,     \* instruments the masters list
  Intervals,      \* "1d" and "1", or one of them
  Rank,           \* Identities -> Nat: class, segment and id order of the planner
  Expiry,         \* Identities -> expiry day or None
  Weekend, Closed, Unverified,  \* days of the calendar evidence; others REGULAR
  FirstDay,       \* floor of daily series (1900-01-01)
  StartDay,       \* target_end at the start
  Horizon,        \* five years
  Week, Older,    \* 7 days; slice of older daily history (90 days)
  MaxAttempts, QueueBound,
  Windows,        \* windows <<from, to>> the API and gap repair ask for
  None,
  \* bounds of the model, not of the code
  LastDay, MaxTokens, MaxDisturbances

ASSUME PlannerAssumption ==
  /\ Rank \in [Identities -> Nat] /\ Expiry \in [Identities -> Int \cup {None}]
  /\ Intervals \subseteq {"1d", "1"} /\ {FirstDay, StartDay} \subseteq Int
  /\ {Week, Older, MaxAttempts, QueueBound, Horizon} \subseteq Nat \ {0}
  /\ FirstDay - 1 \notin Weekend \cup Closed
ASSUME DaysAreNumbers ==
  /\ None \notin Int /\ IsFiniteSet(Identities)
  /\ StartDay >= FirstDay /\ \A i \in Identities : Expiry[i] # None => Expiry[i] >= FirstDay

VARIABLES
  end,        \* target_end(clock)
  checked,    \* the master was imported today
  master,     \* MasterIdentity: listed by the last import, identity conflict
  progress,   \* HistoryProgress, or None before it is seeded
  jobs,       \* FetchJob: the registered windows
  token,      \* credential files: how many were saved so far, 0 is none
  good,       \* the provider accepts the saved one
  revision,   \* SystemState credential-revision
  txn,        \* the maintain transaction under way, or None
  spent       \* disturbances so far

vars == <<end, checked, master, progress, jobs, token, good, revision, txn, spent>>

-----------------------------------------------------------------------------

Series == Identities \X Intervals
Interval(s) == s[2]
Key(s, a, b) == <<s, a, b>>
Start(k) == k[2]
End(k) == k[3]
LeastOf(a, b) == IF a < b THEN a ELSE b
MostOf(a, b) == IF a > b THEN a ELSE b

Live == {"QUEUED", "RUNNING", "RETRY_WAIT"}
NewJob == [status |-> "QUEUED", attempts |-> 0, fresh |-> TRUE]
Register(js, ks, job) == [k \in DOMAIN js \cup ks |-> IF k \in DOMAIN js THEN js[k] ELSE job]

Init ==
  /\ end = StartDay /\ checked = FALSE
  /\ master = [i \in Identities |-> [listed |-> FALSE, blocked |-> FALSE]]
  /\ progress = [s \in Series |-> None]
  /\ jobs = << >>
  /\ token = 0 /\ good = FALSE /\ revision = 0
  /\ txn = None
  /\ spent = 0

Disturb == spent < MaxDisturbances /\ spent' = spent + 1

five_years_before(day) == day - Horizon

\* The last day before d that is neither a weekend nor a verified holiday.
LastOpen(d) == Max({x \in (FirstDay - Week) .. (d - 1) : x \notin Weekend \cup Closed})

RecentSlice(p, last) == <<p.recent, LeastOf(last, p.recent + Week)>>

\* The window to request next: a recent probe, then the days since, then a
\* slice of older history; None when there is none.
next_range(s, p, last0) ==
  LET last == IF Expiry[s[1]] = None THEN last0 ELSE LeastOf(last0, Expiry[s[1]] + 1)
      open == LastOpen(last)
      probe == IF open \in Unverified THEN LeastOf(open, last - Week) ELSE open
      size == IF Interval(s) = "1d" THEN Older ELSE Week
      span == IF p.recent = None THEN <<MostOf(p.floor, probe), last>>
              ELSE IF p.recent < last THEN RecentSlice(p, last)
              ELSE IF p.older > p.floor THEN <<MostOf(p.floor, p.older - size), p.older>>
              ELSE None
  IN IF span = None THEN None ELSE IF span[1] >= span[2] THEN None ELSE span

Current(m) == m.listed /\ ~m.blocked

\* seed_progress: a cursor for every listed series that has none.
Seeded(ps, listing) ==
  [s \in Series |->
     IF ps[s] = None /\ Current(listing[s[1]])
        /\ (Interval(s) = "1d" \/ Expiry[s[1]] = None \/ Expiry[s[1]] >= end)
     THEN [floor |-> IF Interval(s) = "1d" THEN FirstDay ELSE five_years_before(end),
           older |-> end, recent |-> None, job |-> None, state |-> "READY", planned |-> 0,
           seed |-> end, probe |-> None]    \* history: where the cursor started
     ELSE ps[s]]

AdvanceToTarget(p, k, job) ==               \* bug: the answer covers up to today
  IF job.status = "ROWS_RECEIVED"
  THEN [p EXCEPT !.older = LeastOf(@, Start(k)), !.recent = end, !.job = None, !.state = "READY",
                 !.probe = IF @ = None THEN Start(k) ELSE @]
  ELSE p
Advance(p, k, job) ==
  CASE job.status = "ROWS_RECEIVED" ->
         [p EXCEPT !.older = LeastOf(@, Start(k)),
                   !.recent = IF @ = None THEN End(k) ELSE MostOf(@, End(k)),
                   !.job = None, !.state = "READY",
                   !.probe = IF @ = None THEN Start(k) ELSE @]
    [] job.status \in {"FAILED", "HOLD"} -> [p EXCEPT !.state = "REVIEW_REQUIRED"]
    [] job.status = "AUTH_REQUIRED" -> [p EXCEPT !.state = "WAITING_AUTH"]
    [] OTHER -> p

Waiting(p) == p # None /\ p.state \in {"WAITING", "WAITING_AUTH"}

\* Jobs as the transaction sees them: with its own resumptions.
Seen(js, resumed) == [k \in DOMAIN js |->
                        IF k \in resumed THEN [js[k] EXCEPT !.status = "QUEUED"] ELSE js[k]]

-----------------------------------------------------------------------------
(* maintain, statement by statement *)

\* The master is imported once a day; a listed identity may have changed
\* (blocked) or be as it was recorded, one that left the list stays as it is.
Usual == [i \in Identities |-> [listed |-> TRUE, blocked |-> FALSE]]
NewMasters == {m \in [Identities -> [listed : BOOLEAN, blocked : BOOLEAN]] :
                 /\ \E i \in Identities : m[i].listed
                 /\ \A i \in Identities : m[i].listed \/ m[i].blocked = master[i].blocked}
Master(m) ==
  \/ m = (IF checked THEN master ELSE Usual) /\ UNCHANGED spent
  \/ ~checked /\ m # Usual /\ Disturb

Commit(t) ==
  /\ progress' = t.progress /\ master' = t.master /\ checked' = TRUE
  /\ revision' = t.revision
  /\ txn' = None

Resumed == IF revision = token THEN {}
           ELSE {k \in DOMAIN jobs : jobs[k].status = "AUTH_REQUIRED"
                                      /\ jobs[k].attempts < MaxAttempts}
Settled(ps, js) == [s \in Series |-> IF Waiting(ps[s]) THEN Advance(ps[s], ps[s].job, js[ps[s].job])
                                     ELSE ps[s]]

\* Import, seed, resume what a new credential may free, settle the answers.
Settle ==
  /\ txn = None
  /\ \E m \in NewMasters \cup {master} : Master(m) /\
       \E seeded \in {Seeded(progress, m)}, resumed \in {Resumed} :
         IF token = 0
         THEN Commit([progress |-> seeded, master |-> m, revision |-> revision])
         ELSE /\ txn' = [pc |-> "check", progress |-> Settled(seeded, Seen(jobs, resumed)),
                         master |-> m, revision |-> token, resumed |-> resumed, room |-> 0]
              /\ UNCHANGED <<progress, master, checked, revision>>
  /\ UNCHANGED <<end, jobs, token, good>>

AnyAuth(js) == \E k \in DOMAIN js : js[k].status = "AUTH_REQUIRED"

\* Any job waiting for a credential, or a full disk, or no approval of the
\* shared budget ends the scan without a plan.
EndScan ==
  /\ txn # None /\ txn.pc = "check"
  /\ \/ AnyAuth(Seen(jobs, txn.resumed)) /\ UNCHANGED spent
     \/ Disturb
  /\ jobs' = Seen(jobs, txn.resumed)
  /\ Commit(txn)
  /\ UNCHANGED <<end, token, good>>

CheckAuth ==
  /\ txn # None /\ txn.pc = "check" /\ ~AnyAuth(Seen(jobs, txn.resumed))
  /\ txn' = [txn EXCEPT !.pc = "count"]
  /\ UNCHANGED <<end, checked, master, progress, jobs, token, good, revision, spent>>

Pending(js) == Cardinality({k \in DOMAIN js : js[k].status \in Live})
Count ==
  /\ txn # None /\ txn.pc = "count"
  /\ txn' = [txn EXCEPT !.pc = "plan",
                        !.room = MostOf(0, QueueBound - Pending(Seen(jobs, txn.resumed)))]
  /\ UNCHANGED <<end, checked, master, progress, jobs, token, good, revision, spent>>

ById(p, q, s, t) ==                         \* bug: not by planned_at
  \/ Rank[s[1]] < Rank[t[1]]
  \/ Rank[s[1]] = Rank[t[1]] /\ Interval(s) = "1" /\ Interval(t) = "1d"
\* order by planned_at, class, segment, id, interval
Before(p, q, s, t) ==
  \/ p.planned < q.planned
  \/ p.planned = q.planned
     /\ \/ Rank[s[1]] < Rank[t[1]]
        \/ Rank[s[1]] = Rank[t[1]] /\ Interval(s) = "1" /\ Interval(t) = "1d"

\* The READY rows one scan takes.
Taken(t) ==
  LET ready == {s \in Series : t.progress[s] # None /\ t.progress[s].state = "READY"
                               /\ Current(t.master[s[1]])}
  IN {s \in ready : Cardinality({r \in ready : Before(t.progress[r], t.progress[s], r, s)}) < t.room}

\* planned_at of the rows in use, kept as ranks; 0 is 1970.
Dense(ps) ==
  LET used == {ps[s].planned : s \in {x \in Series : ps[x] # None}} \ {0}
  IN [s \in Series |-> IF ps[s] = None THEN None
                       ELSE [ps[s] EXCEPT !.planned = Cardinality(used \cap (1 .. @))]]

\* One taken row: closed when its contract has expired, put last when there is
\* nothing to request, otherwise its window becomes its job.
Shifted(s, p) ==
  IF Interval(s) = "1"
  THEN LET floor == MostOf(p.floor, five_years_before(end))
       IN [p EXCEPT !.floor = floor, !.older = MostOf(@, floor)]
  ELSE p
Expired(s) == Interval(s) = "1" /\ Expiry[s[1]] # None /\ Expiry[s[1]] < end
Wanted(s, p) == IF Expired(s) THEN None ELSE next_range(s, Shifted(s, p), end)

Wants(t) ==
  LET spans == [s \in Taken(t) |-> Wanted(s, t.progress[s])]
  IN [s \in {x \in DOMAIN spans : spans[x] # None} |-> Key(s, spans[s][1], spans[s][2])]

Planned(s, p, want, js, now) ==
  CASE Expired(s) -> [p EXCEPT !.state = "EXPIRED_CONTRACT_REVIEW"]
    [] s \in DOMAIN want ->
         Advance([Shifted(s, p) EXCEPT !.job = want[s], !.state = "WAITING", !.planned = now],
                 want[s], js[want[s]])
    [] OTHER -> [Shifted(s, p) EXCEPT !.planned = now]

Plan ==
  /\ txn # None /\ txn.pc = "plan"
  /\ \E want \in {Wants(txn)}, taken \in {Taken(txn)} :
       \E after \in {Register(Seen(jobs, txn.resumed), {want[s] : s \in DOMAIN want}, NewJob)} :
         \E rows \in {[s \in Series |->
                       IF s \in taken
                       THEN Planned(s, txn.progress[s], want, after, Cardinality(Series) + 1)
                       ELSE txn.progress[s]]} :
           /\ jobs' = after
           /\ Commit([txn EXCEPT !.progress = Dense(rows)])
  /\ UNCHANGED <<end, token, good, spent>>

\* The dispatcher dies, or a statement or the download raises: nothing is kept.
Rollback ==
  /\ txn # None
  /\ Disturb
  /\ txn' = None
  /\ UNCHANGED <<end, checked, master, progress, jobs, token, good, revision>>

-----------------------------------------------------------------------------
(* Workers, the API, gap repair, time and the administrator *)

Held == IF txn = None THEN {} ELSE txn.resumed   \* rows the transaction has locked
Verified(k) == ~master[k[1][1]].blocked

\* A worker takes a due job and commits its attempt, or stops it at a check.
Take(k) ==
  /\ jobs[k].status \in {"QUEUED", "RETRY_WAIT"} /\ k \notin Held
  /\ jobs' = [jobs EXCEPT ![k] =
       IF ~Verified(k) \/ @.attempts >= MaxAttempts THEN [@ EXCEPT !.status = "FAILED"]
       ELSE IF token = 0 THEN [@ EXCEPT !.status = "AUTH_REQUIRED"]
       ELSE [@ EXCEPT !.status = "RUNNING", !.attempts = jobs[k].attempts + 1, !.fresh = good]]
  /\ UNCHANGED <<end, checked, master, progress, token, good, revision, txn, spent>>

\* Its answer, obtained with the credential it read.
Answer(k) ==
  /\ jobs[k].status = "RUNNING"
  /\ \E outcome \in {"ROWS_RECEIVED", "FAILED", "RETRY_WAIT", "AUTH_REQUIRED"} :
       /\ outcome = "AUTH_REQUIRED" => ~jobs[k].fresh
       /\ outcome = "ROWS_RECEIVED" => jobs[k].fresh /\ Verified(k)
       /\ outcome = "RETRY_WAIT" => jobs[k].attempts < MaxAttempts /\ Verified(k)
       /\ jobs' = [jobs EXCEPT ![k] = [@ EXCEPT !.status = outcome, !.fresh = TRUE]]
  /\ UNCHANGED <<end, checked, master, progress, token, good, revision, txn, spent>>

\* POST /history/jobs: any window up to today.
Enqueue(k) ==
  /\ Verified(k) /\ Disturb
  /\ jobs' = Register(jobs, {k}, NewJob)
  /\ UNCHANGED <<end, checked, master, progress, token, good, revision, txn>>

\* POST /history/jobs/{id}/retry
ManualRetry(k) ==
  /\ jobs[k].status = "AUTH_REQUIRED" /\ jobs[k].attempts < MaxAttempts /\ k \notin Held
  /\ Disturb
  /\ jobs' = [jobs EXCEPT ![k].status = "QUEUED"]
  /\ UNCHANGED <<end, checked, master, progress, token, good, revision, txn>>

\* process_gap: the rows of a repaired gap need a job to belong to.
RegisterGap(k) ==
  /\ Interval(k[1]) = "1" /\ Verified(k) /\ Disturb
  /\ jobs' = Register(jobs, {k}, [NewJob EXCEPT !.status = "GAP_PROVENANCE"])
  /\ UNCHANGED <<end, checked, master, progress, token, good, revision, txn>>

NextDay ==
  /\ end < LastDay
  /\ txn = None
  /\ end' = end + 1 /\ checked' = FALSE
  /\ UNCHANGED <<master, progress, jobs, token, good, revision, txn, spent>>

SaveToken ==
  /\ token < MaxTokens
  /\ token' = token + 1 /\ good' = TRUE
  /\ UNCHANGED <<end, checked, master, progress, jobs, revision, txn, spent>>

ExpireToken ==
  /\ good /\ Disturb
  /\ good' = FALSE
  /\ UNCHANGED <<end, checked, master, progress, jobs, token, revision, txn>>

-----------------------------------------------------------------------------

Keys == {Key(s, w[1], w[2]) : s \in Series, w \in {x \in Windows : x[1] < x[2] /\ x[2] <= end}}
Maintain == Settle \/ EndScan \/ CheckAuth \/ Count \/ Plan
Work(k) == Take(k) \/ Answer(k)

Next ==
  \/ Maintain \/ Rollback
  \/ \E k \in DOMAIN jobs : Work(k) \/ ManualRetry(k)
  \/ \E k \in Keys : Enqueue(k) \/ RegisterGap(k)
  \/ NextDay \/ SaveToken \/ ExpireToken

Spec == Init /\ [][Next]_vars

\* The dispatcher scans for ever (weak fairness of Maintain, which is always
\* enabled; without a token a scan may change nothing), and the workers take
\* and answer what is due; nobody has to save a token, retry, or let a day pass.
FairSpec ==
  /\ Spec
  /\ []<>(token = 0) \/ []<><<Maintain>>_txn
  /\ WF_vars(\E k \in DOMAIN jobs : Work(k))

-----------------------------------------------------------------------------

Received(s, d) == \E k \in DOMAIN jobs :
  k[1] = s /\ jobs[k].status = "ROWS_RECEIVED" /\ Start(k) <= d /\ d < End(k)

\* Every day between the two cursors of a series was answered with rows, but
\* for the days between its seeding and its first probe: the cursors move by
\* whole received windows (advance, next_range).
CursorsBacked == \A s \in Series :
  LET p == progress[s] IN
  p # None /\ p.recent # None =>
    \A d \in p.older .. (p.recent - 1) : Received(s, d) \/ (p.seed <= d /\ d < p.probe)

\* The same without the exception: a recent probe skips nothing ("Older slices
\* remain durable work", next_range).
NoDaySkipped == \A s \in Series :
  LET p == progress[s] IN
  p # None /\ p.recent # None => \A d \in p.older .. (p.recent - 1) : Received(s, d)

\* Nothing is planned while a job waits for a credential that maintain will not
\* resume: it has no attempt left, or this credential was tried.
AwaitsAdmin == token = 0 \/ \E k \in DOMAIN jobs :
  jobs[k].status = "AUTH_REQUIRED" /\ (jobs[k].attempts = MaxAttempts \/ revision = token)

In(s, state) == progress[s] # None /\ progress[s].state = state

\* A series that waits for a window a worker will answer does not wait for ever.
WaitingEnds == \A s \in Series :
  (In(s, "WAITING") /\ jobs[progress[s].job].status # "GAP_PROVENANCE") ~> ~In(s, "WAITING")

\* A listed series that has days to request gets its turn, however many others
\* are READY before it: scans go round by planned_at.
Servable(s) == In(s, "READY") /\ Wanted(s, progress[s]) # None /\ Current(master[s[1]])
EveryReadyServed == \A s \in Series : Servable(s) ~> (AwaitsAdmin \/ ~Servable(s))

\* No series is left behind, neither a READY nor a WAITING one.
SeriesMove == WaitingEnds /\ EveryReadyServed
=============================================================================
