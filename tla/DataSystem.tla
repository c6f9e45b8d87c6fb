------------------------------ MODULE DataSystem ------------------------------
(***************************************************************************)
(* live-app/data_system.py with catalogue_backfill.py, equity_catchup.py    *)
(* and whole_market.py: which collection jobs the maintenance loop creates. *)
(*                                                                         *)
(* A stage of the loop reads a schedule document, creates jobs under names *)
(* that repeat when the stage is repeated, narrows and starts them, and    *)
(* writes the document.  Every access to the store is a step of its own; a *)
(* stage may fail before any of them (the next stage follows) and the      *)
(* process may die (the loop starts over).  What a job does is             *)
(* CollectionJob; here it runs until it ends.                              *)
(*                                                                         *)
(* Days are numbers; a range <<a, b>> holds the days a .. b - 1.           *)
(***************************************************************************)
EXTENDS Integers, FiniteSets, Sequences

CONSTANTS
  Families,       \* history families collected for the whole master
  Catalogues,        \* the instrument masters in the order they are published
  Core, Cash, Traded,  \* identities each filtered plan selects
  Sweeps,         \* families of repeated whole-catalogue snapshots
  Starts,         \* [jobs made by hand or by an earlier release, its core slot,
                  \* the <<stage, item>> pairs that do not fail in every pass]
  Weekend, Begin, \* days without a session; the day five years back
  Lead, Overlap, Span, EquitySpan, Slack,  \* 3, 2, 30, 3 and 7 days
  Pausable,       \* roles whose jobs the admin pauses and resumes
  Unset,
  \* bounds of the model, not of the code
  FirstDay, LastDay, MaxAborts, MaxCommands

VARIABLES
  today, master, refreshed,       \* catalogue/current: which master, refreshed when
  jobs,                         \* the job documents
  backfill, lastCompared, history, equity, earlier, sweep,  \* the schedule documents
  stage, left, item, draft, plan,  \* the loop: items left, item and job at hand
  since,                        \* history: first day of each series of windows
  attended,                     \* the <<stage, item>> pairs that do not fail at once
  aborts, commands

docs == <<backfill, lastCompared, history, equity, earlier, sweep>>
loop == <<stage, left, item, draft, plan>>
vars == <<today, master, refreshed, jobs, docs, loop, since, attended, aborts, commands>>

-----------------------------------------------------------------------------
(* Job documents                                                           *)

Roles == {"core"} \cup Families
Unfiltered == {"backfill", "added", "manual"} \cup Families
Job(role, family, from, to, scope) ==
  [role |-> role, family |-> family, from |-> from, to |-> to, scope |-> scope,
   cat |-> master, state |-> "paused", user |-> FALSE, pinned |-> FALSE, started |-> FALSE]

\* What was there before the first pass: jobs made by hand, for the whole master,
\* and the core job of an earlier release, under names the loop does not make.  A
\* job that is not paused was started, and so was the recorded core job, unless
\* the admin paused it.
JobBefore(j, job) ==
  /\ {"role", "family", "from", "to", "scope", "cat", "state", "user", "pinned", "started"} \subseteq DOMAIN job
  /\ job.from \in Int /\ job.to \in Int /\ job.to <= FirstDay /\ job.cat = 1
  /\ job.role = "core" \/ (job.role = "manual" /\ Catalogues[1] \subseteq job.scope /\ ~job.user)
  /\ job.user \in BOOLEAN /\ job.started \in BOOLEAN
  /\ job.state # "paused" => job.started
  /\ j \notin {"backfill", "added", "earlier"} \X Families \X Int \X Int
  /\ j \notin {"daily", "equity"} \X Roles \X Int \X Int \X Int
CoreBefore(slot, job) ==
  /\ slot.start \in Int /\ slot.end \in Int /\ "version" \in DOMAIN slot
  /\ job.role = "core" /\ job.family = "daily" /\ Core \cap Catalogues[1] \subseteq job.scope
  /\ job.from <= slot.start /\ slot.end <= job.to
  /\ job.started \/ job.user
ASSUME StartsAssumption ==
  \A start \in Starts :
    /\ \A j \in DOMAIN start.jobs : JobBefore(j, start.jobs[j])
    /\ start.core # Unset => start.core.job \in DOMAIN start.jobs /\ CoreBefore(start.core, start.jobs[start.core.job])

\* A pass does not fail for items that its stage does not have, and bootstrap
\* fails for every family or for none.
ASSUME AttendedAssumption ==
  \A start \in Starts :
    /\ start.attended \subseteq ({"backfill", "equity"} \X Families) \cup ({"earlier"} \X (Families \cap {"daily"}))
                                \cup ({"daily"} \X Roles) \cup ({"sweep"} \X Sweeps)
    /\ \A f, g \in Families : <<"backfill", f>> \in start.attended => <<"backfill", g>> \in start.attended

ASSUME NamesAssumption ==
  Families \cap {"core", "backfill", "added", "manual", "equity", "earlier", "sweep"} = {}
ASSUME CataloguesAssumption == Len(Catalogues) \in Nat \ {0}

\* The windows meet, there is a session before every day, and the first window
\* lies within the five years.
ASSUME DatesAssumption ==
  /\ {FirstDay, LastDay, Begin, Lead, Overlap, Span, EquitySpan, Slack} \subseteq Nat
  /\ FirstDay <= LastDay /\ Lead > 0 /\ Overlap <= Lead /\ Overlap <= Span
  /\ \A t \in FirstDay .. LastDay :
       \E d \in Begin + Slack + Lead .. t - 1 : d \notin Weekend /\ \A e \in d + 1 .. t - 1 : e \in Weekend

Ended(j) == jobs[j].state \in {"completed", "no_work"}
Put(id, job) == [j \in DOMAIN jobs \cup {id} |-> IF j = id THEN job ELSE jobs[j]]

-----------------------------------------------------------------------------
(* Calendar                                                                *)

\* recent_closed_day: the last weekday before today.
RecentClosed == CHOOSE d \in 0 .. today - 1 : d \notin Weekend /\ \A e \in d + 1 .. today - 1 : e \in Weekend
Target == RecentClosed + 1
Least(a, b) == IF a < b THEN a ELSE b

-----------------------------------------------------------------------------
(* What each stage does with one item: keep a slot, or plan a job          *)

Stages == <<"catalogue", "backfill", "daily", "equity", "earlier", "sweep">>
ItemsOf(s) == {x \in Families \cup Roles \cup Sweeps : <<s, x>> \in attended}
NextStage(s) ==
  LET n == CHOOSE i \in DOMAIN Stages : Stages[i] = s
      later == {i \in n + 1 .. Len(Stages) : ItemsOf(Stages[i]) # {}}
  IN IF later = {} THEN "catalogue" ELSE Stages[CHOOSE i \in later : \A j \in later : i <= j]

\* The slots a stage starts from.
Read(s) ==
  CASE s = "daily" -> history [] s = "equity" -> equity
    [] OTHER -> [f \in Families |-> Unset]

NoPlan == [id |-> Unset, job |-> Unset, slot |-> Unset, step |-> "none", user |-> FALSE]
Keep(slot) == [id |-> Unset, job |-> Unset, slot |-> slot, step |-> "record", user |-> FALSE]
Plan(id, job, slot) == [id |-> id, job |-> job, slot |-> slot, step |-> "pin", user |-> FALSE]
Hold(id, job, slot) == [id |-> id, job |-> job, slot |-> slot, step |-> "pin", user |-> TRUE]

\* bootstrap_history: adopt a whole-catalogue job of about these dates, the one
\* that runs first, or plan one.
Adoptable(f) ==
  {j \in DOMAIN jobs : /\ jobs[j].family = f /\ jobs[j].role \in Unfiltered
                       /\ jobs[j].from <= Begin + Slack /\ jobs[j].to >= today - Slack}
Bootstrap(f) ==
  IF Adoptable(f) # {}
  THEN Keep(CHOOSE j \in Adoptable(f) : jobs[j].state = "running" \/ \A k \in Adoptable(f) : jobs[k].state # "running")
  ELSE LET id == <<"backfill", f, Begin, today>> IN
       Plan(id, Job("backfill", f, Begin, today, Catalogues[master]), id)

\* catalogue_backfill.schedule: the identities the last compared master lacked;
\* they wait while the admin has the root paused.

Compared(f) == IF lastCompared[f] # 0 THEN lastCompared[f] ELSE jobs[backfill[f]].cat
Additions(f) ==
  LET root == jobs[backfill[f]]
      new == Catalogues[master] \ Catalogues[Compared(f)]
      id == <<"added", f, Compared(f), master>>
  IN IF lastCompared[f] = master \/ new = {} THEN Keep(master)
     ELSE LET job == Job("added", f, root.from, today, new)
          IN IF root.user THEN Hold(id, job, master) ELSE Plan(id, job, master)

\* schedule_history: the next window of a role starts before the end of the last
\* one, however long ago that was.

\* A plausible error: the window starts at the newest days.
NewestDays(slot) == Target - Lead

WindowStart(slot) == IF slot = Unset THEN Target - Lead ELSE slot.end - Overlap
Replaced(r, slot) == r = "core" /\ slot # Unset /\ slot.version # 2 /\ Ended(slot.job)
Daily(r) ==
  LET slot == IF Replaced(r, draft[r]) THEN Unset ELSE draft[r]
      from == WindowStart(slot)
      to == Least(Target, from + Span)
      id == <<"daily", r, from, to, master>>
  IN IF slot # Unset /\ (~Ended(slot.job) \/ jobs[slot.job].state = "no_work" \/ slot.end >= Target)
     THEN Keep(slot)
     ELSE Plan(id, Job(r, IF r = "core" THEN "daily" ELSE r, from, to,
                       IF r = "core" THEN Catalogues[master] \cap Core ELSE Catalogues[master]),
               [job |-> id, start |-> from, end |-> to, version |-> 2])

\* equity_catchup.schedule: windows that meet, two of them unfinished.
Equity(f) ==
  LET slot == draft[f]
      ids == IF slot = Unset THEN {} ELSE slot.ids
      open == {j \in ids : ~Ended(j)}
      from == IF slot = Unset THEN Target - Lead ELSE slot.end
      to == Least(Target, from + EquitySpan)
      id == <<"equity", f, from, to, master>>
  IN IF \E j \in ids : jobs[j].user THEN Keep(slot)
     ELSE IF from >= Target \/ Cardinality(open) >= 2
     THEN Keep([ids |-> open, end |-> from])
     ELSE Plan(id, Job("equity", f, from, to, Catalogues[master] \cap Traded), [ids |-> open \cup {id}, end |-> to])

\* whole_market.earlier_daily: the days before the root, for every cash identity.
Earlier(f) ==
  LET root == IF backfill = Unset THEN [user |-> TRUE] ELSE jobs[backfill[f]]
      base == IF earlier = Unset THEN {} ELSE Catalogues[earlier.cat]
      new == (Catalogues[master] \ base) \cap Cash
      ids == IF earlier = Unset THEN {} ELSE earlier.ids
      id == <<"earlier", f, IF earlier = Unset THEN 0 ELSE earlier.cat, master>>
  IN IF root.user \/ (earlier # Unset /\ earlier.cat = master) \/ \E j \in ids : jobs[j].user
     THEN Keep(earlier)
     ELSE IF new = {} THEN Keep([cat |-> master, ids |-> ids])
     ELSE Plan(id, Job("earlier", f, 0, root.from, new), [cat |-> master, ids |-> ids \cup {id}])

\* schedule_quotes, schedule_chains, adopt_sweep: one sweep after the other.
Sweep(q) ==
  LET found == {j \in DOMAIN jobs : jobs[j].family = q /\ jobs[j].state = "running"}
      id == <<"sweep", q, today>>
  IN IF sweep[q] = Unset /\ found # {} THEN Keep([job |-> CHOOSE j \in found : TRUE, at |-> today])
     ELSE IF sweep[q] # Unset /\ (~Ended(sweep[q].job) \/ sweep[q].at = today) THEN Keep(sweep[q])
     ELSE Plan(id, Job("sweep", q, today, today + 1, Catalogues[master]), [job |-> id, at |-> today])

Decision(x) ==
  CASE stage = "backfill" -> IF backfill = Unset THEN Bootstrap(x) ELSE Additions(x)
    [] stage = "daily" -> Daily(x)
    [] stage = "equity" -> Equity(x)
    [] stage = "earlier" -> Earlier(x)
    [] stage = "sweep" -> Sweep(x)

-----------------------------------------------------------------------------
(* The loop                                                                *)

Init ==
  /\ today = FirstDay /\ master = 1 /\ refreshed = FirstDay
  /\ \E start \in Starts :
       /\ jobs = start.jobs /\ attended = start.attended
       /\ history = [r \in Roles |-> IF r = "core" THEN start.core ELSE Unset]
  /\ backfill = Unset /\ lastCompared = [f \in Families |-> 0]
  /\ equity = [f \in Families |-> Unset] /\ earlier = Unset /\ sweep = [q \in Sweeps |-> Unset]
  /\ stage = "catalogue" /\ left = {} /\ item = Unset /\ draft = <<>> /\ plan = NoPlan
  /\ since = [t \in {<<"daily", r>> : r \in Roles} \cup {<<"equity", f>> : f \in Families} |->
                IF t = <<"daily", "core">> /\ history["core"] # Unset THEN history["core"].start ELSE Unset]
  /\ aborts = 0 /\ commands = 0

Enter(s) == stage' = s /\ left' = ItemsOf(s) /\ draft' = Read(s) /\ plan' = NoPlan /\ item' = Unset

\* refresh_catalogue, once a day; a refresh that fails leaves the old master.
Refresh ==
  /\ stage = "catalogue"
  /\ \/ refreshed < today /\ refreshed' = today /\ master' \in {master, Least(master + 1, Len(Catalogues))}
     \/ UNCHANGED <<refreshed, master>>
  /\ Enter(NextStage("catalogue"))
  /\ UNCHANGED <<today, jobs, docs, since, attended, aborts, commands>>

\* An item is decided; Collector.create returns a job that exists as it is.
DecideItem(x) ==
  /\ x \in left /\ plan = NoPlan
  /\ item' = x /\ left' = left \ {x}
  /\ plan' = Decision(x)
  /\ jobs' = IF plan'.step = "record" \/ plan'.id \in DOMAIN jobs THEN jobs ELSE Put(plan'.id, plan'.job)
  /\ UNCHANGED <<today, master, refreshed, docs, stage, draft, since, attended, aborts, commands>>

At(step) == plan.step = step
Goto(step) == plan' = [plan EXCEPT !.step = step]

\* The role and the narrowed pages, on a job that has not run yet; what the
\* start of the job depends on is read here.
Narrowed == {"added", "equity", "earlier"}

\* A plausible error: a job that was narrowed before is taken as started.
PinnedIsStarted(j) == jobs[j].user \/ jobs[j].pinned

KeptPaused(j) == jobs[j].user \/ jobs[j].state # "paused"
Pin ==
  /\ At("pin")
  /\ jobs[plan.id].role \in Narrowed => jobs[plan.id].pinned \/ jobs[plan.id].state = "paused"
  /\ jobs' = [jobs EXCEPT ![plan.id].pinned = TRUE]
  /\ plan' = [plan EXCEPT !.step = "start", !.user = @ \/ KeptPaused(plan.id)]
  /\ UNCHANGED <<today, master, refreshed, docs, stage, left, item, draft, since, attended, aborts, commands>>

\* The job ran before its pages were narrowed: ValueError.
Advanced ==
  /\ At("pin") /\ jobs[plan.id].role \in Narrowed
  /\ ~jobs[plan.id].pinned /\ jobs[plan.id].state # "paused"
  /\ Enter(NextStage(stage))
  /\ UNCHANGED <<today, master, refreshed, jobs, docs, since, attended, aborts, commands>>

Resumed(j) == [jobs EXCEPT ![j] = IF @.state = "completed" THEN @
                                  ELSE [@ EXCEPT !.state = "running", !.user = FALSE, !.started = TRUE]]
StartJob ==
  /\ At("start")
  /\ jobs' = IF plan.user THEN jobs ELSE Resumed(plan.id)
  /\ Goto("record")
  /\ UNCHANGED <<today, master, refreshed, docs, stage, left, item, draft, since, attended, aborts, commands>>

\* Additions, earlier days and sweeps are written item by item, the others at
\* the end of their stage.
Record ==
  /\ At("record") /\ plan' = NoPlan /\ item' = Unset
  /\ CASE stage = "backfill" /\ backfill # Unset ->
            lastCompared' = [lastCompared EXCEPT ![item] = plan.slot] /\ UNCHANGED <<backfill, history, equity, earlier, sweep, draft>>
       [] stage = "earlier" -> earlier' = plan.slot /\ UNCHANGED <<backfill, lastCompared, history, equity, sweep, draft>>
       [] stage = "sweep" ->
             sweep' = [sweep EXCEPT ![item] = plan.slot] /\ UNCHANGED <<backfill, lastCompared, history, equity, earlier, draft>>
       [] OTHER -> draft' = [draft EXCEPT ![item] = plan.slot] /\ UNCHANGED docs
  /\ UNCHANGED <<today, master, refreshed, jobs, stage, left, since, attended, aborts, commands>>

Since(t) ==
  LET old == IF t[1] = "daily" THEN history[t[2]] ELSE equity[t[2]]
      new == draft[t[2]]
  IN IF stage # t[1] \/ new = Unset THEN since[t]
     ELSE IF stage = "daily" /\ (old = Unset \/ old.version # new.version) THEN new.start
     ELSE IF stage = "equity" /\ old = Unset THEN jobs[CHOOSE j \in new.ids : TRUE].from
     ELSE since[t]

WriteSchedules ==
  /\ left = {} /\ plan = NoPlan /\ stage # "catalogue"
  /\ backfill' = IF stage = "backfill" /\ backfill = Unset THEN draft ELSE backfill
  /\ history' = IF stage = "daily" THEN draft ELSE history
  /\ equity' = IF stage = "equity" THEN draft ELSE equity
  /\ since' = [t \in DOMAIN since |-> Since(t)]
  /\ Enter(NextStage(stage))
  /\ UNCHANGED <<today, master, refreshed, jobs, lastCompared, earlier, sweep, attended, aborts, commands>>

-----------------------------------------------------------------------------
(* Environment                                                             *)

\* An access to the store fails, and the next stage follows, or the process dies.
Abort ==
  /\ aborts < MaxAborts /\ aborts' = aborts + 1
  /\ plan # NoPlan \/ (left = {} /\ stage # "catalogue")
  /\ Enter(NextStage(stage)) \/ Enter("catalogue")
  /\ UNCHANGED <<today, master, refreshed, jobs, docs, since, attended, commands>>

\* Every stage reads the clock when it starts.
NewDay ==
  /\ today < LastDay /\ plan = NoPlan /\ left = ItemsOf(stage)
  /\ today' = today + 1
  /\ UNCHANGED <<master, refreshed, jobs, docs, loop, since, attended, aborts, commands>>

\* Each pass looks at a job once: jobs end between two passes, the only ones
\* that matter being those whose end a schedule asks for.
Finish(j, state) ==
  /\ jobs[j].state = "running" /\ stage = "catalogue"
  /\ jobs[j].role \in Roles \cup {"equity", "sweep"} /\ state = "no_work" => jobs[j].role \in Roles
  /\ jobs' = [jobs EXCEPT ![j].state = state]
  /\ UNCHANGED <<today, master, refreshed, docs, loop, since, attended, aborts, commands>>

AdminPause(j) ==
  /\ commands < MaxCommands /\ commands' = commands + 1
  /\ jobs' = [jobs EXCEPT ![j].state = "paused", ![j].user = TRUE]
  /\ UNCHANGED <<today, master, refreshed, docs, loop, since, attended, aborts>>

AdminResume(j) ==
  /\ jobs[j].state = "paused" /\ commands < MaxCommands /\ commands' = commands + 1
  /\ jobs' = Resumed(j)
  /\ UNCHANGED <<today, master, refreshed, docs, loop, since, attended, aborts>>

Loop == Refresh \/ (\E x \in left : DecideItem(x)) \/ Pin \/ Advanced \/ StartJob \/ Record \/ WriteSchedules
Next ==
  \/ Loop \/ Abort \/ NewDay
  \/ \E j \in DOMAIN jobs :
       \/ \E state \in {"completed", "no_work"} : Finish(j, state)
       \/ jobs[j].role \in Pausable /\ (AdminPause(j) \/ AdminResume(j))

Spec == Init /\ [][Next]_vars

-----------------------------------------------------------------------------
(* Properties                                                              *)

\* Identities that a master added and no later one dropped, up to the current one.
Stays(i) == \A a \in 1 .. master : i \in Catalogues[a] => \A b \in a .. master : i \in Catalogues[b]
Listed(f) == IF lastCompared[f] = 0 THEN {} ELSE {i \in Catalogues[lastCompared[f]] : Stays(i)}
Requested(i, d, family, roles) ==
  \E j \in DOMAIN jobs : /\ jobs[j].role \in roles /\ jobs[j].family = family
                         /\ i \in jobs[j].scope /\ d \in jobs[j].from .. jobs[j].to - 1
                         /\ jobs[j].started \/ jobs[j].user
Window(t) ==
  LET slot == IF t[1] = "daily" THEN history[t[2]] ELSE equity[t[2]]
  IN IF slot = Unset THEN {} ELSE since[t] .. slot.end - 1

\* Through outages of any length, failing stages and new masters, each identity
\* that stays listed is requested for every day of the five years, of the daily
\* windows and of the recent catch-up, by a job that was started (or that the
\* admin paused), once the root was: "no day is silently skipped"
\* (data_system.py:125).
EveryDayRequested ==
  /\ \A f \in Families : \A i \in Listed(f) :
       LET root == jobs[backfill[f]]
           whole == {"backfill", "manual", "added"}
       IN root.started =>
            /\ \A d \in root.from .. root.to - 1 : Requested(i, d, f, whole)
            /\ \A d \in Window(<<"daily", f>>) : Requested(i, d, f, whole \cup {f})
            /\ i \in Traded => \A d \in Window(<<"equity", f>>) : Requested(i, d, f, whole \cup {"equity"})
  /\ \A i \in {x \in Core : \A k \in 1 .. master : x \in Catalogues[k]}, d \in Window(<<"daily", "core">>) :
       Requested(i, d, "daily", {"core"})
  /\ earlier # Unset => \A i \in Cash \cap Catalogues[earlier.cat], d \in 0 .. jobs[backfill["daily"]].from - 1 :
                         Requested(i, d, "daily", {"earlier"})

\* The jobs that a slot of stage s names.
NamedBy(s, slot) ==
  IF slot = Unset THEN {}
  ELSE IF s \in {"daily", "sweep"} THEN {slot.job} ELSE IF s \in {"equity", "earlier"} THEN slot.ids ELSE {}
Named ==
  (UNION {NamedBy("daily", history[r]) : r \in Roles}) \cup (UNION {NamedBy("equity", equity[f]) : f \in Families})
  \cup NamedBy("earlier", earlier) \cup (UNION {NamedBy("sweep", sweep[q]) : q \in Sweeps})

\* A job that a schedule document names was started before the document was
\* written, or the admin paused it: a later pass only looks whether it ended, so
\* a job named too early would wait for ever.
NothingForgotten == \A j \in Named : jobs[j].started \/ jobs[j].user

\* The same of the five-year roots.  A root that was created and not started when
\* the process died is found by the next pass and adopted as it is.
RootsStarted == backfill # Unset => \A f \in Families : jobs[backfill[f]].started \/ jobs[backfill[f]].user

\* A job the admin paused runs again only when the admin resumes it
\* (test_production_history.py: a manually paused plan must stay paused).
PauseHolds ==
  [][\A j \in DOMAIN jobs : jobs[j].user /\ jobs'[j].state = "running" => commands' > commands]_vars
=============================================================================
