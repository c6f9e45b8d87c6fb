-------------------------- MODULE ExecutionService --------------------------
(***************************************************************************)
(* backend/execution: the one path by which a trading signal can become a  *)
(* broker order.  An entry attempt holds _entry_lock, passes the gate,     *)
(* reserves its idempotency key in the journal, sends the request and      *)
(* interprets the answer.  The process may die between any two awaits and  *)
(* is rebuilt from the journal; startup_reconcile then asks the broker     *)
(* about every uncertain order.  The broker is an external actor.          *)
(*                                                                         *)
(* Data left out: prices, instruments, the per-attempt checks of the gate  *)
(* (health, session, price, instrument): they can only block an attempt,   *)
(* and AttemptBlocked allows that at any time.                             *)
(***************************************************************************)
EXTENDS Integers, FiniteSets

CONSTANTS
  Signals,              \* signal ids, one client_order_id each
  Quantity,             \* config.live_quantity
  MaxOpenPositions,     \* config.risk_max_open_positions
  MaxTradesPerDay,      \* config.risk_max_trades_per_day
  MaxDailyLoss,         \* config.risk_max_daily_loss
  PnlAmounts,           \* amounts an exit may realize
  AmbiguousErrors,      \* may an ExecutionError hide an accepted request?
  \* bounds of the model, not of the code
  MaxDay, MaxRestarts, MaxJournalFailures, MaxPnlRecords

ASSUME SignalsAssumption == IsFiniteSet(Signals)
ASSUME LimitsAssumption ==
  /\ Quantity \in Nat \ {0}
  /\ MaxOpenPositions \in Nat /\ MaxTradesPerDay \in Nat /\ MaxDailyLoss \in Nat
  /\ PnlAmounts \subseteq Int
  /\ AmbiguousErrors \in BOOLEAN
ASSUME BoundsAssumption ==
  /\ MaxDay \in Nat \ {0} /\ MaxRestarts \in Nat
  /\ MaxJournalFailures \in Nat /\ MaxPnlRecords \in Nat

VARIABLES
  orders,     \* ExecutionService.orders: client order id -> OrderRecord
  risk,       \* RiskState and _risk_day
  kill,       \* kill_switch
  recon,      \* reconciler.report.state
  journal,    \* the last committed row of ExecutionJournal
  entry,      \* the coroutine that holds _entry_lock, with its local record
  starter,    \* the startup_reconcile task, with its local record
  broker,     \* external: what the broker holds for each client order id
  sent,       \* requests put on the wire for each client order id
  today,      \* the IST calendar day
  life,       \* number of restarts so far
  failures,   \* journal writes that failed so far
  pnlRecords, \* calls of record_realized_pnl so far
  approval,   \* history: day and life in which each signal was approved
  committed   \* history: promises made durable (kill switch, breached days)

process == <<orders, risk, kill, recon, entry, starter>>
external == <<broker, sent, today>>
history == <<approval, committed>>
bounds == <<life, failures, pnlRecords>>
vars == <<process, journal, external, history, bounds>>

-----------------------------------------------------------------------------
(* Order records *)

BrokerStatus == {"PENDING", "PART_TRADED", "TRADED", "REJECTED", "CANCELLED"}
OrderStatus == {"REQUESTED", "SUBMITTED", "ACKNOWLEDGED", "PARTIALLY_FILLED",
                "FILLED", "REJECTED", "CANCELLED", "UNKNOWN"}
Uncertain == {"REQUESTED", "SUBMITTED", "ACKNOWLEDGED", "PARTIALLY_FILLED", "UNKNOWN"}

NoOrder == [status |-> "NONE", confirmed |-> FALSE, id |-> FALSE, filled |-> 0]
OrderRecord == [status : OrderStatus \cup {"NONE"}, confirmed : BOOLEAN,
                id : BOOLEAN, filled : 0 .. Quantity]

\* BROKER_STATUS_MAP.get(status, default); "" stands for an empty answer.  The
\* broker's TRANSIT and EXPIRED are left out: they act as PENDING and CANCELLED.
MapStatus(st, default) ==
  CASE st = "PENDING" -> "ACKNOWLEDGED"
    [] st = "PART_TRADED" -> "PARTIALLY_FILLED"
    [] st = "TRADED" -> "FILLED"
    [] st = "REJECTED" -> "REJECTED"
    [] st = "CANCELLED" -> "CANCELLED"
    [] OTHER -> default

Larger(a, b) == IF a >= b THEN a ELSE b
AddedFill(old, reported) == old + reported                 \* bug: taken as a delta
FilledQuantity(old, reported) == Larger(old, reported)

\* _apply_broker_state, the record it builds from a (possibly stale) record.
Applied(rec, reply) ==
  LET filled == FilledQuantity(rec.filled, reply.filled)
      mapped == MapStatus(reply.st, "UNKNOWN")
  IN [status |-> IF mapped = "FILLED" /\ filled \in 1 .. Quantity - 1
                 THEN "PARTIALLY_FILLED" ELSE mapped,
      confirmed |-> TRUE,
      id |-> rec.id \/ reply.st # "",
      filled |-> filled]

IsUncertain(rec) == rec # NoOrder /\ (rec.status \in Uncertain \/ ~rec.confirmed)

\* _refresh_exposure: which records hold a position slot.
ReleasedByStatus(rec) ==                     \* bug: a partial fill is released
  rec # NoOrder /\ (~rec.confirmed \/ rec.status \notin {"REJECTED", "CANCELLED"})
Reserves(rec) ==
  /\ rec # NoOrder
  /\ \/ rec.filled > 0
     \/ ~rec.confirmed
     \/ rec.status \notin {"REJECTED", "CANCELLED"}
FilledExposure(o) ==                         \* bug: pending entries hold no slot
  Cardinality({s \in Signals : o[s].filled > 0})
Exposure(o) == Cardinality({s \in Signals : Reserves(o[s])})
RefreshExposure(r, o) == [r EXCEPT !.open = Exposure(o)]

-----------------------------------------------------------------------------
(* The journal *)

Snapshot(o, r, k) == [orders |-> o, risk |-> r, kill |-> k]
NewRisk == [trades |-> 0, open |-> 0, pnl |-> 0, locked |-> FALSE, day |-> 0]

PersistedLater(o, r, k) ==                   \* bug: the commit is left out
  /\ orders' = o /\ risk' = r /\ kill' = k
  /\ UNCHANGED <<recon, failures, journal>>
\* _persist when the SQLite transaction commits ...
Persisted(o, r, k) ==
  /\ orders' = o /\ risk' = r /\ kill' = k
  /\ journal' = Snapshot(o, r, k)
  /\ UNCHANGED <<recon, failures>>
\* ... and when it raises: memory keeps the change, entries are fenced.
PersistFailed(o, r) ==
  /\ failures < MaxJournalFailures
  /\ failures' = failures + 1
  /\ orders' = o /\ risk' = r /\ kill' = TRUE
  /\ recon' = "PENDING"
  /\ UNCHANGED journal

\* _update: store the record, refresh the exposure, persist.
WithRecord(s, rec) == [orders EXCEPT ![s] = rec]
Updated(s, rec) ==
  LET o == WithRecord(s, rec) IN Persisted(o, RefreshExposure(risk, o), kill)
UpdateFailed(s, rec) ==
  LET o == WithRecord(s, rec) IN PersistFailed(o, RefreshExposure(risk, o))

-----------------------------------------------------------------------------
(* The process: start, restart, day rollover *)

IdleEntry == [pc |-> "idle", signal |-> "none", rec |-> NoOrder]
EntryAt(pc, s, rec) == [pc |-> pc, signal |-> s, rec |-> rec]
StarterAt(pc, todo) == [pc |-> pc, todo |-> todo, signal |-> "none",
                        rec |-> NoOrder, expected |-> [s \in Signals |-> 0]]

UnsentBroker == [st |-> "none", filled |-> 0, net |-> 0]

Init ==
  /\ orders = [s \in Signals |-> NoOrder]
  /\ risk = NewRisk
  /\ kill = FALSE
  /\ recon = "PENDING"
  /\ journal = Snapshot(orders, NewRisk, FALSE)
  /\ entry = IdleEntry
  /\ starter = StarterAt("refresh", {})
  /\ broker = [s \in Signals |-> UnsentBroker]
  /\ sent = [s \in Signals |-> 0]
  /\ today = 1 /\ life = 0 /\ failures = 0 /\ pnlRecords = 0
  /\ approval = [s \in Signals |-> [day |-> 0, life |-> 0]]
  /\ committed = [kill |-> FALSE, breached |-> {}, lossDays |-> {}]

RestoredKill == journal.kill
ForgottenKill == FALSE                      \* bug: kill switch not restored
RestartKill == RestoredKill

\* The process dies at any point and __init__ rebuilds it from the journal;
\* Pipeline.start then runs startup_reconcile again.  Whatever was on the
\* wire stays there.
Restart ==
  /\ life < MaxRestarts
  /\ life' = life + 1
  /\ orders' = journal.orders
  /\ risk' = RefreshExposure(journal.risk, journal.orders)
  /\ kill' = RestartKill
  /\ recon' = "PENDING"
  /\ entry' = IdleEntry
  /\ starter' = StarterAt("refresh",
                  {s \in Signals : IsUncertain(journal.orders[s])})
  /\ UNCHANGED <<journal, external, history, failures, pnlRecords>>

NextDay ==
  /\ today < MaxDay
  /\ today' = today + 1
  /\ UNCHANGED <<process, journal, broker, sent, history, bounds>>

\* _attempt_entry, first lines: the first decision of a new day resets the
\* daily counters (but neither the orders nor the exposure).
ResetDay(r) ==
  [trades |-> 0, open |-> r.open, pnl |-> 0, locked |-> FALSE, day |-> today]
RolledOver(r) == IF r.day \notin {0, today} THEN ResetDay(r) ELSE [r EXCEPT !.day = today]

-----------------------------------------------------------------------------
(* attempt_entry *)

Loss(pnl) == IF pnl < 0 THEN -pnl ELSE 0
\* RiskEngine.evaluate on a valid price and quantity.
RiskApproves(r) ==
  /\ r.trades < MaxTradesPerDay
  /\ r.open < MaxOpenPositions
  /\ ~(r.locked \/ Loss(r.pnl) > MaxDailyLoss)

GateIgnoringKeys(s, r) ==                   \* bug: duplicate check dropped
  /\ ~kill /\ RiskApproves(r) /\ recon = "OK"
\* can_execute_order, the conjuncts that read the service's own state.
CanExecuteOrder(s, r) ==
  /\ ~kill
  /\ orders[s] = NoOrder
  /\ RiskApproves(r)
  /\ recon = "OK"

\* The attempt is blocked by the gate; only the rollover remains.
AttemptBlocked ==
  /\ entry.pc = "idle"
  /\ risk' = RolledOver(risk)
  /\ UNCHANGED <<orders, kill, recon, entry, starter, journal, external, history, bounds>>

Requested == [status |-> "REQUESTED", confirmed |-> FALSE, id |-> FALSE, filled |-> 0]

\* _submit up to the broker call: reserve the key and the slot, count the
\* trade, commit the journal.  A failed commit raises and nothing is sent.
ReserveRisk(r, o) == [RefreshExposure(r, o) EXCEPT !.trades = @ + 1]
Reserved(r, o) == ReserveRisk(r, o)

Approve(s) ==
  LET r == RolledOver(risk)
      o == WithRecord(s, Requested)
  IN
  /\ entry.pc = "idle"
  /\ CanExecuteOrder(s, r)
  /\ \/ /\ Persisted(o, Reserved(r, o), kill)
        /\ entry' = EntryAt("submit", s, Requested)
     \/ /\ PersistFailed(o, Reserved(r, o))
        /\ entry' = IdleEntry
  /\ approval' = [approval EXCEPT ![s] = [day |-> today, life |-> life]]
  /\ UNCHANGED <<starter, external, committed, life, pnlRecords>>

\* adapter.submit_order puts the request on the wire, once per call.
Send(s) ==
  /\ entry.pc = "submit" /\ entry.signal = s
  /\ entry' = [entry EXCEPT !.pc = "wait"]
  /\ sent' = [sent EXCEPT ![s] = @ + 1]
  /\ broker' = IF broker[s].st = "none"
               THEN [broker EXCEPT ![s].st = "wire"] ELSE broker
  /\ UNCHANGED <<orders, risk, kill, recon, starter, journal, today, history, bounds>>

\* _update of the local record, then the coroutine goes to pc; if the journal
\* write raises, the exception leaves attempt_entry and frees the lock.
UpdateEntry(s, rec, pc) ==
  /\ \/ /\ Updated(s, rec)
        /\ entry' = IF pc = "idle" THEN IdleEntry ELSE EntryAt(pc, s, rec)
     \/ /\ UpdateFailed(s, rec)
        /\ entry' = IdleEntry
  /\ UNCHANGED <<starter, history, life, pnlRecords, sent, today>>

Acknowledged(s) ==
  /\ entry.pc = "wait" /\ entry.signal = s
  /\ broker[s].st \in BrokerStatus
  /\ UpdateEntry(s, [entry.rec EXCEPT !.status = MapStatus(broker[s].st, "SUBMITTED"),
                                      !.id = TRUE], "confirm")
  /\ UNCHANGED broker

\* ExecutionTimeout: transport timeout, connection failure or an answer
\* without orderId.  Whether the broker has the request is unknown.
TimedOut(s) ==
  /\ entry.pc \in {"submit", "wait"} /\ entry.signal = s
  /\ UpdateEntry(s, [entry.rec EXCEPT !.status = "UNKNOWN"], "correlate")
  /\ UNCHANGED broker

\* ExecutionError: the adapter reports a refusal (missing credentials, HTTP
\* status >= 400).  If AmbiguousErrors, also a 5xx or a broken response to a
\* request the broker did accept.
Rejection(rec) == [rec EXCEPT !.status = "REJECTED", !.confirmed = TRUE]
Refused(s) ==
  /\ entry.pc \in {"submit", "wait"} /\ entry.signal = s
  /\ \/ /\ broker[s].st \in {"none", "wire", "REJECTED"}
        /\ broker' = IF broker[s].st = "wire"
                     THEN [broker EXCEPT ![s].st = "refused"] ELSE broker
     \/ /\ AmbiguousErrors /\ entry.pc = "wait"
        /\ UNCHANGED broker
  /\ UpdateEntry(s, Rejection(entry.rec), "idle")

\* Any other exception (an answer that is not JSON) leaves attempt_entry.
SubmitRaised(s) ==
  /\ entry.pc = "wait" /\ entry.signal = s
  /\ entry' = IdleEntry
  /\ UNCHANGED <<orders, risk, kill, recon, starter, journal, external, history, bounds>>

\* What a status query can answer: the broker's record, or an empty body.
Blank == [st |-> "", filled |-> 0]
Replies(s) ==
  IF broker[s].st \in BrokerStatus
  THEN {[st |-> broker[s].st, filled |-> broker[s].filled], Blank} ELSE {}

\* get_order after an acknowledgement.
Confirmed(s) ==
  /\ entry.pc = "confirm" /\ entry.signal = s
  /\ \E reply \in Replies(s) : UpdateEntry(s, Applied(entry.rec, reply), "idle")
  /\ UNCHANGED broker

\* get_order_by_correlation after a timeout; the adapter turns an empty body
\* into None.
Correlated(s) ==
  /\ entry.pc = "correlate" /\ entry.signal = s
  /\ \E reply \in Replies(s) \ {Blank} :
       UpdateEntry(s, Applied(entry.rec, reply), "idle")
  /\ UNCHANGED broker

QueryRepeated ==                             \* bug: the query is retried for ever
  entry.pc \in {"confirm", "correlate"} /\ UNCHANGED vars
\* Either query fails or finds nothing: the record stays as it is.
QueryFailed ==
  /\ entry.pc \in {"confirm", "correlate"}
  /\ entry' = IdleEntry
  /\ UNCHANGED <<orders, risk, kill, recon, starter, journal, external, history, bounds>>

-----------------------------------------------------------------------------
(* startup_reconcile, which does not take _entry_lock *)

\* refresh_order reads the record, then awaits the broker.
BeginRefresh(s) ==
  /\ starter.pc = "refresh" /\ s \in starter.todo
  /\ starter' = [starter EXCEPT !.pc = "query", !.signal = s, !.rec = orders[s],
                                !.todo = @ \ {s}]
  /\ UNCHANGED <<orders, risk, kill, recon, entry, journal, external, history, bounds>>

\* The broker's answer is applied to the record read before the await; a
\* failed journal write ends the task.
NextRefresh == [starter EXCEPT !.pc = "refresh", !.signal = "none", !.rec = NoOrder]
Refreshed ==
  /\ starter.pc = "query"
  /\ LET s == starter.signal IN
     \E reply \in Replies(s) \ (IF starter.rec.id THEN {} ELSE {Blank}) :
       \/ /\ Updated(s, Applied(starter.rec, reply))
          /\ starter' = NextRefresh
       \/ /\ UpdateFailed(s, Applied(starter.rec, reply))
          /\ starter' = StarterAt("done", {})
  /\ UNCHANGED <<entry, external, history, life, pnlRecords>>

RefreshFailed ==
  /\ starter.pc = "query"
  /\ starter' = NextRefresh
  /\ UNCHANGED <<orders, risk, kill, recon, entry, journal, external, history, bounds>>

\* After the loop: unresolved orders keep entries blocked, otherwise the
\* expected positions are computed and the broker's are requested.
NoneUncertain == \A s \in Signals : ~IsUncertain(orders[s])
AssumeResolved == TRUE                      \* bug: unresolved orders ignored
AllResolved == NoneUncertain

FinishRefreshing ==
  /\ starter.pc = "refresh" /\ starter.todo = {}
  /\ IF AllResolved
     THEN /\ starter' = [starter EXCEPT !.pc = "positions",
                                        !.expected = [s \in Signals |-> orders[s].filled]]
          /\ UNCHANGED recon
     ELSE /\ starter' = StarterAt("done", {})
          /\ recon' = "PENDING"
  /\ UNCHANGED <<orders, risk, kill, entry, journal, external, history, bounds>>

\* reconcile: compare the broker's net quantity of every contract with the
\* expected one, or stay PENDING if the query fails.
PositionsAgree == \A s \in Signals : broker[s].net = starter.expected[s]
ComparePositions ==
  /\ starter.pc = "positions"
  /\ recon' = IF PositionsAgree THEN "OK" ELSE "MISMATCH"
  /\ starter' = StarterAt("done", {})
  /\ UNCHANGED <<orders, risk, kill, entry, journal, external, history, bounds>>

PositionsFailed ==
  /\ starter.pc = "positions"
  /\ recon' = "PENDING"
  /\ starter' = StarterAt("done", {})
  /\ UNCHANGED <<orders, risk, kill, entry, journal, external, history, bounds>>

-----------------------------------------------------------------------------
(* Operator and exit accounting *)

EngageKillSwitch ==
  /\ \/ /\ Persisted(orders, risk, TRUE)
        /\ committed' = [committed EXCEPT !.kill = TRUE]
     \/ /\ PersistFailed(orders, risk)
        /\ UNCHANGED committed
  /\ UNCHANGED <<entry, starter, external, approval, life, pnlRecords>>

\* record_realized_pnl: never unlocks, never looks at the calendar.
WithPnl(r, amount) ==
  LET pnl == r.pnl + amount
  IN [r EXCEPT !.pnl = pnl, !.locked = @ \/ Loss(pnl) > MaxDailyLoss]

RecordRealizedPnl(amount) ==
  LET r == WithPnl(risk, amount)
      riskDay == IF risk.day = 0 THEN today ELSE risk.day
      overLimit(d) == IF r.locked THEN {d} ELSE {}
  IN
  /\ pnlRecords < MaxPnlRecords
  /\ pnlRecords' = pnlRecords + 1
  /\ \/ /\ Persisted(orders, r, kill)
        /\ committed' = [committed EXCEPT
             !.breached = @ \cup overLimit(riskDay),
             !.lossDays = @ \cup (IF Loss(amount) > MaxDailyLoss THEN {today} ELSE {})]
     \/ /\ PersistFailed(orders, r)
        /\ UNCHANGED committed
  /\ UNCHANGED <<entry, starter, external, approval, life>>

-----------------------------------------------------------------------------
(* The broker (external) *)

BrokerStep(s, b) ==
  /\ broker' = [broker EXCEPT ![s] = b]
  /\ UNCHANGED <<process, journal, sent, today, history, bounds>>

\* A request on the wire is accepted, rejected, or lost.
Deliver(s) ==
  /\ broker[s].st = "wire"
  /\ \E st \in {"PENDING", "REJECTED", "refused"} :
       BrokerStep(s, [broker[s] EXCEPT !.st = st])

Fill(s) ==
  /\ broker[s].st \in {"PENDING", "PART_TRADED"}
  /\ \E q \in broker[s].filled + 1 .. Quantity :
       BrokerStep(s, [st |-> IF q = Quantity THEN "TRADED" ELSE "PART_TRADED",
                      filled |-> q, net |-> broker[s].net + (q - broker[s].filled)])

Cancel(s) ==
  /\ broker[s].st \in {"PENDING", "PART_TRADED"}
  /\ BrokerStep(s, [broker[s] EXCEPT !.st = "CANCELLED"])

\* The position is closed outside this service (manual exit, square-off).
SquareOff(s) ==
  /\ broker[s].net > 0
  /\ BrokerStep(s, [broker[s] EXCEPT !.net = 0])

-----------------------------------------------------------------------------

EntryStep(s) ==
  \/ Acknowledged(s) \/ TimedOut(s) \/ Refused(s) \/ SubmitRaised(s)
  \/ Confirmed(s) \/ Correlated(s)
StarterStep ==
  \/ \E s \in Signals : BeginRefresh(s)
  \/ Refreshed \/ RefreshFailed \/ FinishRefreshing
  \/ ComparePositions \/ PositionsFailed

Next ==
  \/ AttemptBlocked
  \/ \E s \in Signals : Approve(s) \/ Send(s) \/ EntryStep(s)
  \/ QueryFailed
  \/ StarterStep
  \/ EngageKillSwitch
  \/ \E amount \in PnlAmounts : RecordRealizedPnl(amount)
  \/ \E s \in Signals : Deliver(s) \/ Fill(s) \/ Cancel(s) \/ SquareOff(s)
  \/ Restart
  \/ NextDay

\* Every HTTP call of the adapter has a timeout (TIMEOUT_SECONDS), so a
\* started attempt and the startup task keep moving.
Fairness ==
  /\ WF_vars(\E s \in Signals : EntryStep(s))
  /\ WF_vars(QueryFailed)
  /\ WF_vars(StarterStep)

Spec == Init /\ [][Next]_vars
FairSpec == Spec /\ Fairness

-----------------------------------------------------------------------------
(* Properties *)

RiskRecord == [trades : Nat, open : Nat, pnl : Int, locked : BOOLEAN, day : 0 .. MaxDay]
Pcs == {"idle", "submit", "wait", "correlate", "confirm"}

\* Every variable has the shape the code gives it.
TypeOK ==
  /\ orders \in [Signals -> OrderRecord]
  /\ risk \in RiskRecord
  /\ kill \in BOOLEAN
  /\ recon \in {"PENDING", "OK", "MISMATCH"}
  /\ journal \in [orders : [Signals -> OrderRecord], risk : RiskRecord, kill : BOOLEAN]
  /\ entry \in [pc : Pcs, signal : Signals \cup {"none"}, rec : OrderRecord]
  /\ starter \in [pc : {"refresh", "query", "positions", "done"}, todo : SUBSET Signals,
                  signal : Signals \cup {"none"}, rec : OrderRecord,
                  expected : [Signals -> 0 .. Quantity]]
  /\ broker \in [Signals -> [st : BrokerStatus \cup {"none", "wire", "refused"},
                             filled : 0 .. Quantity, net : 0 .. Quantity]]
  /\ sent \in [Signals -> Nat]
  /\ today \in 1 .. MaxDay /\ life \in 0 .. MaxRestarts
  /\ failures \in 0 .. MaxJournalFailures /\ pnlRecords \in 0 .. MaxPnlRecords
  /\ approval \in [Signals -> [day : 0 .. MaxDay, life : 0 .. MaxRestarts]]
  /\ committed \in [kill : BOOLEAN, breached : SUBSET (0 .. MaxDay),
                    lossDays : SUBSET (0 .. MaxDay)]

\* A signal causes at most one broker request, whatever times out, fails,
\* crashes or is repeated ("one submission per signal").
AtMostOnce == \A s \in Signals : sent[s] <= 1

\* A request is only ever on the wire for a key the journal already holds.
KeyIsDurable == \A s \in Signals : sent[s] > 0 => journal.orders[s] # NoOrder

\* What the broker may still fill, or has filled.
Live(s) == broker[s].filled > 0 \/ broker[s].st \in {"wire", "PENDING", "PART_TRADED"}

\* "Each pending/unknown entry reserves a slot; any fill retains its slot":
\* whatever is alive at the broker holds a slot in the service.
SlotRetained == \A s \in Signals : Live(s) => Reserves(orders[s])

\* The broker never carries more positions and working orders of this service
\* than risk_max_open_positions.
RealExposureBounded == Cardinality({s \in Signals : Live(s)}) <= MaxOpenPositions

\* No day sees more broker requests than risk_max_trades_per_day, crashes and
\* restarts included.
TradesPerDayBounded ==
  \A d \in 1 .. today :
    Cardinality({s \in Signals : sent[s] > 0 /\ approval[s].day = d}) <= MaxTradesPerDay

\* While entries are allowed, every order inherited from an earlier life of
\* the process has a broker-confirmed final state.
RestoredOrdersResolved ==
  recon = "OK" =>
    \A s \in Signals : orders[s] # NoOrder /\ approval[s].life < life
                         => ~IsUncertain(orders[s])

\* startup_reconcile and an entry attempt never run their awaits at the same
\* time, although only the attempt takes _entry_lock.
StartupExcludesEntry == entry.pc # "idle" => starter.pc = "done"

\* A restart hands nothing over unresolved and nothing to two coroutines.
RestartSafe == RestoredOrdersResolved /\ StartupExcludesEntry

Approves == approval' # approval

\* A kill switch whose journal write succeeded stops entries for good, in this
\* process and in every later one.
KillSwitchSticks == [][committed.kill => ~Approves]_vars

\* Once the day's recorded loss has passed the limit nothing more is approved
\* on that risk day, whatever is recorded or restarted afterwards.
LossLockHolds == [][Approves => today \notin committed.breached]_vars

\* The limits of the risk engine hold: neither the day's count nor a lock is lost
\* by a restart, a day change or a failed write of the journal.
LimitsHold == []TradesPerDayBounded /\ KillSwitchSticks /\ LossLockHolds

\* "0 => any realized loss locks execution": a loss over the limit, recorded
\* today, blocks the rest of today.
RecordedLossLocksToday == [][Approves => today \notin committed.lossDays]_vars

\* Within one life of the process a filled quantity never decreases.
FillsMonotone ==
  [][life' = life => \A s \in Signals : orders'[s].filled >= orders[s].filled]_vars

\* A started attempt always gives _entry_lock back.
EntryLockReleased == (entry.pc # "idle") ~> (entry.pc = "idle")

\* startup_reconcile always comes to an end (or the process is restarted).
StartupEnds == (starter.pc # "done") ~> (starter.pc = "done")

\* Whatever the broker and the journal do, an attempt and a startup come to an end.
AttemptsEnd == EntryLockReleased /\ StartupEnds

\* The abstract ledger: a durable reservation, then one request.
Ledger == INSTANCE OrderLedger WITH
  reserved <- {s \in Signals : journal.orders[s] # NoOrder}, sent <- sent
ImplementsLedger == Ledger!Spec
=============================================================================
