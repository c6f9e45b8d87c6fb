---------------------- MODULE ExecutionService_proofs ----------------------
(***************************************************************************)
(* Safety of ExecutionService for every set of signals and every limit.    *)
(*                                                                         *)
(* The inductive invariant is built in layers, each proved from the ones   *)
(* before it: the types, the idempotency ledger, the exclusion of startup  *)
(* and entry, the local copies of order records, the slots, the locks, the *)
(* refinement of OrderLedger, the trades of a day.                         *)
(***************************************************************************)
EXTENDS ExecutionService, FiniteSetTheorems, TLAPS

(* Layer 1: types, with the two facts that make them inductive. *)
NetWithinFilled == \A s \in Signals : broker[s].net <= broker[s].filled
CoroutinesHaveSignal ==
  /\ entry.pc # "idle" => entry.signal \in Signals
  /\ starter.pc = "query" => starter.signal \in Signals
TypeInv == TypeOK /\ NetWithinFilled /\ CoroutinesHaveSignal

(* Layer 2: a key is on the wire once, and only after the journal has it. *)
JournalKnowsLess ==
  \A s \in Signals : journal.orders[s] # NoOrder => orders[s] # NoOrder
SubmitIsFresh ==
  entry.pc = "submit" =>
    sent[entry.signal] = 0 /\ journal.orders[entry.signal] # NoOrder
OneKeyBehind ==
  /\ ~kill => \A s \in Signals : orders[s] # NoOrder => journal.orders[s] # NoOrder
  /\ \A s, t \in Signals : /\ orders[s] # NoOrder /\ journal.orders[s] = NoOrder
                          /\ orders[t] # NoOrder /\ journal.orders[t] = NoOrder
                          => s = t
CoroutinesKnowKey ==
  /\ entry.pc # "idle" => orders[entry.signal] # NoOrder
  /\ starter.pc = "query" => orders[starter.signal] # NoOrder
  /\ \A s \in starter.todo : orders[s] # NoOrder
LedgerInv == CoroutinesKnowKey /\ OneKeyBehind /\ AtMostOnce /\ KeyIsDurable /\ JournalKnowsLess /\ SubmitIsFresh

(* Layer 3: entries run only after startup_reconcile has ended. *)
OkMeansDone == recon = "OK" => starter.pc = "done"
StartupInv == OkMeansDone /\ StartupExcludesEntry

(* Layer 4: no coroutine holds a stale record across its await. *)
Unconfirmed(rec) == rec # NoOrder /\ rec.confirmed = FALSE
EntryRecordFresh ==
  entry.pc # "idle" => entry.rec = orders[entry.signal] /\ Unconfirmed(entry.rec)
SubmitRecord ==
  entry.pc = "submit" => /\ orders[entry.signal] = Requested
                         /\ journal.orders[entry.signal] = Requested
StarterRecordFresh ==
  starter.pc = "query" => starter.rec = orders[starter.signal]
RecordInv == EntryRecordFresh /\ SubmitRecord /\ StarterRecordFresh

(* Layer 5: a released record belongs to an order that is over. *)
Released(rec) == rec # NoOrder /\ ~Reserves(rec)
Unfilled(s) == broker[s].st \in {"none", "wire", "refused", "PENDING", "REJECTED"}
                 => broker[s].filled = 0
Unsent(s) == sent[s] = 0 => broker[s].st = "none"
ReleasedIsOver(s) ==
  Released(orders[s]) \/ Released(journal.orders[s]) => ~Live(s)
SlotInv == \A s \in Signals : Unfilled(s) /\ Unsent(s) /\ ReleasedIsOver(s)

(* Layer 6: the slots counted are the slots reserved, and within the limit. *)
StarterHoldsSlots ==
  /\ starter.pc = "done" => starter.todo = {}
  /\ starter.pc = "query" => /\ starter.signal \notin starter.todo
                             /\ Reserves(orders[starter.signal])
  /\ \A s \in starter.todo : Reserves(orders[s])
ExposureInv ==
  /\ StarterHoldsSlots
  /\ risk.open = Exposure(orders)
  /\ Exposure(orders) <= MaxOpenPositions
  /\ Exposure(journal.orders) <= MaxOpenPositions

(* Layer 7: orders of an earlier life are settled before entries are allowed. *)
EntryIsOfThisLife == entry.pc # "idle" => approval[entry.signal].life = life
PositionsAfterResolution == starter.pc = "positions" => NoneUncertain
RestoredInv == EntryIsOfThisLife /\ PositionsAfterResolution /\ RestoredOrdersResolved

(* Layer 8: what was promised durably is in the journal and in memory. *)
KillInv == committed.kill => kill /\ journal.kill
LockedOn(r, d) == \/ r.day = 0 /\ r.locked
                  \/ d < r.day
                  \/ d = r.day /\ r.locked
LockInv ==
  /\ risk.day <= today /\ journal.risk.day <= today
  /\ \A d \in committed.breached :
       d <= today /\ LockedOn(risk, d) /\ LockedOn(journal.risk, d)

-----------------------------------------------------------------------------
(* Order records *)

\* The two constant records have the shape of an OrderRecord.
LEMMA ConstantRecords == NoOrder \in OrderRecord /\ Requested \in OrderRecord /\ Requested # NoOrder
BY LimitsAssumption DEF NoOrder, Requested, OrderRecord, OrderStatus

Answers == [st : BrokerStatus \cup {""}, filled : 0 .. Quantity]

\* A broker's answer names a known status and at most the ordered quantity.
LEMMA RepliesType ==
  ASSUME TypeOK, NEW s \in Signals, NEW reply \in Replies(s)
  PROVE  /\ reply \in Answers
         /\ reply.st # "" => reply.st = broker[s].st /\ reply.filled = broker[s].filled
<1>1. broker[s].filled \in 0 .. Quantity
  BY DEF TypeOK
<1>2. PICK st \in BrokerStatus : st = broker[s].st
  BY DEF Replies
<1>3. reply = Blank \/ reply = [st |-> st, filled |-> broker[s].filled]
  BY <1>2 DEF Replies
<1>4. Blank \in Answers /\ Blank.st = ""
  <2>1. 0 \in 0 .. Quantity
    BY LimitsAssumption
  <2> QED
    BY <2>1 DEF Blank, Answers
<1>5. [st |-> st, filled |-> broker[s].filled] \in Answers
  BY <1>1 DEF Answers
<1>6. CASE reply = Blank
  BY <1>4, <1>6
<1>7. CASE reply = [st |-> st, filled |-> broker[s].filled]
  BY <1>2, <1>5, <1>7
<1> QED
  BY <1>3, <1>6, <1>7

\* max() stays within the order and loses neither argument.
LEMMA LargerBounds ==
  ASSUME NEW a \in 0 .. Quantity, NEW b \in 0 .. Quantity
  PROVE  Larger(a, b) \in 0 .. Quantity /\ Larger(a, b) >= a /\ Larger(a, b) >= b
BY LimitsAssumption DEF Larger

\* BROKER_STATUS_MAP names a final failure only for one the broker named.
LEMMA MapStatusType ==
  ASSUME NEW st \in BrokerStatus \cup {""}, NEW default \in {"UNKNOWN", "SUBMITTED"}
  PROVE  /\ MapStatus(st, default) \in OrderStatus
         /\ MapStatus(st, default) = "REJECTED" => st = "REJECTED"
         /\ MapStatus(st, default) = "CANCELLED" => st = "CANCELLED"
BY DEF MapStatus, OrderStatus, BrokerStatus

\* _apply_broker_state keeps the shape, confirms the record and never loses a fill.
LEMMA AppliedType ==
  ASSUME NEW rec \in OrderRecord, NEW reply \in Answers
  PROVE  /\ Applied(rec, reply) \in OrderRecord
         /\ Applied(rec, reply) # NoOrder
         /\ Applied(rec, reply).confirmed = TRUE
         /\ Applied(rec, reply).filled >= rec.filled
         /\ Applied(rec, reply).filled >= reply.filled
         /\ Applied(rec, reply).status = "REJECTED" => reply.st = "REJECTED"
         /\ Applied(rec, reply).status = "CANCELLED" => reply.st = "CANCELLED"
<1> DEFINE filled == FilledQuantity(rec.filled, reply.filled)
           mapped == MapStatus(reply.st, "UNKNOWN")
           status == IF mapped = "FILLED" /\ filled \in 1 .. Quantity - 1
                     THEN "PARTIALLY_FILLED" ELSE mapped
           id == rec.id \/ reply.st # ""
<1>1. filled \in 0 .. Quantity /\ filled >= rec.filled /\ filled >= reply.filled
  BY LargerBounds DEF FilledQuantity, OrderRecord, Answers
<1>2. /\ mapped \in OrderStatus
      /\ mapped = "REJECTED" => reply.st = "REJECTED"
      /\ mapped = "CANCELLED" => reply.st = "CANCELLED"
  BY MapStatusType DEF Answers
<1>3. /\ status \in OrderStatus
      /\ status = "REJECTED" => reply.st = "REJECTED"
      /\ status = "CANCELLED" => reply.st = "CANCELLED"
  BY <1>2 DEF OrderStatus
<1>4. id \in BOOLEAN
  BY DEF OrderRecord
<1>5. Applied(rec, reply) = [status |-> status, confirmed |-> TRUE, id |-> id, filled |-> filled]
  BY DEF Applied
<1> HIDE DEF filled, mapped, status, id
<1>6. status # "NONE"
  BY <1>3 DEF OrderStatus
<1> QED
  BY <1>1, <1>3, <1>4, <1>5, <1>6 DEF OrderRecord, NoOrder

\* The number of reserved slots is a natural number, at most one per signal.
LEMMA ExposureType ==
  ASSUME NEW o
  PROVE  /\ IsFiniteSet({s \in Signals : Reserves(o[s])})
         /\ Exposure(o) \in Nat
<1>1. IsFiniteSet({s \in Signals : Reserves(o[s])})
  BY SignalsAssumption, FS_Subset
<1> QED
  BY <1>1, FS_CardinalityType DEF Exposure

\* Storing one record leaves the others alone.
LEMMA WithRecordType ==
  ASSUME TypeOK, NEW s \in Signals, NEW rec \in OrderRecord
  PROVE  /\ WithRecord(s, rec) \in [Signals -> OrderRecord]
         /\ \A t \in Signals : WithRecord(s, rec)[t] = IF t = s THEN rec ELSE orders[t]
BY DEF WithRecord, TypeOK

\* The operators that rewrite RiskState keep its shape.
LEMMA RiskOperatorsType ==
  ASSUME TypeOK, NEW r \in RiskRecord, NEW o
  PROVE  /\ RefreshExposure(r, o) \in RiskRecord
         /\ RolledOver(r) \in RiskRecord
         /\ Reserved(r, o) \in RiskRecord
         /\ \A amount \in Int : WithPnl(r, amount) \in RiskRecord
<1>1. today \in 0 .. MaxDay
  BY BoundsAssumption DEF TypeOK
<1>2. Exposure(o) \in Nat
  BY ExposureType
<1>3. RefreshExposure(r, o) \in RiskRecord
  BY <1>2 DEF RefreshExposure, RiskRecord
<1>4. RolledOver(r) \in RiskRecord
  <2>1. ResetDay(r) \in RiskRecord
    BY <1>1 DEF ResetDay, RiskRecord
  <2>2. [r EXCEPT !.day = today] \in RiskRecord
    BY <1>1 DEF RiskRecord
  <2> QED
    BY <2>1, <2>2 DEF RolledOver
<1>5. Reserved(r, o) \in RiskRecord
  BY <1>3 DEF Reserved, ReserveRisk, RiskRecord
<1>6. \A amount \in Int : WithPnl(r, amount) \in RiskRecord
  <2> SUFFICES ASSUME NEW amount \in Int PROVE WithPnl(r, amount) \in RiskRecord
    OBVIOUS
  <2> DEFINE pnl == r.pnl + amount
             locked == r.locked \/ Loss(pnl) > MaxDailyLoss
  <2>1. pnl \in Int
    BY DEF RiskRecord
  <2>2. locked \in BOOLEAN
    BY Zenon DEF RiskRecord
  <2>3. WithPnl(r, amount) = [r EXCEPT !.pnl = pnl, !.locked = locked]
    BY DEF WithPnl
  <2> HIDE DEF pnl, locked
  <2> QED
    BY <2>1, <2>2, <2>3 DEF RiskRecord
<1> QED
  BY <1>3, <1>4, <1>5, <1>6

-----------------------------------------------------------------------------
(* Layer 1: type correctness *)

CoreType ==
  /\ orders \in [Signals -> OrderRecord]
  /\ risk \in RiskRecord
  /\ kill \in BOOLEAN
  /\ recon \in {"PENDING", "OK", "MISMATCH"}
  /\ journal \in [orders : [Signals -> OrderRecord], risk : RiskRecord, kill : BOOLEAN]
  /\ failures \in 0 .. MaxJournalFailures
EntryType ==
  /\ entry \in [pc : Pcs, signal : Signals \cup {"none"}, rec : OrderRecord]
  /\ entry.pc # "idle" => entry.signal \in Signals
StarterType ==
  /\ starter \in [pc : {"refresh", "query", "positions", "done"}, todo : SUBSET Signals,
                  signal : Signals \cup {"none"}, rec : OrderRecord,
                  expected : [Signals -> 0 .. Quantity]]
  /\ starter.pc = "query" => starter.signal \in Signals
BrokerType ==
  /\ broker \in [Signals -> [st : BrokerStatus \cup {"none", "wire", "refused"},
                             filled : 0 .. Quantity, net : 0 .. Quantity]]
  /\ \A s \in Signals : broker[s].net <= broker[s].filled
  /\ sent \in [Signals -> Nat]
HistoryType ==
  /\ today \in 1 .. MaxDay /\ life \in 0 .. MaxRestarts
  /\ pnlRecords \in 0 .. MaxPnlRecords
  /\ approval \in [Signals -> [day : 0 .. MaxDay, life : 0 .. MaxRestarts]]
  /\ committed \in [kill : BOOLEAN, breached : SUBSET (0 .. MaxDay),
                    lossDays : SUBSET (0 .. MaxDay)]

LEMMA TypeParts ==
  TypeInv <=> CoreType /\ EntryType /\ StarterType /\ BrokerType /\ HistoryType
BY DEF TypeInv, TypeOK, NetWithinFilled, CoroutinesHaveSignal,
       CoreType, EntryType, StarterType, BrokerType, HistoryType

LEMMA TypePartsNext ==
  TypeInv' <=> CoreType' /\ EntryType' /\ StarterType' /\ BrokerType' /\ HistoryType'
BY DEF TypeInv, TypeOK, NetWithinFilled, CoroutinesHaveSignal,
       CoreType, EntryType, StarterType, BrokerType, HistoryType

\* A part whose variables a step leaves alone keeps its type.
LEMMA TypeStutter ==
  /\ TypeInv /\ UNCHANGED <<orders, risk, kill, recon, journal, failures>> => CoreType'
  /\ TypeInv /\ UNCHANGED entry => EntryType'
  /\ TypeInv /\ UNCHANGED starter => StarterType'
  /\ TypeInv /\ UNCHANGED <<broker, sent>> => BrokerType'
  /\ TypeInv /\ UNCHANGED <<today, life, pnlRecords, approval, committed>> => HistoryType'
BY TypeParts DEF CoreType, EntryType, StarterType, BrokerType, HistoryType

\* _persist keeps the types, whether the write commits ...
LEMMA PersistedCore ==
  ASSUME TypeInv, NEW o \in [Signals -> OrderRecord], NEW r \in RiskRecord,
         NEW k \in BOOLEAN, Persisted(o, r, k)
  PROVE  CoreType'
BY TypeParts DEF CoreType, Persisted, Snapshot

\* ... or raises.
LEMMA PersistFailedCore ==
  ASSUME TypeInv, NEW o \in [Signals -> OrderRecord], NEW r \in RiskRecord, PersistFailed(o, r)
  PROVE  CoreType'
BY TypeParts, BoundsAssumption DEF CoreType, PersistFailed

\* _update of one record keeps the types either way.
LEMMA UpdateCore ==
  ASSUME TypeInv, NEW s \in Signals, NEW rec \in OrderRecord,
         Updated(s, rec) \/ UpdateFailed(s, rec)
  PROVE  CoreType'
<1>1. TypeOK /\ risk \in RiskRecord /\ kill \in BOOLEAN
  BY DEF TypeInv, TypeOK
<1>2. WithRecord(s, rec) \in [Signals -> OrderRecord]
  BY <1>1, WithRecordType
<1>3. RefreshExposure(risk, WithRecord(s, rec)) \in RiskRecord
  BY <1>1, RiskOperatorsType
<1> QED
  BY <1>1, <1>2, <1>3, PersistedCore, PersistFailedCore DEF Updated, UpdateFailed

\* What UpdateEntry does to the types, for any record and program counter.
LEMMA UpdateEntryType ==
  ASSUME TypeInv, NEW s \in Signals, NEW rec \in OrderRecord, NEW pc \in Pcs,
         UpdateEntry(s, rec, pc), BrokerType'
  PROVE  TypeInv'
<1>1. CoreType'
  BY UpdateCore DEF UpdateEntry
<1>2. EntryType'
  BY ConstantRecords DEF UpdateEntry, EntryType, IdleEntry, EntryAt, Pcs
<1>3. UNCHANGED <<starter, today, life, pnlRecords, approval, committed>>
  BY DEF UpdateEntry, history
<1> QED
  BY <1>1, <1>2, <1>3, TypePartsNext, TypeStutter

\* Every action of the process, its operator, the broker and the clock keeps
\* the types.
LEMMA TypeStep == TypeInv /\ [Next]_vars => TypeInv'
<1> SUFFICES ASSUME TypeInv, [Next]_vars PROVE TypeInv'
  OBVIOUS
<1> USE TypeParts, TypePartsNext, TypeStutter
<1>0. TypeOK /\ risk \in RiskRecord /\ journal.risk \in RiskRecord /\ kill \in BOOLEAN
      /\ orders \in [Signals -> OrderRecord] /\ journal.orders \in [Signals -> OrderRecord]
  BY DEF TypeInv, TypeOK
<1>1. CASE AttemptBlocked
  BY <1>0, <1>1, RiskOperatorsType
     DEF AttemptBlocked, CoreType, external, history, bounds
<1>2. ASSUME NEW s \in Signals, Approve(s) PROVE TypeInv'
  <2> DEFINE r == RolledOver(risk)
             o == WithRecord(s, Requested)
  <2>1. r \in RiskRecord /\ o \in [Signals -> OrderRecord] /\ Reserved(r, o) \in RiskRecord
    BY <1>0, RiskOperatorsType, ConstantRecords, WithRecordType
  <2>2. Persisted(o, Reserved(r, o), kill) \/ PersistFailed(o, Reserved(r, o))
    BY <1>2 DEF Approve
  <2>3. CoreType'
    BY <1>0, <2>1, <2>2, PersistedCore, PersistFailedCore
  <2>4. EntryType'
    BY <1>2, ConstantRecords DEF Approve, EntryType, EntryAt, IdleEntry, Pcs
  <2>5. HistoryType'
    BY <1>2, BoundsAssumption DEF Approve, HistoryType, external, history, bounds
  <2>6. UNCHANGED <<starter, broker, sent>>
    BY <1>2 DEF Approve, external
  <2> QED
    BY <2>3, <2>4, <2>5, <2>6
<1>3. ASSUME NEW s \in Signals, Send(s) PROVE TypeInv'
  <2>1. EntryType'
    BY <1>3 DEF Send, EntryType, Pcs
  <2>2. BrokerType'
    BY <1>3 DEF Send, BrokerType
  <2>3. UNCHANGED <<orders, risk, kill, recon, journal, failures, starter, today, life,
                    pnlRecords, approval, committed>>
    BY <1>3 DEF Send, history, bounds
  <2> QED
    BY <2>1, <2>2, <2>3
<1>4. ASSUME NEW s \in Signals, EntryStep(s) PROVE TypeInv'
  <2>0. entry.rec \in OrderRecord
    BY DEF EntryType
  <2>1. CASE Acknowledged(s)
    <3>1. MapStatus(broker[s].st, "SUBMITTED") \in OrderStatus
      BY <2>1, MapStatusType DEF Acknowledged
    <3>2. [entry.rec EXCEPT !.status = MapStatus(broker[s].st, "SUBMITTED"), !.id = TRUE]
            \in OrderRecord
      BY <2>0, <3>1 DEF OrderRecord
    <3> QED
      BY <2>1, <3>2, UpdateEntryType DEF Acknowledged, Pcs, UpdateEntry
  <2>2. CASE TimedOut(s)
    <3>1. [entry.rec EXCEPT !.status = "UNKNOWN"] \in OrderRecord
      BY <2>0 DEF OrderRecord, OrderStatus
    <3> QED
      BY <2>2, <3>1, UpdateEntryType DEF TimedOut, Pcs, UpdateEntry
  <2>3. CASE Refused(s)
    <3>1. Rejection(entry.rec) \in OrderRecord
      BY <2>0 DEF Rejection, OrderRecord, OrderStatus
    <3>2. BrokerType'
      BY <2>3 DEF Refused, BrokerType, UpdateEntry
    <3> QED
      BY <2>3, <3>1, <3>2, UpdateEntryType DEF Refused, Pcs
  <2>4. CASE SubmitRaised(s)
    BY <2>4, ConstantRecords DEF SubmitRaised, EntryType, IdleEntry, Pcs, external, history, bounds
  <2>5. CASE Confirmed(s)
    <3>1. PICK reply \in Replies(s) : UpdateEntry(s, Applied(entry.rec, reply), "idle")
      BY <2>5 DEF Confirmed
    <3> QED
      BY <1>0, <2>0, <2>5, <3>1, RepliesType, AppliedType, UpdateEntryType
         DEF Confirmed, Pcs, UpdateEntry
  <2>6. CASE Correlated(s)
    <3>1. PICK reply \in Replies(s) : UpdateEntry(s, Applied(entry.rec, reply), "idle")
      BY <2>6 DEF Correlated
    <3> QED
      BY <1>0, <2>0, <2>6, <3>1, RepliesType, AppliedType, UpdateEntryType
         DEF Correlated, Pcs, UpdateEntry
  <2> QED
    BY <1>4, <2>1, <2>2, <2>3, <2>4, <2>5, <2>6 DEF EntryStep
<1>5. CASE QueryFailed
  BY <1>5, ConstantRecords DEF QueryFailed, EntryType, IdleEntry, Pcs, external, history, bounds
<1>6. CASE StarterStep
  <2>0. starter.rec \in OrderRecord
    BY DEF StarterType
  <2>1. ASSUME NEW s \in Signals, BeginRefresh(s) PROVE TypeInv'
    BY <1>0, <2>1 DEF BeginRefresh, StarterType, external, history, bounds
  <2>2. NextRefresh \in [pc : {"refresh"}, todo : SUBSET Signals, signal : {"none"},
                         rec : OrderRecord, expected : [Signals -> 0 .. Quantity]]
    BY ConstantRecords DEF NextRefresh, StarterType
  <2>3. StarterAt("done", {}) \in [pc : {"done"}, todo : SUBSET Signals, signal : {"none"},
                                   rec : OrderRecord, expected : [Signals -> 0 .. Quantity]]
    BY ConstantRecords, LimitsAssumption DEF StarterAt
  <2>4. CASE Refreshed
    <3>1. starter.signal \in Signals
      BY <2>4 DEF Refreshed, StarterType
    <3>2. PICK reply \in Replies(starter.signal) :
            \/ /\ Updated(starter.signal, Applied(starter.rec, reply))
               /\ starter' = NextRefresh
            \/ /\ UpdateFailed(starter.signal, Applied(starter.rec, reply))
               /\ starter' = StarterAt("done", {})
      BY <2>4 DEF Refreshed
    <3>3. Applied(starter.rec, reply) \in OrderRecord
      BY <1>0, <2>0, <3>1, RepliesType, AppliedType
    <3>4. CoreType'
      BY <3>1, <3>2, <3>3, UpdateCore
    <3>5. StarterType'
      BY <2>2, <2>3, <3>2 DEF StarterType
    <3> QED
      BY <2>4, <3>4, <3>5 DEF Refreshed, external, history
  <2>5. CASE RefreshFailed
    BY <2>2, <2>5 DEF RefreshFailed, StarterType, external, history, bounds
  <2>6. CASE FinishRefreshing
    <3>1. [s \in Signals |-> orders[s].filled] \in [Signals -> 0 .. Quantity]
      BY <1>0 DEF OrderRecord
    <3>2. StarterType'
      BY <2>3, <2>6, <3>1 DEF FinishRefreshing, StarterType
    <3>3. CoreType'
      BY <2>6 DEF FinishRefreshing, CoreType, bounds
    <3> QED
      BY <2>6, <3>2, <3>3 DEF FinishRefreshing, external, history, bounds
  <2>7. CASE ComparePositions
    BY <2>3, <2>7 DEF ComparePositions, StarterType, CoreType, external, history, bounds
  <2>8. CASE PositionsFailed
    BY <2>3, <2>8 DEF PositionsFailed, StarterType, CoreType, external, history, bounds
  <2> QED
    BY <1>6, <2>1, <2>4, <2>5, <2>6, <2>7, <2>8 DEF StarterStep
<1>7. CASE EngageKillSwitch
  <2>1. CoreType'
    BY <1>0, <1>7, PersistedCore, PersistFailedCore DEF EngageKillSwitch
  <2>2. HistoryType'
    BY <1>7 DEF EngageKillSwitch, HistoryType, external
  <2> QED
    BY <1>7, <2>1, <2>2 DEF EngageKillSwitch, external
<1>8. ASSUME NEW amount \in PnlAmounts, RecordRealizedPnl(amount) PROVE TypeInv'
  <2>1. WithPnl(risk, amount) \in RiskRecord
    BY <1>0, RiskOperatorsType, LimitsAssumption
  <2>2. CoreType'
    BY <1>0, <1>8, <2>1, PersistedCore, PersistFailedCore DEF RecordRealizedPnl
  <2>3. HistoryType'
    <3>1. today \in 0 .. MaxDay /\ risk.day \in 0 .. MaxDay
      BY <1>0, BoundsAssumption DEF HistoryType, RiskRecord
    <3>2. committed' = committed \/ \E B, L \in SUBSET (0 .. MaxDay) :
            committed' = [committed EXCEPT !.breached = @ \cup B, !.lossDays = @ \cup L]
      BY <1>8, <3>1 DEF RecordRealizedPnl
    <3>3. committed' \in [kill : BOOLEAN, breached : SUBSET (0 .. MaxDay),
                          lossDays : SUBSET (0 .. MaxDay)]
      BY <3>2 DEF HistoryType
    <3>4. pnlRecords' \in 0 .. MaxPnlRecords
      BY <1>8, BoundsAssumption DEF RecordRealizedPnl, HistoryType
    <3> QED
      BY <1>8, <3>3, <3>4 DEF RecordRealizedPnl, HistoryType, external
  <2> QED
    BY <1>8, <2>2, <2>3 DEF RecordRealizedPnl, external
<1>9. ASSUME NEW s \in Signals, Deliver(s) \/ Fill(s) \/ Cancel(s) \/ SquareOff(s)
      PROVE  TypeInv'
  <2>0. broker[s] \in [st : BrokerStatus \cup {"none", "wire", "refused"},
                       filled : 0 .. Quantity, net : 0 .. Quantity]
        /\ broker[s].net <= broker[s].filled
    BY DEF BrokerType
  <2>1. ASSUME NEW b \in [st : BrokerStatus \cup {"none", "wire", "refused"},
                          filled : 0 .. Quantity, net : 0 .. Quantity],
               b.net <= b.filled, BrokerStep(s, b)
        PROVE  TypeInv'
    <3>1. BrokerType'
      BY <2>1 DEF BrokerStep, BrokerType
    <3> QED
      BY <2>1, <3>1 DEF BrokerStep, process, history, bounds
  <2>2. CASE Deliver(s)
    BY <2>0, <2>1, <2>2 DEF Deliver, BrokerStatus
  <2>3. CASE Fill(s)
    <3>1. PICK q \in broker[s].filled + 1 .. Quantity :
            BrokerStep(s, [st |-> IF q = Quantity THEN "TRADED" ELSE "PART_TRADED",
                           filled |-> q, net |-> broker[s].net + (q - broker[s].filled)])
      BY <2>3 DEF Fill
    <3>2. q \in 0 .. Quantity /\ broker[s].net + (q - broker[s].filled) \in 0 .. Quantity
          /\ broker[s].net + (q - broker[s].filled) <= q
      BY <2>0, LimitsAssumption
    <3> QED
      BY <2>1, <3>1, <3>2 DEF BrokerStatus
  <2>4. CASE Cancel(s)
    BY <2>0, <2>1, <2>4 DEF Cancel, BrokerStatus
  <2>5. CASE SquareOff(s)
    BY <2>0, <2>1, <2>5, LimitsAssumption DEF SquareOff
  <2> QED
    BY <1>9, <2>2, <2>3, <2>4, <2>5
<1>10. CASE Restart
  <2>1. RefreshExposure(journal.risk, journal.orders) \in RiskRecord /\ RestartKill \in BOOLEAN
    BY <1>0, RiskOperatorsType DEF RestartKill, RestoredKill, CoreType
  <2>2. CoreType'
    BY <1>0, <1>10, <2>1 DEF Restart, CoreType
  <2>3. EntryType' /\ StarterType'
    BY <1>10, ConstantRecords, LimitsAssumption
       DEF Restart, EntryType, StarterType, IdleEntry, StarterAt, Pcs
  <2>4. HistoryType'
    BY <1>10, BoundsAssumption DEF Restart, HistoryType, external, history
  <2> QED
    BY <1>10, <2>2, <2>3, <2>4 DEF Restart, external
<1>11. CASE NextDay
  <2>1. HistoryType'
    BY <1>11, BoundsAssumption DEF NextDay, HistoryType, history, bounds
  <2> QED
    BY <1>11, <2>1 DEF NextDay, process, bounds
<1>12. CASE UNCHANGED vars
  BY <1>12 DEF vars, process, external, history, bounds
<1> QED
  BY <1>1, <1>2, <1>3, <1>4, <1>5, <1>6, <1>7, <1>8, <1>9, <1>10, <1>11, <1>12 DEF Next

\* In the initial state nothing is ordered, sent or recorded.
LEMMA TypeInit == Init => TypeInv
<1> SUFFICES ASSUME Init PROVE TypeInv
  OBVIOUS
<1>1. CoreType
  <2>1. NewRisk \in RiskRecord
    BY BoundsAssumption DEF NewRisk, RiskRecord
  <2>2. orders \in [Signals -> OrderRecord]
    BY ConstantRecords DEF Init
  <2>3. journal \in [orders : [Signals -> OrderRecord], risk : RiskRecord, kill : BOOLEAN]
    BY <2>1, <2>2 DEF Init, Snapshot
  <2>4. failures \in 0 .. MaxJournalFailures
    BY BoundsAssumption DEF Init
  <2>5. risk \in RiskRecord /\ kill \in BOOLEAN /\ recon \in {"PENDING", "OK", "MISMATCH"}
    BY <2>1 DEF Init
  <2> QED
    BY <2>2, <2>3, <2>4, <2>5 DEF CoreType
<1>2. EntryType /\ StarterType
  BY ConstantRecords, LimitsAssumption
     DEF Init, EntryType, StarterType, IdleEntry, StarterAt, Pcs
<1>3. BrokerType
  BY LimitsAssumption DEF Init, BrokerType, UnsentBroker
<1>4. HistoryType
  BY BoundsAssumption DEF Init, HistoryType
<1> QED
  BY <1>1, <1>2, <1>3, <1>4, TypeParts

\* Every variable of the execution service keeps the shape the code gives it.
THEOREM TypeCorrect == Spec => []TypeOK
<1>1. TypeInv => TypeOK
  BY DEF TypeInv
<1> QED
  BY <1>1, TypeInit, TypeStep, PTL DEF Spec

-----------------------------------------------------------------------------
(* Layer 2: the idempotency ledger *)

\* No key leaves the memory or the journal.
KeysKept ==
  \A s \in Signals : /\ orders[s] # NoOrder => orders'[s] # NoOrder
                     /\ journal.orders[s] # NoOrder => journal'.orders[s] # NoOrder
\* The entry coroutine stays, ends, or goes on after its request was sent.
EntryCalm ==
  \/ UNCHANGED entry
  \/ entry'.pc = "idle"
  \/ entry'.signal = entry.signal /\ entry.pc # "idle" /\ entry'.pc # "submit"
\* The startup task gets no order to refresh that it did not have.
StarterCalm ==
  \/ UNCHANGED starter
  \/ /\ starter'.todo \subseteq starter.todo
     /\ starter'.pc = "query" => starter'.signal \in starter.todo

\* What a journal write does to the keys, for records o that forget none.
LEMMA PersistKeys ==
  ASSUME JournalKnowsLess, OneKeyBehind, NEW o, NEW r, NEW k,
         kill => k,
         \A s \in Signals : (orders[s] # NoOrder) <=> (o[s] # NoOrder),
         Persisted(o, r, k) \/ PersistFailed(o, r)
  PROVE  JournalKnowsLess' /\ OneKeyBehind' /\ KeysKept
BY DEF JournalKnowsLess, OneKeyBehind, KeysKept, Persisted, PersistFailed, Snapshot

\* A step that sends nothing and starts no request preserves the ledger if no
\* key leaves the journal or the memory.
LEMMA LedgerKept ==
  ASSUME TypeInv, LedgerInv, UNCHANGED sent, JournalKnowsLess', OneKeyBehind', KeysKept,
         EntryCalm, StarterCalm
  PROVE  LedgerInv'
<1>1. starter.todo \subseteq Signals /\ CoroutinesHaveSignal
  BY DEF TypeInv, TypeOK
<1>2. AtMostOnce' /\ KeyIsDurable'
  BY DEF LedgerInv, AtMostOnce, KeyIsDurable, KeysKept
<1>3. SubmitIsFresh'
  BY <1>1 DEF LedgerInv, SubmitIsFresh, CoroutinesHaveSignal, KeysKept, EntryCalm
<1>4. CoroutinesKnowKey'
  BY <1>1 DEF LedgerInv, CoroutinesKnowKey, CoroutinesHaveSignal, KeysKept, EntryCalm, StarterCalm
<1> QED
  BY <1>2, <1>3, <1>4 DEF LedgerInv

\* In particular a step that changes neither the orders nor the journal.
LEMMA LedgerUntouched ==
  ASSUME TypeInv, LedgerInv, UNCHANGED <<orders, journal, kill, sent>>, EntryCalm, StarterCalm
  PROVE  LedgerInv'
<1>1. JournalKnowsLess' /\ OneKeyBehind' /\ KeysKept
  BY DEF LedgerInv, JournalKnowsLess, OneKeyBehind, KeysKept
<1> QED
  BY <1>1, LedgerKept

\* _update of a known key.
LEMMA UpdateKeys ==
  ASSUME TypeInv, LedgerInv, NEW s \in Signals, NEW rec \in OrderRecord, rec # NoOrder,
         orders[s] # NoOrder, Updated(s, rec) \/ UpdateFailed(s, rec)
  PROVE  JournalKnowsLess' /\ OneKeyBehind' /\ KeysKept
<1> DEFINE o == WithRecord(s, rec)
<1>1. \A t \in Signals : o[t] = IF t = s THEN rec ELSE orders[t]
  BY WithRecordType DEF TypeInv
<1>2. \A t \in Signals : (orders[t] # NoOrder) <=> (o[t] # NoOrder)
  BY <1>1
<1>3. Persisted(o, RefreshExposure(risk, o), kill) \/ PersistFailed(o, RefreshExposure(risk, o))
  BY DEF Updated, UpdateFailed
<1> HIDE DEF o
<1>4. CASE Persisted(o, RefreshExposure(risk, o), kill)
  BY <1>2, <1>4, PersistKeys DEF LedgerInv
<1>5. CASE PersistFailed(o, RefreshExposure(risk, o))
  BY <1>2, <1>5, PersistKeys DEF LedgerInv
<1> QED
  BY <1>3, <1>4, <1>5

\* _update by the entry coroutine, whatever it goes on to do.
LEMMA UpdateEntryKeys ==
  ASSUME TypeInv, LedgerInv, NEW s \in Signals, entry.signal = s, entry.pc # "idle",
         NEW rec \in OrderRecord, rec # NoOrder, NEW pc \in Pcs, pc # "submit",
         UpdateEntry(s, rec, pc)
  PROVE  LedgerInv'
<1>1. orders[s] # NoOrder
  BY DEF LedgerInv, CoroutinesKnowKey
<1>2. Updated(s, rec) \/ UpdateFailed(s, rec)
  BY DEF UpdateEntry
<1>3. UNCHANGED <<sent, starter>>
  BY DEF UpdateEntry
<1>4. EntryCalm /\ StarterCalm
  BY <1>3 DEF UpdateEntry, IdleEntry, EntryAt, EntryCalm, StarterCalm
<1> QED
  BY <1>1, <1>2, <1>3, <1>4, UpdateKeys, LedgerKept

LEMMA LedgerStep == TypeInv /\ LedgerInv /\ [Next]_vars => LedgerInv'
<1> SUFFICES ASSUME TypeInv, LedgerInv, [Next]_vars PROVE LedgerInv'
  OBVIOUS
<1>0. /\ TypeOK /\ CoroutinesHaveSignal
      /\ entry.rec \in OrderRecord /\ starter.rec \in OrderRecord
      /\ starter.todo \subseteq Signals
      /\ sent \in [Signals -> Nat]
  BY DEF TypeInv, TypeOK
<1>1. CASE AttemptBlocked
  BY <1>1, LedgerUntouched DEF AttemptBlocked, external, EntryCalm, StarterCalm
<1>2. ASSUME NEW s \in Signals, Approve(s) PROVE LedgerInv'
  <2> DEFINE o == WithRecord(s, Requested)
  <2>1. orders[s] = NoOrder /\ ~kill /\ entry.pc = "idle"
    BY <1>2 DEF Approve, CanExecuteOrder
  <2>2. journal.orders[s] = NoOrder /\ sent[s] = 0
    BY <1>0, <2>1 DEF LedgerInv, JournalKnowsLess, KeyIsDurable
  <2>3. \A t \in Signals : o[t] = IF t = s THEN Requested ELSE orders[t]
    BY <1>0, ConstantRecords, WithRecordType
  <2>4. Requested # NoOrder
    BY ConstantRecords
  <2>5. UNCHANGED <<sent, starter>>
    BY <1>2 DEF Approve, external
  <2> HIDE DEF o
  <2>6. CASE Persisted(o, Reserved(RolledOver(risk), o), kill) /\ entry' = EntryAt("submit", s, Requested)
    <3>1. orders' = o /\ journal'.orders = o
      BY <2>6 DEF Persisted, Snapshot
    <3> QED
      BY <3>1, <1>0, <2>2, <2>3, <2>4, <2>5, <2>6
       DEF LedgerInv, AtMostOnce, KeyIsDurable, JournalKnowsLess, SubmitIsFresh, OneKeyBehind,
           CoroutinesKnowKey, CoroutinesHaveSignal, EntryAt
  <2>7. CASE PersistFailed(o, Reserved(RolledOver(risk), o)) /\ entry' = IdleEntry
    <3>1. orders' = o /\ journal' = journal /\ kill' = TRUE
      BY <2>7 DEF PersistFailed
    <3> QED
      BY <3>1, <1>0, <2>1, <2>2, <2>3, <2>4, <2>5, <2>7
       DEF LedgerInv, AtMostOnce, KeyIsDurable, JournalKnowsLess, SubmitIsFresh, OneKeyBehind,
           CoroutinesKnowKey, CoroutinesHaveSignal, IdleEntry
  <2> QED
    BY <1>2, <2>6, <2>7 DEF Approve, o
<1>3. ASSUME NEW s \in Signals, Send(s) PROVE LedgerInv'
  <2>1. sent[s] = 0 /\ journal.orders[s] # NoOrder
    BY <1>3 DEF Send, LedgerInv, SubmitIsFresh
  <2>2. sent' = [sent EXCEPT ![s] = 1]
    BY <1>3, <2>1 DEF Send
  <2>3. entry'.pc = "wait" /\ entry'.signal = s /\ entry.signal = s /\ entry.pc # "idle"
    BY <1>0, <1>3 DEF Send, TypeOK
  <2>4. UNCHANGED <<orders, journal, kill, starter>>
    BY <1>3 DEF Send
  <2> QED
    BY <1>0, <2>1, <2>2, <2>3, <2>4
       DEF LedgerInv, AtMostOnce, KeyIsDurable, JournalKnowsLess, SubmitIsFresh, OneKeyBehind,
           CoroutinesKnowKey
<1>4. ASSUME NEW s \in Signals, EntryStep(s) PROVE LedgerInv'
  <2>1. CASE Acknowledged(s)
    <3>1. MapStatus(broker[s].st, "SUBMITTED") \in OrderStatus
      BY <2>1, MapStatusType DEF Acknowledged
    <3> DEFINE rec == [entry.rec EXCEPT !.status = MapStatus(broker[s].st, "SUBMITTED"), !.id = TRUE]
    <3>2. rec \in OrderRecord /\ rec # NoOrder
      BY <1>0, <3>1 DEF OrderRecord, OrderStatus, NoOrder
    <3> HIDE DEF rec
    <3> QED
      BY <2>1, <3>2, UpdateEntryKeys DEF Acknowledged, Pcs, rec
  <2>2. CASE TimedOut(s)
    <3> DEFINE rec == [entry.rec EXCEPT !.status = "UNKNOWN"]
    <3>1. rec \in OrderRecord /\ rec # NoOrder
      BY <1>0 DEF OrderRecord, OrderStatus, NoOrder
    <3> HIDE DEF rec
    <3> QED
      BY <2>2, <3>1, UpdateEntryKeys DEF TimedOut, Pcs, rec
  <2>3. CASE Refused(s)
    <3>1. Rejection(entry.rec) \in OrderRecord /\ Rejection(entry.rec) # NoOrder
      BY <1>0 DEF Rejection, OrderRecord, OrderStatus, NoOrder
    <3> QED
      BY <2>3, <3>1, UpdateEntryKeys DEF Refused, Pcs
  <2>4. CASE SubmitRaised(s)
    BY <2>4, LedgerUntouched DEF SubmitRaised, EntryCalm, StarterCalm, IdleEntry, external
  <2>5. CASE Confirmed(s) \/ Correlated(s)
    <3>1. PICK reply \in Replies(s) : UpdateEntry(s, Applied(entry.rec, reply), "idle")
      BY <2>5 DEF Confirmed, Correlated
    <3>2. Applied(entry.rec, reply) \in OrderRecord /\ Applied(entry.rec, reply) # NoOrder
      BY <1>0, RepliesType, AppliedType
    <3> QED
      BY <2>5, <3>1, <3>2, UpdateEntryKeys DEF Confirmed, Correlated, Pcs
  <2> QED
    BY <1>4, <2>1, <2>2, <2>3, <2>4, <2>5 DEF EntryStep
<1>5. CASE QueryFailed
  BY <1>5, LedgerUntouched DEF QueryFailed, EntryCalm, StarterCalm, IdleEntry, external
<1>6. CASE StarterStep
  <2>1. ASSUME NEW s \in Signals, BeginRefresh(s) PROVE LedgerInv'
    <3>1. starter'.todo \subseteq starter.todo /\ starter'.signal \in starter.todo
      BY <1>0, <2>1 DEF BeginRefresh, TypeOK
    <3> QED
      BY <2>1, <3>1, LedgerUntouched DEF BeginRefresh, EntryCalm, StarterCalm, external
  <2>2. NextRefresh.todo = starter.todo /\ NextRefresh.pc = "refresh"
    BY <1>0 DEF NextRefresh, TypeOK
  <2>3. StarterAt("done", {}).todo = {} /\ StarterAt("done", {}).pc = "done"
    BY DEF StarterAt
  <2>4. CASE Refreshed
    <3>1. starter.signal \in Signals /\ orders[starter.signal] # NoOrder
      BY <1>0, <2>4 DEF Refreshed, CoroutinesHaveSignal, LedgerInv, CoroutinesKnowKey
    <3>2. PICK reply \in Replies(starter.signal) :
            \/ /\ Updated(starter.signal, Applied(starter.rec, reply))
               /\ starter' = NextRefresh
            \/ /\ UpdateFailed(starter.signal, Applied(starter.rec, reply))
               /\ starter' = StarterAt("done", {})
      BY <2>4 DEF Refreshed
    <3>3. Applied(starter.rec, reply) \in OrderRecord /\ Applied(starter.rec, reply) # NoOrder
      BY <1>0, <3>1, RepliesType, AppliedType
    <3>4. JournalKnowsLess' /\ OneKeyBehind' /\ KeysKept
      BY <3>1, <3>2, <3>3, UpdateKeys
    <3>5. EntryCalm /\ StarterCalm
      BY <2>2, <2>3, <2>4, <3>2 DEF Refreshed, EntryCalm, StarterCalm
    <3> QED
      BY <2>4, <3>4, <3>5, LedgerKept DEF Refreshed, external
  <2>5. CASE RefreshFailed
    BY <2>2, <2>5, LedgerUntouched DEF RefreshFailed, EntryCalm, StarterCalm, external
  <2>6. CASE FinishRefreshing
    <3>1. starter'.todo \subseteq starter.todo /\ starter'.pc # "query"
      BY <1>0, <2>3, <2>6 DEF FinishRefreshing, TypeOK
    <3> QED
      BY <2>6, <3>1, LedgerUntouched DEF FinishRefreshing, EntryCalm, StarterCalm, external
  <2>7. CASE ComparePositions \/ PositionsFailed
    BY <2>3, <2>7, LedgerUntouched DEF ComparePositions, PositionsFailed, EntryCalm, StarterCalm, external
  <2> QED
    BY <1>6, <2>1, <2>4, <2>5, <2>6, <2>7 DEF StarterStep
<1>7. CASE EngageKillSwitch
  <2>1. Persisted(orders, risk, TRUE) \/ PersistFailed(orders, risk)
    BY <1>7 DEF EngageKillSwitch
  <2>2. UNCHANGED <<orders, entry, starter, sent>>
    BY <1>7, <2>1 DEF EngageKillSwitch, Persisted, PersistFailed, external
  <2>3. JournalKnowsLess' /\ OneKeyBehind' /\ KeysKept
    BY <2>1, PersistKeys DEF LedgerInv
  <2> QED
    BY <2>2, <2>3, LedgerKept DEF EntryCalm, StarterCalm
<1>8. ASSUME NEW amount \in PnlAmounts, RecordRealizedPnl(amount) PROVE LedgerInv'
  <2>1. Persisted(orders, WithPnl(risk, amount), kill) \/ PersistFailed(orders, WithPnl(risk, amount))
    BY <1>8 DEF RecordRealizedPnl
  <2>2. UNCHANGED <<orders, entry, starter, sent>>
    BY <1>8, <2>1 DEF RecordRealizedPnl, Persisted, PersistFailed, external
  <2>3. JournalKnowsLess' /\ OneKeyBehind' /\ KeysKept
    BY <2>1, PersistKeys DEF LedgerInv
  <2> QED
    BY <2>2, <2>3, LedgerKept DEF EntryCalm, StarterCalm
<1>9. ASSUME NEW s \in Signals, Deliver(s) \/ Fill(s) \/ Cancel(s) \/ SquareOff(s)
      PROVE  LedgerInv'
  BY <1>9, LedgerUntouched DEF Deliver, Fill, Cancel, SquareOff, BrokerStep, EntryCalm, StarterCalm, process
<1>10. CASE Restart
  <2>1. /\ orders' = journal.orders /\ journal' = journal /\ entry'.pc = "idle"
        /\ starter'.pc = "refresh" /\ UNCHANGED sent
        /\ starter'.todo = {s \in Signals : IsUncertain(journal.orders[s])}
    BY <1>10 DEF Restart, external, IdleEntry, StarterAt
  <2>2. \A s \in starter'.todo : orders'[s] # NoOrder
    BY <2>1 DEF IsUncertain
  <2> QED
    BY <2>1, <2>2 DEF LedgerInv, AtMostOnce, KeyIsDurable, JournalKnowsLess, SubmitIsFresh,
                      OneKeyBehind, CoroutinesKnowKey
<1>11. CASE NextDay
  BY <1>11, LedgerUntouched DEF NextDay, EntryCalm, StarterCalm, process
<1>12. CASE UNCHANGED vars
  BY <1>12, LedgerUntouched DEF vars, EntryCalm, StarterCalm, process, external
<1> QED
  BY <1>1, <1>2, <1>3, <1>4, <1>5, <1>6, <1>7, <1>8, <1>9, <1>10, <1>11, <1>12 DEF Next

LEMMA LedgerInit == Init => LedgerInv
BY DEF Init, LedgerInv, CoroutinesKnowKey, OneKeyBehind, AtMostOnce, KeyIsDurable,
       JournalKnowsLess, SubmitIsFresh, Snapshot, IdleEntry, StarterAt

\* One signal causes at most one broker request, however often it is retried,
\* times out, or the process is restarted.
THEOREM SentAtMostOnce == Spec => []AtMostOnce
<1>1. LedgerInv => AtMostOnce
  BY DEF LedgerInv
<1>2. TypeInv /\ LedgerInv /\ [Next]_vars => TypeInv' /\ LedgerInv'
  BY TypeStep, LedgerStep
<1>3. Init => TypeInv /\ LedgerInv
  BY TypeInit, LedgerInit
<1> QED
  BY <1>1, <1>2, <1>3, PTL DEF Spec

-----------------------------------------------------------------------------
(* Layer 3: startup_reconcile and entries exclude each other *)

LEMMA StartupStep == StartupInv /\ [Next]_vars => StartupInv'
<1> SUFFICES ASSUME StartupInv, [Next]_vars PROVE StartupInv'
  OBVIOUS
<1> USE DEF StartupInv, OkMeansDone, StartupExcludesEntry
<1>1. ASSUME NEW o, NEW r, NEW k, Persisted(o, r, k) \/ PersistFailed(o, r)
      PROVE  recon' = "OK" => recon = "OK"
  BY <1>1 DEF Persisted, PersistFailed
<1>2. CASE AttemptBlocked
  BY <1>2 DEF AttemptBlocked
<1>3. ASSUME NEW s \in Signals, Approve(s) PROVE StartupInv'
  <2>1. recon = "OK" /\ UNCHANGED starter
    BY <1>3 DEF Approve, CanExecuteOrder
  <2> QED
    BY <2>1
<1>4. ASSUME NEW s \in Signals, Send(s) PROVE StartupInv'
  BY <1>4 DEF Send
<1>5. ASSUME NEW s \in Signals, EntryStep(s) PROVE StartupInv'
  <2>1. entry.pc # "idle"
    BY <1>5 DEF EntryStep, Acknowledged, TimedOut, Refused, SubmitRaised, Confirmed, Correlated
  <2>2. UNCHANGED starter
    BY <1>5 DEF EntryStep, Acknowledged, TimedOut, Refused, SubmitRaised, Confirmed, Correlated,
                UpdateEntry
  <2> QED
    BY <2>1, <2>2
<1>6. CASE QueryFailed
  BY <1>6 DEF QueryFailed
<1>7. CASE StarterStep
  <2>1. starter.pc # "done"
    BY <1>7 DEF StarterStep, BeginRefresh, Refreshed, RefreshFailed, FinishRefreshing,
                ComparePositions, PositionsFailed
  <2>2. UNCHANGED entry
    BY <1>7 DEF StarterStep, BeginRefresh, Refreshed, RefreshFailed, FinishRefreshing,
                ComparePositions, PositionsFailed
  <2>3. recon' = "OK" => starter'.pc = "done" \/ recon = "OK"
    <3>1. CASE Refreshed
      BY <1>1, <3>1 DEF Refreshed, Updated, UpdateFailed
    <3>2. CASE ComparePositions
      BY <3>2 DEF ComparePositions, StarterAt
    <3>3. CASE RefreshFailed \/ FinishRefreshing \/ PositionsFailed
      BY <3>3 DEF RefreshFailed, FinishRefreshing, PositionsFailed
    <3>4. ASSUME NEW s \in Signals, BeginRefresh(s) PROVE UNCHANGED recon
      BY <3>4 DEF BeginRefresh
    <3> QED
      BY <1>7, <3>1, <3>2, <3>3, <3>4 DEF StarterStep
  <2> QED
    BY <2>1, <2>2, <2>3
<1>8. CASE EngageKillSwitch
  <2>1. UNCHANGED <<entry, starter>> /\ (recon' = "OK" => recon = "OK")
    BY <1>1, <1>8 DEF EngageKillSwitch
  <2> QED
    BY <2>1
<1>9. ASSUME NEW amount \in PnlAmounts, RecordRealizedPnl(amount) PROVE StartupInv'
  <2>1. UNCHANGED <<entry, starter>> /\ (recon' = "OK" => recon = "OK")
    BY <1>1, <1>9 DEF RecordRealizedPnl
  <2> QED
    BY <2>1
<1>10. ASSUME NEW s \in Signals, Deliver(s) \/ Fill(s) \/ Cancel(s) \/ SquareOff(s)
       PROVE  StartupInv'
  BY <1>10 DEF Deliver, Fill, Cancel, SquareOff, BrokerStep, process
<1>11. CASE Restart
  BY <1>11 DEF Restart, IdleEntry
<1>12. CASE NextDay
  BY <1>12 DEF NextDay, process
<1>13. CASE UNCHANGED vars
  BY <1>13 DEF vars, process
<1> QED
  BY <1>2, <1>3, <1>4, <1>5, <1>6, <1>7, <1>8, <1>9, <1>10, <1>11, <1>12, <1>13 DEF Next

LEMMA StartupInit == Init => StartupInv
BY DEF Init, StartupInv, OkMeansDone, StartupExcludesEntry, IdleEntry

\* startup_reconcile and an entry attempt are never both between awaits, although
\* startup_reconcile does not take _entry_lock.
THEOREM StartupExclusion == Spec => []StartupExcludesEntry
<1>1. StartupInv => StartupExcludesEntry
  BY DEF StartupInv
<1> QED
  BY <1>1, StartupInit, StartupStep, PTL DEF Spec

-----------------------------------------------------------------------------
(* Layer 4: local records are the records of the service *)

\* What _update by the entry coroutine leaves behind, for a record that keeps its slot
\* whenever the coroutine goes on.
LEMMA UpdateEntryRecords ==
  ASSUME TypeInv, StartupInv, RecordInv, NEW s \in Signals, entry.signal = s, entry.pc # "idle",
         NEW rec \in OrderRecord, NEW pc \in Pcs, pc # "submit",
         pc # "idle" => Unconfirmed(rec), UpdateEntry(s, rec, pc)
  PROVE  RecordInv'
<1>1. starter.pc = "done" /\ UNCHANGED starter
  BY DEF StartupInv, StartupExcludesEntry, UpdateEntry
<1>2. entry'.pc # "idle" =>
        entry'.signal = s /\ entry'.rec = rec /\ entry'.pc # "submit" /\ pc # "idle"
  BY DEF UpdateEntry, IdleEntry, EntryAt
<1>3. orders' = WithRecord(s, rec)
  BY DEF UpdateEntry, Updated, UpdateFailed, Persisted, PersistFailed
<1>4. orders'[s] = rec
  BY <1>3, WithRecordType DEF TypeInv
<1> QED
  BY <1>1, <1>2, <1>4 DEF RecordInv, EntryRecordFresh, SubmitRecord, StarterRecordFresh

\* A step that keeps the orders and, for a request about to be sent, the journal.
LEMMA RecordKept ==
  ASSUME TypeInv, RecordInv, UNCHANGED orders,
         UNCHANGED journal \/ journal'.orders = orders,
         UNCHANGED entry \/ entry'.pc = "idle",
         UNCHANGED starter \/ starter'.pc # "query"
  PROVE  RecordInv'
BY DEF RecordInv, EntryRecordFresh, SubmitRecord, StarterRecordFresh

LEMMA RecordStep == TypeInv /\ StartupInv /\ RecordInv /\ [Next]_vars => RecordInv'
<1> SUFFICES ASSUME TypeInv, StartupInv, RecordInv, [Next]_vars PROVE RecordInv'
  OBVIOUS
<1>0. /\ TypeOK /\ entry.rec \in OrderRecord /\ CoroutinesHaveSignal
      /\ entry.pc # "idle" => starter.pc = "done"
  BY DEF TypeInv, TypeOK, StartupInv, StartupExcludesEntry
<1>1. CASE AttemptBlocked
  BY <1>1, RecordKept DEF AttemptBlocked
<1>2. ASSUME NEW s \in Signals, Approve(s) PROVE RecordInv'
  <2> DEFINE o == WithRecord(s, Requested)
  <2>1. starter.pc = "done" /\ UNCHANGED starter
    BY <1>2 DEF Approve, CanExecuteOrder, StartupInv, OkMeansDone
  <2>2. o[s] = Requested /\ Unconfirmed(Requested)
    BY <1>0, ConstantRecords, WithRecordType DEF Unconfirmed, Requested
  <2> HIDE DEF o
  <2>3. CASE Persisted(o, Reserved(RolledOver(risk), o), kill) /\ entry' = EntryAt("submit", s, Requested)
    <3>1. orders' = o /\ journal'.orders = o
      BY <2>3 DEF Persisted, Snapshot
    <3> QED
      BY <2>1, <2>2, <2>3, <3>1
         DEF RecordInv, EntryRecordFresh, SubmitRecord, StarterRecordFresh, EntryAt
  <2>4. CASE entry' = IdleEntry
    BY <2>1, <2>4 DEF RecordInv, EntryRecordFresh, SubmitRecord, StarterRecordFresh, IdleEntry
  <2> QED
    BY <1>2, <2>3, <2>4 DEF Approve, o
<1>3. ASSUME NEW s \in Signals, Send(s) PROVE RecordInv'
  <2>1. entry' = [entry EXCEPT !.pc = "wait"] /\ UNCHANGED <<orders, starter>>
    BY <1>3 DEF Send
  <2>2. entry'.pc = "wait" /\ entry'.signal = entry.signal /\ entry'.rec = entry.rec /\ entry.pc # "idle"
    BY <1>0, <1>3, <2>1 DEF Send, TypeOK
  <2> QED
    BY <2>1, <2>2 DEF RecordInv, EntryRecordFresh, SubmitRecord, StarterRecordFresh
<1>4. ASSUME NEW s \in Signals, EntryStep(s) PROVE RecordInv'
  <2>1. CASE Acknowledged(s)
    <3> DEFINE rec == [entry.rec EXCEPT !.status = MapStatus(broker[s].st, "SUBMITTED"), !.id = TRUE]
    <3>1. MapStatus(broker[s].st, "SUBMITTED") \in OrderStatus
      BY <2>1, MapStatusType DEF Acknowledged
    <3>2. rec \in OrderRecord /\ Unconfirmed(rec)
      BY <1>0, <2>1, <3>1 DEF OrderRecord, OrderStatus, Unconfirmed, NoOrder, RecordInv,
                              EntryRecordFresh, Acknowledged
    <3> HIDE DEF rec
    <3> QED
      BY <2>1, <3>2, UpdateEntryRecords DEF Acknowledged, Pcs, rec
  <2>2. CASE TimedOut(s)
    <3> DEFINE rec == [entry.rec EXCEPT !.status = "UNKNOWN"]
    <3>1. rec \in OrderRecord /\ Unconfirmed(rec)
      BY <1>0, <2>2 DEF OrderRecord, OrderStatus, Unconfirmed, NoOrder, RecordInv,
                        EntryRecordFresh, TimedOut
    <3> HIDE DEF rec
    <3> QED
      BY <2>2, <3>1, UpdateEntryRecords DEF TimedOut, Pcs, rec
  <2>3. CASE Refused(s)
    <3>1. Rejection(entry.rec) \in OrderRecord
      BY <1>0 DEF Rejection, OrderRecord, OrderStatus
    <3> QED
      BY <2>3, <3>1, UpdateEntryRecords DEF Refused, Pcs
  <2>4. CASE SubmitRaised(s)
    BY <2>4, RecordKept DEF SubmitRaised, IdleEntry
  <2>5. CASE Confirmed(s) \/ Correlated(s)
    <3>1. PICK reply \in Replies(s) : UpdateEntry(s, Applied(entry.rec, reply), "idle")
      BY <2>5 DEF Confirmed, Correlated
    <3>2. Applied(entry.rec, reply) \in OrderRecord
      BY <1>0, RepliesType, AppliedType
    <3> QED
      BY <2>5, <3>1, <3>2, UpdateEntryRecords DEF Confirmed, Correlated, Pcs
  <2> QED
    BY <1>4, <2>1, <2>2, <2>3, <2>4, <2>5 DEF EntryStep
<1>5. CASE QueryFailed
  BY <1>5, RecordKept DEF QueryFailed, IdleEntry
<1>6. CASE StarterStep
  <2>0. entry.pc = "idle"
    BY <1>0, <1>6 DEF StarterStep, BeginRefresh, Refreshed, RefreshFailed, FinishRefreshing,
                      ComparePositions, PositionsFailed
  <2>1. ASSUME NEW s \in Signals, BeginRefresh(s) PROVE RecordInv'
    <3>1. UNCHANGED <<orders, entry>> /\ starter'.signal = s /\ starter'.rec = orders[s]
      BY <1>0, <2>1 DEF BeginRefresh, TypeOK
    <3> QED
      BY <2>0, <3>1 DEF RecordInv, EntryRecordFresh, SubmitRecord, StarterRecordFresh
  <2>2. CASE ~\E s \in Signals : BeginRefresh(s)
    <3>1. starter'.pc # "query"
      <4>1. NextRefresh.pc # "query" /\ StarterAt("done", {}).pc # "query"
        BY <1>0 DEF NextRefresh, StarterAt, TypeOK
      <4>2. CASE FinishRefreshing
        BY <1>0, <4>1, <4>2 DEF FinishRefreshing, TypeOK
      <4> QED
        BY <1>6, <2>2, <4>1, <4>2 DEF StarterStep, Refreshed, RefreshFailed,
           ComparePositions, PositionsFailed
    <3>2. UNCHANGED entry
      BY <1>6 DEF StarterStep, BeginRefresh, Refreshed, RefreshFailed, FinishRefreshing,
                  ComparePositions, PositionsFailed
    <3> QED
      BY <2>0, <3>1, <3>2 DEF RecordInv, EntryRecordFresh, SubmitRecord, StarterRecordFresh
  <2> QED
    BY <2>1, <2>2
<1>7. CASE EngageKillSwitch
  BY <1>7, RecordKept DEF EngageKillSwitch, Persisted, PersistFailed, Snapshot
<1>8. ASSUME NEW amount \in PnlAmounts, RecordRealizedPnl(amount) PROVE RecordInv'
  BY <1>8, RecordKept DEF RecordRealizedPnl, Persisted, PersistFailed, Snapshot
<1>9. ASSUME NEW s \in Signals, Deliver(s) \/ Fill(s) \/ Cancel(s) \/ SquareOff(s)
      PROVE  RecordInv'
  BY <1>9, RecordKept DEF Deliver, Fill, Cancel, SquareOff, BrokerStep, process
<1>10. CASE Restart
  BY <1>10 DEF Restart, IdleEntry, StarterAt, RecordInv, EntryRecordFresh, SubmitRecord,
               StarterRecordFresh
<1>11. CASE NextDay
  BY <1>11, RecordKept DEF NextDay, process
<1>12. CASE UNCHANGED vars
  BY <1>12, RecordKept DEF vars, process
<1> QED
  BY <1>1, <1>2, <1>3, <1>4, <1>5, <1>6, <1>7, <1>8, <1>9, <1>10, <1>11, <1>12 DEF Next

LEMMA RecordInit == Init => RecordInv
BY DEF Init, RecordInv, EntryRecordFresh, SubmitRecord, StarterRecordFresh, IdleEntry, StarterAt

-----------------------------------------------------------------------------
(* Layer 5: a released slot belongs to an order that is over at the broker *)

\* Only a request put on the wire brings an order to life.
LEMMA LifeBegins ==
  ASSUME TypeInv, [Next]_vars, NEW s \in Signals, ~Live(s), Live(s)'
  PROVE  Send(s)
<1> USE DEF Live
<1>0. broker \in [Signals -> [st : BrokerStatus \cup {"none", "wire", "refused"},
                              filled : 0 .. Quantity, net : 0 .. Quantity]]
  BY DEF TypeInv, TypeOK
<1>1. CASE UNCHANGED broker
  BY <1>1
<1>2. ASSUME NEW t \in Signals, Send(t) PROVE t = s
  BY <1>0, <1>2 DEF Send
<1>3. ASSUME NEW t \in Signals, Refused(t) PROVE FALSE
  BY <1>0, <1>3 DEF Refused
<1>4. ASSUME NEW t \in Signals, Deliver(t) \/ Fill(t) \/ Cancel(t) \/ SquareOff(t) PROVE FALSE
  BY <1>0, <1>4, LimitsAssumption DEF Deliver, Fill, Cancel, SquareOff, BrokerStep
<1>5. ASSUME NEW t \in Signals, EntryStep(t), ~Refused(t) PROVE UNCHANGED broker
  BY <1>5 DEF EntryStep, Acknowledged, TimedOut, SubmitRaised, Confirmed, Correlated, external
<1>6. CASE StarterStep
  BY <1>1, <1>6 DEF StarterStep, BeginRefresh, Refreshed, RefreshFailed, FinishRefreshing,
                    ComparePositions, PositionsFailed, external
<1>7. ASSUME NEW t \in Signals, Approve(t) PROVE UNCHANGED broker
  BY <1>7 DEF Approve, external
<1>8. ASSUME NEW amount \in PnlAmounts, RecordRealizedPnl(amount) PROVE UNCHANGED broker
  BY <1>8 DEF RecordRealizedPnl, external
<1>9. CASE AttemptBlocked \/ QueryFailed \/ EngageKillSwitch \/ Restart \/ NextDay
  BY <1>1, <1>9 DEF AttemptBlocked, QueryFailed, EngageKillSwitch, Restart, NextDay, external
<1>10. CASE UNCHANGED vars
  BY <1>1, <1>10 DEF vars, external
<1> QED
  BY <1>1, <1>2, <1>3, <1>4, <1>5, <1>6, <1>7, <1>8, <1>9, <1>10 DEF Next

\* The broker's own bookkeeping.
BrokerInv == \A s \in Signals : Unfilled(s) /\ Unsent(s)

LEMMA BrokerStepInv == TypeInv /\ BrokerInv /\ [Next]_vars => BrokerInv'
<1> SUFFICES ASSUME TypeInv, BrokerInv, [Next]_vars PROVE BrokerInv'
  OBVIOUS
<1> USE DEF BrokerInv, Unfilled, Unsent
<1>0. broker \in [Signals -> [st : BrokerStatus \cup {"none", "wire", "refused"},
                              filled : 0 .. Quantity, net : 0 .. Quantity]]
      /\ sent \in [Signals -> Nat]
  BY DEF TypeInv, TypeOK
<1>1. CASE UNCHANGED <<broker, sent>>
  BY <1>1
<1>2. ASSUME NEW t \in Signals, Send(t) PROVE BrokerInv'
  BY <1>0, <1>2 DEF Send
<1>3. ASSUME NEW t \in Signals, Refused(t) PROVE BrokerInv'
  BY <1>0, <1>3 DEF Refused, UpdateEntry
<1>4. ASSUME NEW t \in Signals, Deliver(t) \/ Fill(t) \/ Cancel(t) \/ SquareOff(t)
      PROVE  BrokerInv'
  <2>1. CASE Deliver(t)
    BY <1>0, <2>1 DEF Deliver, BrokerStep
  <2>2. CASE Fill(t)
    BY <1>0, <2>2 DEF Fill, BrokerStep
  <2>3. CASE Cancel(t)
    BY <1>0, <2>3 DEF Cancel, BrokerStep
  <2>4. CASE SquareOff(t)
    BY <1>0, <2>4 DEF SquareOff, BrokerStep
  <2> QED
    BY <1>4, <2>1, <2>2, <2>3, <2>4
<1>5. ASSUME NEW t \in Signals, EntryStep(t), ~Refused(t) PROVE UNCHANGED <<broker, sent>>
  BY <1>5 DEF EntryStep, Acknowledged, TimedOut, SubmitRaised, Confirmed, Correlated, external,
              UpdateEntry
<1>6. CASE StarterStep
  BY <1>1, <1>6 DEF StarterStep, BeginRefresh, Refreshed, RefreshFailed, FinishRefreshing,
                    ComparePositions, PositionsFailed, external
<1>7. ASSUME NEW t \in Signals, Approve(t) PROVE UNCHANGED <<broker, sent>>
  BY <1>7 DEF Approve, external
<1>8. ASSUME NEW amount \in PnlAmounts, RecordRealizedPnl(amount) PROVE UNCHANGED <<broker, sent>>
  BY <1>8 DEF RecordRealizedPnl, external
<1>9. CASE AttemptBlocked \/ QueryFailed \/ EngageKillSwitch \/ Restart \/ NextDay
  BY <1>1, <1>9 DEF AttemptBlocked, QueryFailed, EngageKillSwitch, Restart, NextDay, external
<1>10. CASE UNCHANGED vars
  BY <1>1, <1>10 DEF vars, external
<1> QED
  BY <1>1, <1>2, <1>3, <1>4, <1>5, <1>6, <1>7, <1>8, <1>9, <1>10 DEF Next

\* How one step may change the record of a signal in memory ...
NewRecord(s) ==
  \/ orders'[s] = orders[s]
  \/ orders'[s] = journal.orders[s]
  \/ Unconfirmed(orders'[s])
  \/ Released(orders'[s]) => ~Live(s)'
\* ... and in the journal.
NewJournalRecord(s) ==
  journal'.orders[s] = journal.orders[s] \/ journal'.orders[s] = orders'[s]

LEMMA PersistRecords ==
  ASSUME NEW o, NEW r, NEW k, Persisted(o, r, k) \/ PersistFailed(o, r)
  PROVE  orders' = o /\ (journal' = journal \/ journal'.orders = o)
BY DEF Persisted, PersistFailed, Snapshot

LEMMA UpdateRecords ==
  ASSUME TypeInv, NEW s \in Signals, NEW rec \in OrderRecord,
         Updated(s, rec) \/ UpdateFailed(s, rec)
  PROVE  /\ \A t \in Signals : orders'[t] = IF t = s THEN rec ELSE orders[t]
         /\ \A t \in Signals : NewJournalRecord(t)
<1> DEFINE o == WithRecord(s, rec)
<1>1. Persisted(o, RefreshExposure(risk, o), kill) \/ PersistFailed(o, RefreshExposure(risk, o))
  BY DEF Updated, UpdateFailed
<1>2. \A t \in Signals : o[t] = IF t = s THEN rec ELSE orders[t]
  BY WithRecordType DEF TypeInv
<1> HIDE DEF o
<1>3. orders' = o /\ (journal' = journal \/ journal'.orders = o)
  BY <1>1, PersistRecords
<1> QED
  BY <1>2, <1>3 DEF NewJournalRecord

\* A broker's answer that releases the slot describes an order that is over.
LEMMA AnswerOver ==
  ASSUME TypeInv, NEW s \in Signals, NEW rec \in OrderRecord, NEW reply \in Replies(s),
         Released(Applied(rec, reply))
  PROVE  ~Live(s)
<1>1. TypeOK /\ broker[s].filled \in 0 .. Quantity
  BY DEF TypeInv, TypeOK
<1>2. reply \in Answers /\ (reply.st # "" => reply.st = broker[s].st /\ reply.filled = broker[s].filled)
  BY <1>1, RepliesType
<1>3. /\ Applied(rec, reply) \in OrderRecord
      /\ Applied(rec, reply).filled >= reply.filled
      /\ Applied(rec, reply).status = "REJECTED" => reply.st = "REJECTED"
      /\ Applied(rec, reply).status = "CANCELLED" => reply.st = "CANCELLED"
  BY <1>2, AppliedType
<1>4. Applied(rec, reply).filled \in 0 .. Quantity /\ reply.filled \in 0 .. Quantity
  BY <1>2, <1>3 DEF OrderRecord, Answers
<1>5. /\ ~(Applied(rec, reply).filled > 0)
      /\ Applied(rec, reply).status \in {"REJECTED", "CANCELLED"}
  BY DEF Released, Reserves
<1>6. reply.st \in {"REJECTED", "CANCELLED"} /\ reply.filled = 0
  BY <1>3, <1>4, <1>5, LimitsAssumption
<1>7. broker[s].st \in {"REJECTED", "CANCELLED"} /\ broker[s].filled = 0
  BY <1>2, <1>6
<1> QED
  BY <1>7 DEF Live

LEMMA RecordsOfStep ==
  ASSUME AmbiguousErrors = FALSE, TypeInv, RecordInv, BrokerInv, [Next]_vars, NEW s \in Signals
  PROVE  NewRecord(s) /\ NewJournalRecord(s)
<1> USE DEF NewRecord
<1>0. /\ TypeOK /\ CoroutinesHaveSignal
      /\ entry.rec \in OrderRecord /\ starter.rec \in OrderRecord
  BY DEF TypeInv, TypeOK
<1>1. CASE UNCHANGED <<orders, journal>>
  BY <1>1 DEF NewJournalRecord
<1>2. ASSUME NEW t \in Signals, Approve(t) PROVE NewRecord(s) /\ NewJournalRecord(s)
  <2> DEFINE o == WithRecord(t, Requested)
  <2>1. o[s] = Requested \/ o[s] = orders[s]
    BY <1>0, ConstantRecords, WithRecordType
  <2>2. orders' = o /\ (journal' = journal \/ journal'.orders = o)
    BY <1>2, PersistRecords DEF Approve
  <2> HIDE DEF o
  <2>3. Unconfirmed(Requested)
    BY ConstantRecords DEF Unconfirmed, Requested
  <2> QED
    BY <2>1, <2>2, <2>3 DEF NewJournalRecord
<1>3. ASSUME NEW t \in Signals, EntryStep(t) PROVE NewRecord(s) /\ NewJournalRecord(s)
  <2>1. CASE Acknowledged(t)
    <3> DEFINE rec == [entry.rec EXCEPT !.status = MapStatus(broker[t].st, "SUBMITTED"), !.id = TRUE]
    <3>1. MapStatus(broker[t].st, "SUBMITTED") \in OrderStatus
      BY <2>1, MapStatusType DEF Acknowledged
    <3>2. rec \in OrderRecord /\ Unconfirmed(rec)
      BY <1>0, <2>1, <3>1 DEF OrderRecord, OrderStatus, Unconfirmed, NoOrder, RecordInv,
                              EntryRecordFresh, Acknowledged
    <3>3. Updated(t, rec) \/ UpdateFailed(t, rec)
      BY <2>1 DEF Acknowledged, UpdateEntry
    <3> HIDE DEF rec
    <3> QED
      BY <3>2, <3>3, UpdateRecords
  <2>2. CASE TimedOut(t)
    <3> DEFINE rec == [entry.rec EXCEPT !.status = "UNKNOWN"]
    <3>1. rec \in OrderRecord /\ Unconfirmed(rec)
      BY <1>0, <2>2 DEF OrderRecord, OrderStatus, Unconfirmed, NoOrder, RecordInv,
                        EntryRecordFresh, TimedOut
    <3>2. Updated(t, rec) \/ UpdateFailed(t, rec)
      BY <2>2 DEF TimedOut, UpdateEntry
    <3> HIDE DEF rec
    <3> QED
      BY <3>1, <3>2, UpdateRecords
  <2>3. CASE Refused(t)
    <3>1. Rejection(entry.rec) \in OrderRecord
      BY <1>0 DEF Rejection, OrderRecord, OrderStatus
    <3>2. ~Live(t)'
      BY <1>0, <2>3, LimitsAssumption DEF Refused, Live, BrokerInv, Unfilled, TypeOK
    <3>3. Updated(t, Rejection(entry.rec)) \/ UpdateFailed(t, Rejection(entry.rec))
      BY <2>3 DEF Refused, UpdateEntry
    <3> QED
      BY <3>1, <3>2, <3>3, UpdateRecords
  <2>4. CASE SubmitRaised(t)
    BY <1>1, <2>4 DEF SubmitRaised
  <2>5. CASE Confirmed(t) \/ Correlated(t)
    <3>1. PICK reply \in Replies(t) : UpdateEntry(t, Applied(entry.rec, reply), "idle")
      BY <2>5 DEF Confirmed, Correlated
    <3>2. Applied(entry.rec, reply) \in OrderRecord
      BY <1>0, RepliesType, AppliedType
    <3>3. Released(Applied(entry.rec, reply)) => ~Live(t)
      BY <1>0, AnswerOver
    <3>4. Live(t)' => Live(t)
      BY <2>5 DEF Confirmed, Correlated, Live
    <3>5. Updated(t, Applied(entry.rec, reply)) \/ UpdateFailed(t, Applied(entry.rec, reply))
      BY <3>1 DEF UpdateEntry
    <3> QED
      BY <3>2, <3>3, <3>4, <3>5, UpdateRecords
  <2> QED
    BY <1>3, <2>1, <2>2, <2>3, <2>4, <2>5 DEF EntryStep
<1>4. CASE Refreshed
  <2>1. PICK t \in Signals : t = starter.signal
    BY <1>0, <1>4 DEF Refreshed, CoroutinesHaveSignal
  <2>2. PICK reply \in Replies(t) :
          Updated(t, Applied(starter.rec, reply)) \/ UpdateFailed(t, Applied(starter.rec, reply))
    BY <1>4, <2>1 DEF Refreshed
  <2>3. Applied(starter.rec, reply) \in OrderRecord
    BY <1>0, RepliesType, AppliedType
  <2>4. Released(Applied(starter.rec, reply)) => ~Live(t)
    BY <1>0, AnswerOver
  <2>5. Live(t)' => Live(t)
    BY <1>4 DEF Refreshed, Live, external
  <2> QED
    BY <2>2, <2>3, <2>4, <2>5, UpdateRecords
<1>5. CASE StarterStep /\ ~Refreshed
  BY <1>1, <1>5 DEF StarterStep, BeginRefresh, RefreshFailed, FinishRefreshing,
                    ComparePositions, PositionsFailed
<1>6. CASE EngageKillSwitch
  BY <1>6, PersistRecords DEF EngageKillSwitch, NewJournalRecord
<1>7. ASSUME NEW amount \in PnlAmounts, RecordRealizedPnl(amount)
      PROVE  NewRecord(s) /\ NewJournalRecord(s)
  BY <1>7, PersistRecords DEF RecordRealizedPnl, NewJournalRecord
<1>8. CASE Restart
  BY <1>8 DEF Restart, NewJournalRecord
<1>9. ASSUME NEW t \in Signals, Send(t) \/ Deliver(t) \/ Fill(t) \/ Cancel(t) \/ SquareOff(t)
      PROVE  UNCHANGED <<orders, journal>>
  BY <1>9 DEF Send, Deliver, Fill, Cancel, SquareOff, BrokerStep, process
<1>10. CASE AttemptBlocked \/ QueryFailed \/ NextDay
  BY <1>1, <1>10 DEF AttemptBlocked, QueryFailed, NextDay, process
<1>11. CASE UNCHANGED vars
  BY <1>1, <1>11 DEF vars, process
<1> QED
  BY <1>1, <1>2, <1>3, <1>4, <1>5, <1>6, <1>7, <1>8, <1>9, <1>10, <1>11 DEF Next

LEMMA SlotStep ==
  ASSUME AmbiguousErrors = FALSE, TypeInv, RecordInv, SlotInv, [Next]_vars
  PROVE  SlotInv'
<1>1. BrokerInv'
  BY BrokerStepInv DEF SlotInv, BrokerInv
<1>2. ASSUME NEW s \in Signals PROVE ReleasedIsOver(s)'
  <2>0. ReleasedIsOver(s) /\ BrokerInv /\ CoroutinesHaveSignal
    BY DEF SlotInv, BrokerInv, TypeInv
  <2>1. NewRecord(s) /\ NewJournalRecord(s)
    BY <2>0, RecordsOfStep
  <2>2. Unconfirmed(orders'[s]) => ~Released(orders'[s])
    BY DEF Unconfirmed, Released, Reserves
  <2>3. CASE Send(s)
    <3>1. orders'[s] = Requested /\ journal'.orders[s] = Requested
      BY <2>3 DEF Send, RecordInv, SubmitRecord
    <3>2. ~Released(Requested)
      BY DEF Released, Reserves, Requested
    <3> QED
      BY <3>1, <3>2 DEF ReleasedIsOver
  <2>4. CASE ~Send(s)
    <3>1. Live(s)' => Live(s)
      BY <2>4, LifeBegins
    <3> QED
      BY <2>0, <2>1, <2>2, <3>1 DEF ReleasedIsOver, NewRecord, NewJournalRecord
  <2> QED
    BY <2>3, <2>4
<1> QED
  BY <1>1, <1>2 DEF SlotInv, BrokerInv

LEMMA SlotInit == Init => SlotInv
BY DEF Init, SlotInv, Unfilled, Unsent, ReleasedIsOver, Released, Reserves, Snapshot,
       UnsentBroker, NoOrder

\* Every order alive at the broker is a known key that holds its slot.
LEMMA SlotsHeld == TypeInv /\ LedgerInv /\ SlotInv => SlotRetained
<1> SUFFICES ASSUME TypeInv, LedgerInv, SlotInv, NEW s \in Signals, Live(s)
             PROVE  Reserves(orders[s])
  BY DEF SlotRetained
<1>1. broker[s].filled \in 0 .. Quantity /\ sent[s] \in Nat
  BY DEF TypeInv, TypeOK
<1>2. broker[s].st # "none"
  BY <1>1, LimitsAssumption DEF SlotInv, Unfilled, Live
<1>3. sent[s] > 0
  BY <1>1, <1>2 DEF SlotInv, Unsent
<1>4. orders[s] # NoOrder
  BY <1>3 DEF LedgerInv, KeyIsDurable, JournalKnowsLess
<1> QED
  BY <1>4 DEF SlotInv, ReleasedIsOver, Released

\* If an ExecutionError always means that the broker has no order, then whatever
\* is alive at the broker holds a position slot in the service.
THEOREM SlotsRetained ==
  ASSUME AmbiguousErrors = FALSE
  PROVE  Spec => []SlotRetained
<1> DEFINE I == TypeInv /\ LedgerInv /\ StartupInv /\ RecordInv /\ SlotInv
<1>1. Init => I
  BY TypeInit, LedgerInit, StartupInit, RecordInit, SlotInit
<1>2. I /\ [Next]_vars => I'
  BY TypeStep, LedgerStep, StartupStep, RecordStep, SlotStep
<1>3. I => SlotRetained
  BY SlotsHeld
<1> QED
  BY <1>1, <1>2, <1>3, PTL DEF Spec

-----------------------------------------------------------------------------
(* Layer 6: the position limit *)

Slots(o) == {s \in Signals : Reserves(o[s])}

\* Fewer slots, smaller exposure.
LEMMA FewerSlots ==
  ASSUME NEW o, NEW p, Slots(p) \subseteq Slots(o)
  PROVE  Exposure(p) <= Exposure(o)
<1>1. IsFiniteSet(Slots(o))
  BY ExposureType DEF Slots
<1> QED
  BY <1>1, FS_Subset DEF Exposure, Slots

\* A new reservation adds one slot.
LEMMA OneMoreSlot ==
  ASSUME NEW o, NEW p, NEW s \in Signals, ~Reserves(o[s]),
         \A t \in Signals : t # s => p[t] = o[t]
  PROVE  Exposure(p) <= Exposure(o) + 1
<1>1. IsFiniteSet(Slots(o)) /\ IsFiniteSet(Slots(p))
  BY ExposureType DEF Slots
<1>2. Slots(p) \subseteq Slots(o) \cup {s} /\ s \notin Slots(o)
  BY DEF Slots
<1>3. IsFiniteSet(Slots(o) \cup {s}) /\ Cardinality(Slots(o) \cup {s}) = Cardinality(Slots(o)) + 1
  BY <1>1, <1>2, FS_AddElement
<1>4. Cardinality(Slots(p)) <= Cardinality(Slots(o) \cup {s})
  BY <1>2, <1>3, FS_Subset
<1> QED
  BY <1>3, <1>4 DEF Exposure, Slots

ExposureBounds ==
  /\ risk.open = Exposure(orders)
  /\ Exposure(orders) <= MaxOpenPositions
  /\ Exposure(journal.orders) <= MaxOpenPositions

\* A step that gives no new slot and keeps the counter up to date.
LEMMA BoundsKept ==
  ASSUME ExposureInv, Slots(orders') \subseteq Slots(orders),
         risk'.open = Exposure(orders'),
         journal' = journal \/ journal'.orders = orders'
  PROVE  ExposureBounds'
<1>1. Exposure(orders') <= Exposure(orders)
  BY FewerSlots
<1>2. Exposure(orders) \in Nat /\ Exposure(orders') \in Nat
  BY ExposureType
<1> QED
  BY <1>1, <1>2, LimitsAssumption DEF ExposureInv, ExposureBounds

\* The operators on RiskState that are not _refresh_exposure leave the counter alone.
LEMMA OpenKept ==
  ASSUME NEW r \in RiskRecord, NEW o
  PROVE  /\ RolledOver(r).open = r.open
         /\ \A amount : WithPnl(r, amount).open = r.open
         /\ RefreshExposure(r, o).open = Exposure(o)
         /\ Reserved(r, o).open = Exposure(o)
<1>1. RolledOver(r).open = r.open
  <2>1. ResetDay(r).open = r.open /\ [r EXCEPT !.day = today].open = r.open
    BY DEF ResetDay, RiskRecord
  <2> QED
    BY <2>1 DEF RolledOver
<1>2. \A amount : WithPnl(r, amount).open = r.open
  <2> SUFFICES ASSUME NEW amount PROVE WithPnl(r, amount).open = r.open
    OBVIOUS
  <2>1. ASSUME NEW p, NEW l PROVE [r EXCEPT !.pnl = p, !.locked = l].open = r.open
    BY DEF RiskRecord
  <2> QED
    BY <2>1 DEF WithPnl
<1>3. RefreshExposure(r, o).open = Exposure(o)
  BY DEF RefreshExposure, RiskRecord
<1>4. Reserved(r, o).open = Exposure(o)
  <2>1. ASSUME NEW q, q \in [trades : {r.trades}, open : {Exposure(o)}, pnl : {r.pnl},
                             locked : {r.locked}, day : {r.day}]
        PROVE  [q EXCEPT !.trades = @ + 1].open = Exposure(o)
    BY <2>1
  <2>2. RefreshExposure(r, o) \in [trades : {r.trades}, open : {Exposure(o)}, pnl : {r.pnl},
                                   locked : {r.locked}, day : {r.day}]
    BY DEF RefreshExposure, RiskRecord
  <2> QED
    BY <2>1, <2>2 DEF Reserved, ReserveRisk
<1> QED
  BY <1>1, <1>2, <1>3, <1>4

\* _update of a record that already held a slot.
LEMMA UpdateBounds ==
  ASSUME TypeInv, ExposureInv, NEW s \in Signals, NEW rec \in OrderRecord, Reserves(orders[s]),
         Updated(s, rec) \/ UpdateFailed(s, rec)
  PROVE  ExposureBounds' /\ \A t \in Signals : t # s => orders'[t] = orders[t]
<1> DEFINE o == WithRecord(s, rec)
<1>0. risk \in RiskRecord
  BY DEF TypeInv, TypeOK
<1>1. \A t \in Signals : t # s => o[t] = orders[t]
  BY WithRecordType DEF TypeInv
<1>2. orders' = o /\ risk' = RefreshExposure(risk, o)
      /\ (journal' = journal \/ journal'.orders = o)
  BY DEF Updated, UpdateFailed, Persisted, PersistFailed, Snapshot
<1> HIDE DEF o
<1>3. Slots(o) \subseteq Slots(orders)
  BY <1>1 DEF Slots
<1>4. risk'.open = Exposure(orders')
  BY <1>0, <1>2, OpenKept
<1>5. ExposureBounds'
  BY <1>2, <1>3, <1>4, BoundsKept
<1> QED
  BY <1>1, <1>2, <1>5

\* A step of the entry coroutine: its record holds a slot, the startup task is over.
LEMMA EntryBounds ==
  ASSUME TypeInv, StartupInv, RecordInv, ExposureInv, NEW s \in Signals,
         entry.signal = s, entry.pc # "idle", NEW rec \in OrderRecord, NEW pc,
         UpdateEntry(s, rec, pc)
  PROVE  ExposureInv'
<1>1. Reserves(orders[s])
  BY DEF RecordInv, EntryRecordFresh, Unconfirmed, Reserves
<1>2. ExposureBounds'
  BY <1>1, UpdateBounds DEF UpdateEntry
<1>3. starter.pc = "done" /\ UNCHANGED starter
  BY DEF StartupInv, StartupExcludesEntry, UpdateEntry
<1>4. StarterHoldsSlots'
  BY <1>3 DEF ExposureInv, StarterHoldsSlots
<1> QED
  BY <1>2, <1>4 DEF ExposureInv, ExposureBounds

\* Steps that touch neither the orders nor the startup task's list.
LEMMA ExposureKept ==
  ASSUME ExposureInv, UNCHANGED <<orders, starter>>, risk'.open = risk.open,
         journal' = journal \/ journal'.orders = orders
  PROVE  ExposureInv'
BY DEF ExposureInv, StarterHoldsSlots

LEMMA ExposureStep ==
  ASSUME TypeInv, LedgerInv, StartupInv, RecordInv, ExposureInv, [Next]_vars
  PROVE  ExposureInv'
<1>0. /\ TypeOK /\ CoroutinesHaveSignal
      /\ entry.rec \in OrderRecord /\ starter.rec \in OrderRecord
      /\ risk \in RiskRecord /\ journal.risk \in RiskRecord
      /\ starter.todo \subseteq Signals
      /\ entry.pc # "idle" => starter.pc = "done"
  BY DEF TypeInv, TypeOK, StartupInv, StartupExcludesEntry
<1>1. CASE AttemptBlocked
  BY <1>0, <1>1, OpenKept, ExposureKept DEF AttemptBlocked
<1>2. ASSUME NEW s \in Signals, Approve(s) PROVE ExposureInv'
  <2> DEFINE r == RolledOver(risk)
             o == WithRecord(s, Requested)
  <2>1. orders[s] = NoOrder /\ RiskApproves(r) /\ starter.pc = "done" /\ UNCHANGED starter
    BY <1>2 DEF Approve, CanExecuteOrder, StartupInv, OkMeansDone
  <2>2. orders' = o /\ risk' = Reserved(r, o) /\ (journal' = journal \/ journal'.orders = o)
    BY <1>2 DEF Approve, Persisted, PersistFailed, Snapshot
  <2>3. \A t \in Signals : t # s => o[t] = orders[t]
    BY <1>0, ConstantRecords, WithRecordType
  <2>4. r \in RiskRecord /\ r.open = risk.open
    BY <1>0, OpenKept, RiskOperatorsType
  <2>5. r.open < MaxOpenPositions
    BY <2>1 DEF RiskApproves
  <2> HIDE DEF r, o
  <2>6. risk'.open = Exposure(o)
    BY <2>2, <2>4, OpenKept
  <2>7. Exposure(o) <= Exposure(orders) + 1
    BY <2>1, <2>3, OneMoreSlot DEF Reserves
  <2>8. Exposure(orders) \in Nat /\ Exposure(o) \in Nat
    BY ExposureType
  <2>9. Exposure(o) <= MaxOpenPositions
    BY <2>4, <2>5, <2>7, <2>8, LimitsAssumption DEF ExposureInv
  <2>10. StarterHoldsSlots'
    BY <2>1 DEF ExposureInv, StarterHoldsSlots
  <2> QED
    BY <2>2, <2>6, <2>9, <2>10 DEF ExposureInv
<1>3. ASSUME NEW s \in Signals, Send(s) PROVE ExposureInv'
  BY <1>3, ExposureKept DEF Send
<1>4. ASSUME NEW s \in Signals, EntryStep(s) PROVE ExposureInv'
  <2>1. CASE Acknowledged(s)
    <3> DEFINE rec == [entry.rec EXCEPT !.status = MapStatus(broker[s].st, "SUBMITTED"), !.id = TRUE]
    <3>1. MapStatus(broker[s].st, "SUBMITTED") \in OrderStatus
      BY <2>1, MapStatusType DEF Acknowledged
    <3>2. rec \in OrderRecord
      BY <1>0, <3>1 DEF OrderRecord
    <3> HIDE DEF rec
    <3> QED
      BY <2>1, <3>2, EntryBounds DEF Acknowledged, rec
  <2>2. CASE TimedOut(s)
    <3> DEFINE rec == [entry.rec EXCEPT !.status = "UNKNOWN"]
    <3>1. rec \in OrderRecord
      BY <1>0 DEF OrderRecord, OrderStatus
    <3> HIDE DEF rec
    <3> QED
      BY <2>2, <3>1, EntryBounds DEF TimedOut, rec
  <2>3. CASE Refused(s)
    <3>1. Rejection(entry.rec) \in OrderRecord
      BY <1>0 DEF Rejection, OrderRecord, OrderStatus
    <3> QED
      BY <2>3, <3>1, EntryBounds DEF Refused
  <2>4. CASE SubmitRaised(s)
    BY <2>4, ExposureKept DEF SubmitRaised
  <2>5. CASE Confirmed(s) \/ Correlated(s)
    <3>1. PICK reply \in Replies(s) : UpdateEntry(s, Applied(entry.rec, reply), "idle")
      BY <2>5 DEF Confirmed, Correlated
    <3>2. Applied(entry.rec, reply) \in OrderRecord
      BY <1>0, RepliesType, AppliedType
    <3> QED
      BY <2>5, <3>1, <3>2, EntryBounds DEF Confirmed, Correlated
  <2> QED
    BY <1>4, <2>1, <2>2, <2>3, <2>4, <2>5 DEF EntryStep
<1>5. CASE QueryFailed
  BY <1>5, ExposureKept DEF QueryFailed
<1>6. CASE StarterStep
  <2>1. NextRefresh.todo = starter.todo /\ NextRefresh.pc = "refresh"
    BY <1>0 DEF NextRefresh, TypeOK
  <2>2. StarterAt("done", {}).todo = {} /\ StarterAt("done", {}).pc = "done"
    BY DEF StarterAt
  <2>3. ASSUME UNCHANGED <<orders, risk, journal>>, StarterHoldsSlots' PROVE ExposureInv'
    BY <2>3 DEF ExposureInv
  <2>4. ASSUME NEW s \in Signals, BeginRefresh(s) PROVE ExposureInv'
    <3>1. starter'.pc = "query" /\ starter'.signal = s /\ starter'.todo = starter.todo \ {s}
      BY <1>0, <2>4 DEF BeginRefresh, TypeOK
    <3>2. s \in starter.todo /\ UNCHANGED <<orders, risk, journal>>
      BY <2>4 DEF BeginRefresh
    <3>3. StarterHoldsSlots'
      BY <3>1, <3>2 DEF ExposureInv, StarterHoldsSlots
    <3> QED
      BY <2>3, <3>2, <3>3
  <2>5. CASE Refreshed
    <3>1. PICK s \in Signals : s = starter.signal
      BY <1>0, <2>5 DEF Refreshed, CoroutinesHaveSignal
    <3>2. Reserves(orders[s]) /\ s \notin starter.todo
      BY <2>5, <3>1 DEF Refreshed, ExposureInv, StarterHoldsSlots
    <3>3. PICK reply \in Replies(s) :
            \/ /\ Updated(s, Applied(starter.rec, reply))
               /\ starter' = NextRefresh
            \/ /\ UpdateFailed(s, Applied(starter.rec, reply))
               /\ starter' = StarterAt("done", {})
      BY <2>5, <3>1 DEF Refreshed
    <3>4. Applied(starter.rec, reply) \in OrderRecord
      BY <1>0, RepliesType, AppliedType
    <3>5. ExposureBounds' /\ \A t \in Signals : t # s => orders'[t] = orders[t]
      BY <3>2, <3>3, <3>4, UpdateBounds
    <3>6. StarterHoldsSlots'
      BY <1>0, <2>1, <2>2, <3>2, <3>3, <3>5 DEF ExposureInv, StarterHoldsSlots
    <3> QED
      BY <3>5, <3>6 DEF ExposureInv, ExposureBounds
  <2>6. CASE RefreshFailed
    <3>1. StarterHoldsSlots'
      BY <2>1, <2>6 DEF RefreshFailed, ExposureInv, StarterHoldsSlots
    <3> QED
      BY <2>3, <2>6, <3>1 DEF RefreshFailed
  <2>7. CASE FinishRefreshing
    <3>1. starter'.todo = {} /\ starter'.pc # "query"
      BY <1>0, <2>2, <2>7 DEF FinishRefreshing, TypeOK
    <3>2. StarterHoldsSlots'
      BY <3>1 DEF StarterHoldsSlots
    <3> QED
      BY <2>3, <2>7, <3>2 DEF FinishRefreshing
  <2>8. CASE ComparePositions \/ PositionsFailed
    <3>1. StarterHoldsSlots'
      BY <2>2, <2>8 DEF ComparePositions, PositionsFailed, StarterHoldsSlots
    <3> QED
      BY <2>3, <2>8, <3>1 DEF ComparePositions, PositionsFailed
  <2> QED
    BY <1>6, <2>4, <2>5, <2>6, <2>7, <2>8 DEF StarterStep
<1>7. CASE EngageKillSwitch
  <2>1. Persisted(orders, risk, TRUE) \/ PersistFailed(orders, risk)
    BY <1>7 DEF EngageKillSwitch
  <2> QED
    BY <1>7, <2>1, ExposureKept DEF EngageKillSwitch, Persisted, PersistFailed, Snapshot
<1>8. ASSUME NEW amount \in PnlAmounts, RecordRealizedPnl(amount) PROVE ExposureInv'
  <2>1. Persisted(orders, WithPnl(risk, amount), kill) \/ PersistFailed(orders, WithPnl(risk, amount))
    BY <1>8 DEF RecordRealizedPnl
  <2>2. risk' = WithPnl(risk, amount) /\ UNCHANGED <<orders, starter>>
        /\ (journal' = journal \/ journal'.orders = orders)
    BY <1>8, <2>1 DEF RecordRealizedPnl, Persisted, PersistFailed, Snapshot
  <2> QED
    BY <1>0, <2>2, OpenKept, ExposureKept
<1>9. ASSUME NEW s \in Signals, Deliver(s) \/ Fill(s) \/ Cancel(s) \/ SquareOff(s)
      PROVE  ExposureInv'
  BY <1>9, ExposureKept DEF Deliver, Fill, Cancel, SquareOff, BrokerStep, process
<1>10. CASE Restart
  <2>1. orders' = journal.orders /\ UNCHANGED journal
        /\ risk' = RefreshExposure(journal.risk, journal.orders)
        /\ starter'.pc = "refresh"
        /\ starter'.todo = {s \in Signals : IsUncertain(journal.orders[s])}
    BY <1>10 DEF Restart, StarterAt
  <2>2. \A s \in starter'.todo : Reserves(orders'[s])
    BY <2>1 DEF IsUncertain, Reserves, Uncertain
  <2>3. risk'.open = Exposure(journal.orders)
    BY <1>0, <2>1, OpenKept
  <2> QED
    BY <2>1, <2>2, <2>3 DEF ExposureInv, StarterHoldsSlots
<1>11. CASE NextDay
  BY <1>11, ExposureKept DEF NextDay, process
<1>12. CASE UNCHANGED vars
  BY <1>12, ExposureKept DEF vars, process
<1> QED
  BY <1>1, <1>2, <1>3, <1>4, <1>5, <1>6, <1>7, <1>8, <1>9, <1>10, <1>11, <1>12 DEF Next

LEMMA ExposureInit == Init => ExposureInv
<1> SUFFICES ASSUME Init PROVE ExposureInv
  OBVIOUS
<1>1. {s \in Signals : Reserves(orders[s])} = {}
  BY DEF Init, Reserves
<1>2. Exposure(orders) = 0
  BY <1>1, FS_EmptySet DEF Exposure
<1> QED
  BY <1>2, LimitsAssumption DEF Init, ExposureInv, StarterHoldsSlots, StarterAt, NewRisk, Snapshot

\* Live orders hold slots and slots are bounded.
LEMMA LiveBounded == TypeInv /\ LedgerInv /\ SlotInv /\ ExposureInv => RealExposureBounded
<1> SUFFICES ASSUME TypeInv, LedgerInv, SlotInv, ExposureInv PROVE RealExposureBounded
  OBVIOUS
<1> DEFINE L == {s \in Signals : Live(s)}
<1>1. L \subseteq Slots(orders)
  BY SlotsHeld DEF SlotRetained, Slots
<1>2. IsFiniteSet(Slots(orders))
  BY ExposureType DEF Slots
<1>3. Cardinality(L) <= Cardinality(Slots(orders)) /\ IsFiniteSet(L)
  BY <1>1, <1>2, FS_Subset
<1>4. Cardinality(L) \in Nat /\ Cardinality(Slots(orders)) \in Nat
  BY <1>2, <1>3, FS_CardinalityType
<1>5. Cardinality(Slots(orders)) <= MaxOpenPositions
  BY DEF ExposureInv, Exposure, Slots
<1> QED
  BY <1>3, <1>4, <1>5, LimitsAssumption DEF RealExposureBounded

\* The broker never carries more positions and working orders of this service than
\* risk_max_open_positions, through crashes, lost answers and failing journal writes.
THEOREM ExposureBounded ==
  ASSUME AmbiguousErrors = FALSE
  PROVE  Spec => []RealExposureBounded
<1> DEFINE I == TypeInv /\ LedgerInv /\ StartupInv /\ RecordInv /\ SlotInv /\ ExposureInv
<1>1. Init => I
  BY TypeInit, LedgerInit, StartupInit, RecordInit, SlotInit, ExposureInit
<1>2. I /\ [Next]_vars => I'
  BY TypeStep, LedgerStep, StartupStep, RecordStep, SlotStep, ExposureStep
<1>3. I => RealExposureBounded
  BY LiveBounded
<1> QED
  BY <1>1, <1>2, <1>3, PTL DEF Spec

-----------------------------------------------------------------------------
(* Layer 7: orders of an earlier life *)

\* Which steps touch the approvals.
LEMMA ApprovalOnlyByApprove ==
  ASSUME [Next]_vars, Approves
  PROVE  \E s \in Signals : Approve(s)
<1> USE DEF Approves
<1>1. ASSUME NEW s \in Signals, Send(s) \/ EntryStep(s) PROVE UNCHANGED approval
  BY <1>1 DEF Send, EntryStep, Acknowledged, TimedOut, Refused, SubmitRaised, Confirmed,
              Correlated, UpdateEntry, history
<1>2. CASE StarterStep
  BY <1>2 DEF StarterStep, BeginRefresh, Refreshed, RefreshFailed, FinishRefreshing,
              ComparePositions, PositionsFailed, history
<1>3. ASSUME NEW amount \in PnlAmounts, RecordRealizedPnl(amount) PROVE UNCHANGED approval
  BY <1>3 DEF RecordRealizedPnl
<1>4. ASSUME NEW s \in Signals, Deliver(s) \/ Fill(s) \/ Cancel(s) \/ SquareOff(s)
      PROVE  UNCHANGED approval
  BY <1>4 DEF Deliver, Fill, Cancel, SquareOff, BrokerStep, history
<1>5. CASE AttemptBlocked \/ QueryFailed \/ EngageKillSwitch \/ Restart \/ NextDay
  BY <1>5 DEF AttemptBlocked, QueryFailed, EngageKillSwitch, Restart, NextDay, history
<1>6. CASE UNCHANGED vars
  BY <1>6 DEF vars, history
<1> QED
  BY <1>1, <1>2, <1>3, <1>4, <1>5, <1>6 DEF Next

\* A step that keeps the orders, the approvals and the life.
LEMMA RestoredKept ==
  ASSUME RestoredInv, UNCHANGED <<orders, approval, life>>,
         recon' = "OK" => recon = "OK" \/ starter.pc = "positions",
         UNCHANGED entry \/ entry'.pc = "idle",
         starter'.pc = "positions" => starter.pc = "positions" \/ NoneUncertain
  PROVE  RestoredInv'
<1>1. EntryIsOfThisLife'
  BY DEF RestoredInv, EntryIsOfThisLife
<1>2. PositionsAfterResolution'
  BY DEF RestoredInv, PositionsAfterResolution, NoneUncertain
<1>3. RestoredOrdersResolved'
  BY DEF RestoredInv, RestoredOrdersResolved, PositionsAfterResolution, NoneUncertain
<1> QED
  BY <1>1, <1>2, <1>3 DEF RestoredInv

LEMMA RestoredStep ==
  ASSUME TypeInv, StartupInv, RestoredInv, [Next]_vars
  PROVE  RestoredInv'
<1>0. /\ TypeOK /\ CoroutinesHaveSignal
      /\ starter.rec \in OrderRecord
      /\ entry.rec \in OrderRecord
      /\ entry.pc # "idle" => starter.pc = "done"
      /\ recon = "OK" => starter.pc = "done"
      /\ life \in Int /\ approval \in [Signals -> [day : 0 .. MaxDay, life : 0 .. MaxRestarts]]
  BY DEF TypeInv, TypeOK, StartupInv, StartupExcludesEntry, OkMeansDone
<1>1. CASE AttemptBlocked
  BY <1>1, RestoredKept DEF AttemptBlocked, history, bounds
<1>2. ASSUME NEW s \in Signals, Approve(s) PROVE RestoredInv'
  <2>1. starter.pc = "done" /\ UNCHANGED <<starter, life>> /\ recon = "OK"
    BY <1>2 DEF Approve, CanExecuteOrder, StartupInv, OkMeansDone
  <2>2. orders' = WithRecord(s, Requested)
    BY <1>2 DEF Approve, Persisted, PersistFailed
  <2>3. \A t \in Signals : t # s => orders'[t] = orders[t]
    BY <1>0, <2>2, ConstantRecords, WithRecordType
  <2>4. /\ approval'[s].life = life
        /\ \A t \in Signals : t # s => approval'[t] = approval[t]
    BY <1>0, <1>2 DEF Approve
  <2>5. entry'.pc = "idle" \/ entry'.signal = s
    BY <1>2 DEF Approve, EntryAt, IdleEntry
  <2>6. EntryIsOfThisLife'
    BY <2>1, <2>4, <2>5 DEF EntryIsOfThisLife
  <2>7. PositionsAfterResolution'
    BY <2>1 DEF PositionsAfterResolution
  <2>8. RestoredOrdersResolved'
    BY <1>0, <2>1, <2>3, <2>4 DEF RestoredInv, RestoredOrdersResolved
  <2> QED
    BY <2>6, <2>7, <2>8 DEF RestoredInv
<1>3. ASSUME NEW s \in Signals, Send(s) PROVE RestoredInv'
  <2>1. entry'.pc # "idle" /\ entry'.signal = entry.signal /\ entry.pc # "idle"
    BY <1>0, <1>3 DEF Send, TypeOK
  <2>2. UNCHANGED <<orders, approval, life, recon, starter>>
    BY <1>3 DEF Send, history, bounds
  <2> QED
    BY <2>1, <2>2 DEF RestoredInv, EntryIsOfThisLife, PositionsAfterResolution, NoneUncertain,
                      RestoredOrdersResolved
<1>4. ASSUME NEW s \in Signals, NEW rec \in OrderRecord, NEW pc, UpdateEntry(s, rec, pc),
             entry.signal = s, entry.pc # "idle"
      PROVE  RestoredInv'
  <2>1. starter.pc = "done" /\ UNCHANGED <<starter, approval, life>>
    BY <1>0, <1>4 DEF UpdateEntry, history
  <2>2. recon' = "OK" => recon = "OK"
    BY <1>4 DEF UpdateEntry, Updated, UpdateFailed, Persisted, PersistFailed
  <2>3. Updated(s, rec) \/ UpdateFailed(s, rec)
    BY <1>4 DEF UpdateEntry
  <2>4. \A t \in Signals : t # s => orders'[t] = orders[t]
    BY <1>4, <2>3, UpdateRecords
  <2>5. approval[s].life = life
    BY <1>4 DEF RestoredInv, EntryIsOfThisLife
  <2>6. entry'.pc = "idle" \/ entry'.signal = s
    BY <1>4 DEF UpdateEntry, EntryAt, IdleEntry
  <2>7. EntryIsOfThisLife' /\ PositionsAfterResolution'
    BY <2>1, <2>5, <2>6 DEF EntryIsOfThisLife, PositionsAfterResolution
  <2>8. RestoredOrdersResolved'
    BY <1>0, <2>1, <2>2, <2>4, <2>5 DEF RestoredInv, RestoredOrdersResolved
  <2> QED
    BY <2>7, <2>8 DEF RestoredInv
<1>5. ASSUME NEW s \in Signals, EntryStep(s) PROVE RestoredInv'
  <2>1. CASE Acknowledged(s)
    <3> DEFINE rec == [entry.rec EXCEPT !.status = MapStatus(broker[s].st, "SUBMITTED"), !.id = TRUE]
    <3>1. MapStatus(broker[s].st, "SUBMITTED") \in OrderStatus
      BY <2>1, MapStatusType DEF Acknowledged
    <3>2. rec \in OrderRecord
      BY <1>0, <3>1 DEF OrderRecord
    <3> HIDE DEF rec
    <3> QED
      BY <1>4, <2>1, <3>2 DEF Acknowledged, rec
  <2>2. CASE TimedOut(s)
    <3> DEFINE rec == [entry.rec EXCEPT !.status = "UNKNOWN"]
    <3>1. rec \in OrderRecord
      BY <1>0 DEF OrderRecord, OrderStatus
    <3> HIDE DEF rec
    <3> QED
      BY <1>4, <2>2, <3>1 DEF TimedOut, rec
  <2>3. CASE Refused(s)
    <3>1. Rejection(entry.rec) \in OrderRecord
      BY <1>0 DEF Rejection, OrderRecord, OrderStatus
    <3> QED
      BY <1>4, <2>3, <3>1 DEF Refused
  <2>4. CASE SubmitRaised(s)
    BY <2>4, RestoredKept DEF SubmitRaised, IdleEntry, history, bounds
  <2>5. CASE Confirmed(s) \/ Correlated(s)
    <3>1. PICK reply \in Replies(s) : UpdateEntry(s, Applied(entry.rec, reply), "idle")
      BY <2>5 DEF Confirmed, Correlated
    <3>2. Applied(entry.rec, reply) \in OrderRecord
      BY <1>0, RepliesType, AppliedType
    <3> QED
      BY <1>4, <2>5, <3>1, <3>2 DEF Confirmed, Correlated
  <2> QED
    BY <1>5, <2>1, <2>2, <2>3, <2>4, <2>5 DEF EntryStep
<1>6. CASE QueryFailed
  BY <1>6, RestoredKept DEF QueryFailed, IdleEntry, history, bounds
<1>7. CASE StarterStep
  <2>1. starter.pc # "done" /\ UNCHANGED entry /\ entry.pc = "idle" /\ recon # "OK"
    BY <1>0, <1>7 DEF StarterStep, BeginRefresh, Refreshed, RefreshFailed, FinishRefreshing,
                      ComparePositions, PositionsFailed
  <2>2. CASE Refreshed
    <3>1. NextRefresh.pc = "refresh" /\ StarterAt("done", {}).pc = "done"
      BY <1>0 DEF NextRefresh, StarterAt, TypeOK
    <3>2. starter'.pc # "positions"
      BY <2>2, <3>1 DEF Refreshed
    <3>3. recon' # "OK"
      BY <2>1, <2>2 DEF Refreshed, Updated, UpdateFailed, Persisted, PersistFailed
    <3> QED
      BY <2>1, <3>2, <3>3 DEF RestoredInv, EntryIsOfThisLife, PositionsAfterResolution,
                        RestoredOrdersResolved
  <2>3. CASE FinishRefreshing
    <3>1. starter'.pc = "positions" => NoneUncertain
      BY <2>3 DEF FinishRefreshing, AllResolved, StarterAt
    <3>2. recon' # "OK"
      BY <2>1, <2>3 DEF FinishRefreshing
    <3> QED
      BY <2>3, <3>1, <3>2, RestoredKept DEF FinishRefreshing, history, bounds
  <2>4. CASE ComparePositions
    <3>1. starter'.pc # "positions" /\ starter.pc = "positions"
      BY <2>4 DEF ComparePositions, StarterAt
    <3> QED
      BY <2>4, <3>1, RestoredKept DEF ComparePositions, history, bounds
  <2>5. CASE PositionsFailed
    <3>1. starter'.pc # "positions"
      BY <2>5 DEF PositionsFailed, StarterAt
    <3> QED
      BY <2>5, <3>1, RestoredKept DEF PositionsFailed, history, bounds
  <2>6. CASE RefreshFailed
    <3>1. starter'.pc # "positions"
      BY <1>0, <2>6 DEF RefreshFailed, NextRefresh, TypeOK
    <3> QED
      BY <2>6, <3>1, RestoredKept DEF RefreshFailed, history, bounds
  <2>7. ASSUME NEW s \in Signals, BeginRefresh(s) PROVE RestoredInv'
    <3>1. starter'.pc # "positions"
      BY <1>0, <2>7 DEF BeginRefresh, TypeOK
    <3> QED
      BY <2>7, <3>1, RestoredKept DEF BeginRefresh, history, bounds
  <2> QED
    BY <1>7, <2>2, <2>3, <2>4, <2>5, <2>6, <2>7 DEF StarterStep
<1>8. CASE EngageKillSwitch
  BY <1>8, RestoredKept DEF EngageKillSwitch, Persisted, PersistFailed
<1>9. ASSUME NEW amount \in PnlAmounts, RecordRealizedPnl(amount) PROVE RestoredInv'
  BY <1>9, RestoredKept DEF RecordRealizedPnl, Persisted, PersistFailed
<1>10. ASSUME NEW s \in Signals, Deliver(s) \/ Fill(s) \/ Cancel(s) \/ SquareOff(s)
       PROVE  RestoredInv'
  BY <1>10, RestoredKept DEF Deliver, Fill, Cancel, SquareOff, BrokerStep, process, history, bounds
<1>11. CASE Restart
  BY <1>11 DEF Restart, IdleEntry, StarterAt, RestoredInv, EntryIsOfThisLife,
               PositionsAfterResolution, RestoredOrdersResolved
<1>12. CASE NextDay
  BY <1>12, RestoredKept DEF NextDay, process, history, bounds
<1>13. CASE UNCHANGED vars
  BY <1>13, RestoredKept DEF vars, process, history, bounds
<1> QED
  BY <1>1, <1>2, <1>3, <1>5, <1>6, <1>7, <1>8, <1>9, <1>10, <1>11, <1>12, <1>13 DEF Next

LEMMA RestoredInit == Init => RestoredInv
BY DEF Init, RestoredInv, EntryIsOfThisLife, PositionsAfterResolution, RestoredOrdersResolved,
       IdleEntry, StarterAt

\* While entries are allowed, every order inherited from an earlier life of the
\* process has been settled with the broker.
THEOREM RestoredResolved == Spec => []RestoredOrdersResolved
<1> DEFINE I == TypeInv /\ StartupInv /\ RestoredInv
<1>1. Init => I
  BY TypeInit, StartupInit, RestoredInit
<1>2. I /\ [Next]_vars => I'
  BY TypeStep, StartupStep, RestoredStep
<1>3. I => RestoredOrdersResolved
  BY DEF RestoredInv
<1> QED
  BY <1>1, <1>2, <1>3, PTL DEF Spec

-----------------------------------------------------------------------------
(* Layer 8: the locks *)

\* Only engage_kill_switch and record_realized_pnl make promises.
LEMMA PromisesKept ==
  ASSUME [Next]_vars
  PROVE  \/ UNCHANGED <<committed, kill, journal>>
         \/ UNCHANGED committed /\ \E o, r : Persisted(o, r, kill) \/ PersistFailed(o, r)
         \/ UNCHANGED <<committed, journal>> /\ kill' = journal.kill
         \/ EngageKillSwitch
         \/ \E amount \in PnlAmounts : RecordRealizedPnl(amount)
<1>1. ASSUME NEW s \in Signals, Approve(s)
      PROVE  UNCHANGED committed /\ \E o, r : Persisted(o, r, kill) \/ PersistFailed(o, r)
  BY <1>1 DEF Approve
<1>2. ASSUME NEW s \in Signals, NEW rec, Updated(s, rec) \/ UpdateFailed(s, rec)
      PROVE  \E o, r : Persisted(o, r, kill) \/ PersistFailed(o, r)
  BY <1>2 DEF Updated, UpdateFailed
<1>3. ASSUME NEW s \in Signals, EntryStep(s)
      PROVE  /\ UNCHANGED committed
             /\ UNCHANGED <<kill, journal>>
                \/ \E o, r : Persisted(o, r, kill) \/ PersistFailed(o, r)
  <2>1. CASE SubmitRaised(s)
    BY <2>1 DEF SubmitRaised, history
  <2>2. CASE ~SubmitRaised(s)
    <3>1. \E rec, pc : UpdateEntry(s, rec, pc)
      BY <1>3, <2>2 DEF EntryStep, Acknowledged, TimedOut, Refused, Confirmed, Correlated
    <3> QED
      BY <1>2, <3>1 DEF UpdateEntry, history
  <2> QED
    BY <2>1, <2>2
<1>4. CASE Refreshed
  <2>1. PICK rec : Updated(starter.signal, rec) \/ UpdateFailed(starter.signal, rec)
    BY <1>4 DEF Refreshed
  <2>2. \E o, r : Persisted(o, r, kill) \/ PersistFailed(o, r)
    BY <2>1 DEF Updated, UpdateFailed
  <2> QED
    BY <1>4, <2>2 DEF Refreshed, history
<1>5. CASE StarterStep /\ ~Refreshed
  BY <1>5 DEF StarterStep, BeginRefresh, RefreshFailed, FinishRefreshing, ComparePositions,
              PositionsFailed, history
<1>6. CASE Restart
  BY <1>6 DEF Restart, RestartKill, RestoredKill, history
<1>7. ASSUME NEW s \in Signals, Send(s) \/ Deliver(s) \/ Fill(s) \/ Cancel(s) \/ SquareOff(s)
      PROVE  UNCHANGED <<committed, kill, journal>>
  BY <1>7 DEF Send, Deliver, Fill, Cancel, SquareOff, BrokerStep, process, history
<1>8. CASE AttemptBlocked \/ QueryFailed \/ NextDay
  BY <1>8 DEF AttemptBlocked, QueryFailed, NextDay, process, history
<1>9. CASE UNCHANGED vars
  BY <1>9 DEF vars, process, history
<1> QED
  BY <1>1, <1>3, <1>4, <1>5, <1>6, <1>7, <1>8, <1>9 DEF Next

LEMMA KillStep == TypeInv /\ KillInv /\ [Next]_vars => KillInv'
<1> SUFFICES ASSUME TypeInv, KillInv, [Next]_vars PROVE KillInv'
  OBVIOUS
<1> USE DEF KillInv
<1>0. committed \in [kill : BOOLEAN, breached : SUBSET (0 .. MaxDay), lossDays : SUBSET (0 .. MaxDay)]
  BY DEF TypeInv, TypeOK
<1>1. ASSUME NEW o, NEW r, NEW k, kill => k, Persisted(o, r, k) \/ PersistFailed(o, r)
      PROVE  kill /\ journal.kill => kill' /\ journal'.kill
  <2>1. CASE Persisted(o, r, k)
    <3>1. kill' = k /\ journal'.kill = k
      BY <2>1 DEF Persisted, Snapshot
    <3> QED
      BY <1>1, <3>1, Zenon
  <2>2. CASE PersistFailed(o, r)
    BY <2>2 DEF PersistFailed
  <2> QED
    BY <1>1, <2>1, <2>2
<1>2. CASE EngageKillSwitch
  <2>1. CASE Persisted(orders, risk, TRUE)
    BY <2>1 DEF Persisted, Snapshot
  <2>2. CASE PersistFailed(orders, risk) /\ UNCHANGED committed
    BY <1>1, <2>2
  <2> QED
    BY <1>2, <2>1, <2>2 DEF EngageKillSwitch
<1>3. ASSUME NEW amount \in PnlAmounts, RecordRealizedPnl(amount) PROVE KillInv'
  <2>1. committed'.kill = committed.kill
    BY <1>0, <1>3 DEF RecordRealizedPnl
  <2>2. \E r : Persisted(orders, r, kill) \/ PersistFailed(orders, r)
    BY <1>3 DEF RecordRealizedPnl
  <2> QED
    BY <1>1, <2>1, <2>2
<1> QED
  BY <1>1, <1>2, <1>3, PromisesKept

\* Once engage_kill_switch has returned, no signal is approved any more: not in this
\* process and not after any restart.
THEOREM KillSwitchHolds == Spec => KillSwitchSticks
<1>1. Init => KillInv
  BY DEF Init, KillInv
<1>2. KillInv /\ [Next]_vars => [committed.kill => ~Approves]_vars
  <2> SUFFICES ASSUME KillInv, [Next]_vars, committed.kill PROVE ~Approves
    OBVIOUS
  <2>1. ASSUME NEW s \in Signals, Approve(s) PROVE FALSE
    BY <2>1 DEF Approve, CanExecuteOrder, KillInv
  <2> QED
    BY <2>1, ApprovalOnlyByApprove
<1> QED
  BY <1>1, <1>2, TypeInit, TypeStep, KillStep, PTL DEF Spec, KillSwitchSticks

\* Only the rollover of the day and record_realized_pnl touch the lock and its day.
SameLock(q, r) == q.day = r.day /\ q.locked = r.locked
LEMMA LockKept ==
  ASSUME TypeInv, [Next]_vars
  PROVE  \/ UNCHANGED <<committed.breached, today>> /\ (journal' = journal \/ journal'.risk = risk')
            /\ (SameLock(risk', risk) \/ SameLock(risk', journal.risk) \/ SameLock(risk', RolledOver(risk)))
         \/ NextDay
         \/ \E amount \in PnlAmounts : RecordRealizedPnl(amount)
<1> USE DEF SameLock
<1>0. risk \in RiskRecord /\ journal.risk \in RiskRecord /\ RolledOver(risk) \in RiskRecord
  BY RiskOperatorsType DEF TypeInv, TypeOK
<1>1. \A o : \A r \in RiskRecord : SameLock(RefreshExposure(r, o), r) /\ SameLock(Reserved(r, o), r)
  BY DEF RefreshExposure, Reserved, ReserveRisk, RiskRecord
<1>2. ASSUME NEW o, NEW r, NEW k, Persisted(o, r, k) \/ PersistFailed(o, r)
      PROVE  risk' = r /\ (journal' = journal \/ journal'.risk = risk')
  BY <1>2 DEF Persisted, PersistFailed, Snapshot
<1>3. ASSUME NEW s \in Signals, NEW rec, Updated(s, rec) \/ UpdateFailed(s, rec)
      PROVE  SameLock(risk', risk) /\ (journal' = journal \/ journal'.risk = risk')
  <2> DEFINE o == WithRecord(s, rec)
  <2>1. Persisted(o, RefreshExposure(risk, o), kill) \/ PersistFailed(o, RefreshExposure(risk, o))
    BY <1>3 DEF Updated, UpdateFailed
  <2> HIDE DEF o
  <2> QED
    BY <1>0, <1>1, <1>2, <2>1
<1>4. ASSUME NEW s \in Signals, Approve(s)
      PROVE  /\ UNCHANGED <<committed.breached, today>> /\ (journal' = journal \/ journal'.risk = risk')
             /\ SameLock(risk', RolledOver(risk))
  <2> DEFINE r == RolledOver(risk)
             o == WithRecord(s, Requested)
  <2>1. Persisted(o, Reserved(r, o), kill) \/ PersistFailed(o, Reserved(r, o))
    BY <1>4 DEF Approve
  <2>2. UNCHANGED <<committed.breached, today>>
    BY <1>4 DEF Approve, external
  <2> HIDE DEF o, r
  <2>3. risk' = Reserved(r, o) /\ (journal' = journal \/ journal'.risk = risk')
    BY <1>2, <2>1
  <2>4. SameLock(Reserved(r, o), r)
    BY <1>0, <1>1 DEF r
  <2> QED
    BY <2>2, <2>3, <2>4 DEF r
<1>5. ASSUME NEW s \in Signals, EntryStep(s)
      PROVE  /\ UNCHANGED <<committed.breached, today>> /\ (journal' = journal \/ journal'.risk = risk')
             /\ SameLock(risk', risk)
  <2>1. CASE SubmitRaised(s)
    BY <2>1 DEF SubmitRaised, history, external
  <2>2. CASE ~SubmitRaised(s)
    <3>1. \E rec, pc : UpdateEntry(s, rec, pc)
      BY <1>5, <2>2 DEF EntryStep, Acknowledged, TimedOut, Refused, Confirmed, Correlated
    <3> QED
      BY <1>3, <3>1 DEF UpdateEntry, history
  <2> QED
    BY <2>1, <2>2
<1>6. CASE Refreshed
  <2>1. PICK s \in Signals : s = starter.signal
    BY <1>6 DEF Refreshed, TypeInv, CoroutinesHaveSignal
  <2>2. PICK rec : Updated(s, rec) \/ UpdateFailed(s, rec)
    BY <1>6, <2>1 DEF Refreshed
  <2>3. UNCHANGED <<committed.breached, today>>
    BY <1>6 DEF Refreshed, history, external
  <2> QED
    BY <1>3, <2>2, <2>3
<1>7. CASE StarterStep /\ ~Refreshed
  BY <1>7 DEF StarterStep, BeginRefresh, RefreshFailed, FinishRefreshing, ComparePositions,
              PositionsFailed, history, external
<1>8. CASE Restart
  BY <1>0, <1>1, <1>8 DEF Restart, history, external
<1>9. CASE EngageKillSwitch
  <2>1. \E k : Persisted(orders, risk, k) \/ PersistFailed(orders, risk)
    BY <1>9 DEF EngageKillSwitch
  <2>2. UNCHANGED <<committed.breached, today>>
    BY <1>9 DEF EngageKillSwitch, external, TypeInv, TypeOK
  <2> QED
    BY <1>2, <2>1, <2>2
<1>10. ASSUME NEW s \in Signals, Send(s) \/ Deliver(s) \/ Fill(s) \/ Cancel(s) \/ SquareOff(s)
       PROVE  UNCHANGED <<committed.breached, today, risk, journal>>
  BY <1>10 DEF Send, Deliver, Fill, Cancel, SquareOff, BrokerStep, process, history
<1>11. CASE QueryFailed \/ AttemptBlocked
  BY <1>11 DEF QueryFailed, AttemptBlocked, history, external
<1>12. CASE UNCHANGED vars
  BY <1>12 DEF vars, process, history, external
<1> QED
  BY <1>4, <1>5, <1>6, <1>7, <1>8, <1>9, <1>10, <1>11, <1>12 DEF Next

\* The rollover erases a lock only together with its day.
LEMMA LockedOnRolledOver ==
  ASSUME TypeInv, NEW r \in RiskRecord, r.day <= today, NEW d \in 0 .. MaxDay, d <= today,
         LockedOn(r, d)
  PROVE  LockedOn(RolledOver(r), d) /\ RolledOver(r).day = today
<1>1. today \in 1 .. MaxDay
  BY DEF TypeInv, TypeOK
<1>2. CASE r.day \notin {0, today}
  <2>1. RolledOver(r).day = today /\ d < today
    BY <1>1, <1>2 DEF RolledOver, ResetDay, LockedOn, RiskRecord
  <2> QED
    BY <2>1 DEF LockedOn
<1>3. CASE r.day \in {0, today}
  <2>1. RolledOver(r).day = today /\ RolledOver(r).locked = r.locked
    BY <1>3 DEF RolledOver, RiskRecord
  <2>2. d < today \/ (d = today /\ r.locked)
    BY <1>1, <1>3 DEF LockedOn, RiskRecord
  <2> QED
    BY <2>1, <2>2 DEF LockedOn
<1> QED
  BY <1>2, <1>3

LEMMA LockStep == TypeInv /\ LockInv /\ [Next]_vars => LockInv'
<1> SUFFICES ASSUME TypeInv, LockInv, [Next]_vars PROVE LockInv'
  OBVIOUS
<1>0. /\ risk \in RiskRecord /\ journal.risk \in RiskRecord /\ today \in 1 .. MaxDay
      /\ committed.breached \subseteq 0 .. MaxDay
  BY DEF TypeInv, TypeOK
<1> DEFINE Holds(r) == r.day <= today /\ \A d \in committed.breached : LockedOn(r, d)
<1>1. Holds(risk) /\ Holds(journal.risk) /\ \A d \in committed.breached : d <= today
  BY DEF LockInv
<1>2. ASSUME UNCHANGED <<committed.breached, today>>, journal' = journal \/ journal'.risk = risk',
             NEW r \in RiskRecord, SameLock(risk', r), Holds(r)
      PROVE  LockInv'
  <2>1. risk'.day <= today /\ \A d \in committed.breached : LockedOn(risk', d)
    BY <1>2 DEF LockedOn, SameLock
  <2>2. journal'.risk.day <= today /\ \A d \in committed.breached : LockedOn(journal'.risk, d)
    BY <1>1, <1>2, <2>1
  <2> QED
    BY <1>1, <1>2, <2>1, <2>2 DEF LockInv, LockedOn
<1>3. RolledOver(risk) \in RiskRecord /\ Holds(RolledOver(risk))
  <2>1. RolledOver(risk) \in RiskRecord
    BY <1>0, RiskOperatorsType DEF TypeInv
  <2>2. RolledOver(risk).day = today
    BY <1>0 DEF RolledOver, ResetDay, RiskRecord
  <2>3. \A d \in committed.breached : LockedOn(RolledOver(risk), d)
    BY <1>0, <1>1, LockedOnRolledOver
  <2> QED
    BY <1>0, <2>1, <2>2, <2>3
<1>4. CASE NextDay
  <2>1. UNCHANGED <<risk, journal, committed>> /\ today' = today + 1
    BY <1>4 DEF NextDay, process, history
  <2> QED
    BY <1>0, <1>1, <2>1 DEF LockInv, LockedOn, RiskRecord
<1>5. ASSUME NEW amount \in PnlAmounts, RecordRealizedPnl(amount) PROVE LockInv'
  <2> DEFINE r == WithPnl(risk, amount)
             riskDay == IF risk.day = 0 THEN today ELSE risk.day
  <2>1. r.day = risk.day /\ (risk.locked => r.locked)
    BY <1>0 DEF WithPnl, RiskRecord
  <2>2. \A d \in committed.breached : LockedOn(r, d)
    BY <1>1, <2>1 DEF LockedOn
  <2>3. r.locked => LockedOn(r, riskDay) /\ riskDay <= today
    BY <1>0, <1>1, <2>1 DEF LockedOn, RiskRecord
  <2>4. today' = today /\ risk' = r
    BY <1>5 DEF RecordRealizedPnl, Persisted, PersistFailed, external
  <2> DEFINE breached == committed.breached \cup (IF r.locked THEN {riskDay} ELSE {})
             Promised(days) == committed' = [committed EXCEPT !.breached = breached, !.lossDays = days]
  <2>7. committed \in [kill : BOOLEAN, breached : SUBSET (0 .. MaxDay), lossDays : SUBSET (0 .. MaxDay)]
    BY DEF TypeInv, TypeOK
  <2>5. ASSUME Persisted(orders, r, kill), NEW days, Promised(days) PROVE LockInv'
    <3>1. committed'.breached = breached
      BY <2>5, <2>7
    <3>2. journal'.risk = r
      BY <2>5 DEF Persisted, Snapshot
    <3> HIDE DEF r, riskDay
    <3>3. \A d \in committed'.breached : d <= today /\ LockedOn(r, d)
      BY <1>1, <2>2, <2>3, <3>1
    <3> HIDE DEF breached
    <3>4. r.day <= today
      BY <1>1, <2>1
    <3> QED
      BY <2>4, <3>2, <3>3, <3>4 DEF LockInv, LockedOn
  <2>6. CASE PersistFailed(orders, r) /\ UNCHANGED committed
    <3> HIDE DEF breached
    <3>1. UNCHANGED journal
      BY <2>6 DEF PersistFailed
    <3> HIDE DEF r
    <3>2. r.day <= today
      BY <1>1, <2>1
    <3> QED
      BY <1>1, <2>2, <2>4, <2>6, <3>1, <3>2 DEF LockInv, LockedOn
  <2>8. \/ Persisted(orders, r, kill) /\ \E days : Promised(days)
        \/ PersistFailed(orders, r) /\ UNCHANGED committed
    BY <1>5 DEF RecordRealizedPnl
  <2> HIDE DEF Promised, r
  <2> QED
    BY <2>5, <2>6, <2>8
<1> HIDE DEF Holds
<1> QED
  BY <1>0, <1>1, <1>2, <1>3, <1>4, <1>5, LockKept

\* After a durably recorded loss over the limit no signal is approved on that risk
\* day, whatever profit is recorded or restart happens afterwards.
THEOREM LossLocksTheDay == Spec => LossLockHolds
<1>1. Init => LockInv
  BY DEF Init, LockInv, NewRisk, Snapshot
<1>2. TypeInv /\ LockInv /\ [Next]_vars => [Approves => today \notin committed.breached]_vars
  <2> SUFFICES ASSUME TypeInv, LockInv, [Next]_vars, today \in committed.breached
               PROVE  ~Approves
    OBVIOUS
  <2>1. risk \in RiskRecord /\ today \in 0 .. MaxDay
    BY BoundsAssumption DEF TypeInv, TypeOK
  <2>2. LockedOn(RolledOver(risk), today) /\ RolledOver(risk).day = today
    BY <2>1, LockedOnRolledOver DEF LockInv
  <2>3. RolledOver(risk).locked
    BY <2>1, <2>2, BoundsAssumption DEF LockedOn, TypeInv, TypeOK
  <2>4. ASSUME NEW s \in Signals, Approve(s) PROVE FALSE
    BY <2>3, <2>4 DEF Approve, CanExecuteOrder, RiskApproves
  <2> QED
    BY <2>4, ApprovalOnlyByApprove
<1> QED
  BY <1>1, <1>2, TypeInit, TypeStep, LockStep, PTL DEF Spec, LossLockHolds

-----------------------------------------------------------------------------
(* Refinement: the service implements OrderLedger *)

ReservedKeys == {s \in Signals : journal.orders[s] # NoOrder}

\* A journal write makes at most one more key durable.
LEMMA OneReservation ==
  ASSUME LedgerInv, NEW o, NEW r, NEW k, Persisted(o, r, k) \/ PersistFailed(o, r),
         \A s \in Signals : (orders[s] # NoOrder) <=> (o[s] # NoOrder)
  PROVE  ReservedKeys' = ReservedKeys \/ \E s \in Signals \ ReservedKeys : ReservedKeys' = ReservedKeys \cup {s}
<1>1. CASE journal' = journal
  BY <1>1 DEF ReservedKeys
<1>2. CASE journal'.orders = o
  <2>1. ReservedKeys' = {s \in Signals : orders[s] # NoOrder}
    BY <1>2 DEF ReservedKeys
  <2>2. ReservedKeys \subseteq ReservedKeys'
    BY <2>1 DEF ReservedKeys, LedgerInv, JournalKnowsLess
  <2>3. \A s, t \in ReservedKeys' \ ReservedKeys : s = t
    BY <2>1 DEF ReservedKeys, LedgerInv, OneKeyBehind
  <2>4. ReservedKeys' \subseteq Signals
    BY <2>1
  <2> QED
    BY <2>2, <2>3, <2>4
<1> QED
  BY <1>1, <1>2, PersistRecords

\* Every step of the service is a step of the ledger or leaves it alone.
LEMMA LedgerRefinement ==
  ASSUME TypeInv, LedgerInv, [Next]_vars
  PROVE  [Ledger!Next]_<<ReservedKeys, sent>>
<1> USE DEF Ledger!Next, Ledger!Reserve, Ledger!Submit
<1>0. /\ TypeOK /\ CoroutinesHaveSignal /\ sent \in [Signals -> Nat]
      /\ entry.rec \in OrderRecord /\ starter.rec \in OrderRecord
  BY DEF TypeInv, TypeOK
<1>1. CASE UNCHANGED <<journal, sent>>
  BY <1>1 DEF ReservedKeys
<1>2. ASSUME UNCHANGED sent, ReservedKeys' = ReservedKeys
             \/ \E s \in Signals \ ReservedKeys : ReservedKeys' = ReservedKeys \cup {s}
      PROVE  [Ledger!Next]_<<ReservedKeys, sent>>
  BY <1>2 DEF ReservedKeys
<1>3. ASSUME NEW s \in Signals, Approve(s) PROVE [Ledger!Next]_<<ReservedKeys, sent>>
  <2> DEFINE o == WithRecord(s, Requested)
  <2>1. orders[s] = NoOrder /\ ~kill /\ UNCHANGED sent
    BY <1>3 DEF Approve, CanExecuteOrder, external
  <2>2. \A t \in Signals : o[t] = IF t = s THEN Requested ELSE orders[t]
    BY <1>0, ConstantRecords, WithRecordType
  <2>3. journal' = journal \/ journal'.orders = o
    BY <1>3, PersistRecords DEF Approve
  <2> HIDE DEF o
  <2>4. CASE journal'.orders = o
    <3>1. \A t \in Signals : (orders[t] # NoOrder) <=> (journal.orders[t] # NoOrder)
      BY <2>1 DEF LedgerInv, OneKeyBehind, JournalKnowsLess
    <3>2. ReservedKeys' = ReservedKeys \cup {s} /\ s \notin ReservedKeys
      BY <2>1, <2>2, <2>4, <3>1, ConstantRecords DEF ReservedKeys
    <3> QED
      BY <1>2, <2>1, <3>2
  <2> QED
    BY <1>1, <2>1, <2>3, <2>4
<1>4. ASSUME NEW s \in Signals, Send(s) PROVE [Ledger!Next]_<<ReservedKeys, sent>>
  <2>1. sent[s] = 0 /\ s \in ReservedKeys
    BY <1>4 DEF Send, LedgerInv, SubmitIsFresh, ReservedKeys
  <2>2. sent' = [sent EXCEPT ![s] = 1] /\ UNCHANGED journal
    BY <1>4, <2>1 DEF Send
  <2> QED
    BY <2>1, <2>2 DEF ReservedKeys
<1>5. ASSUME NEW s \in Signals, NEW rec \in OrderRecord, rec # NoOrder, orders[s] # NoOrder,
             Updated(s, rec) \/ UpdateFailed(s, rec), UNCHANGED sent
      PROVE  [Ledger!Next]_<<ReservedKeys, sent>>
  <2> DEFINE o == WithRecord(s, rec)
  <2>1. \A t \in Signals : (orders[t] # NoOrder) <=> (o[t] # NoOrder)
    BY <1>0, <1>5, WithRecordType
  <2>2. Persisted(o, RefreshExposure(risk, o), kill) \/ PersistFailed(o, RefreshExposure(risk, o))
    BY <1>5 DEF Updated, UpdateFailed
  <2> HIDE DEF o
  <2>3. ReservedKeys' = ReservedKeys \/ \E t \in Signals \ ReservedKeys : ReservedKeys' = ReservedKeys \cup {t}
    BY <2>1, <2>2, OneReservation
  <2> QED
    BY <1>2, <1>5, <2>3
<1>6. ASSUME NEW s \in Signals, EntryStep(s) PROVE [Ledger!Next]_<<ReservedKeys, sent>>
  <2>0. entry.pc # "idle" /\ entry.signal = s
    BY <1>6 DEF EntryStep, Acknowledged, TimedOut, Refused, SubmitRaised, Confirmed, Correlated
  <2>1. orders[s] # NoOrder
    BY <2>0 DEF LedgerInv, CoroutinesKnowKey
  <2>2. ASSUME NEW rec \in OrderRecord, rec # NoOrder, NEW pc, UpdateEntry(s, rec, pc)
        PROVE  [Ledger!Next]_<<ReservedKeys, sent>>
    BY <1>5, <2>1, <2>2 DEF UpdateEntry
  <2>3. CASE Acknowledged(s)
    <3> DEFINE rec == [entry.rec EXCEPT !.status = MapStatus(broker[s].st, "SUBMITTED"), !.id = TRUE]
    <3>1. MapStatus(broker[s].st, "SUBMITTED") \in OrderStatus
      BY <2>3, MapStatusType DEF Acknowledged
    <3>2. rec \in OrderRecord /\ rec # NoOrder
      BY <1>0, <3>1 DEF OrderRecord, OrderStatus, NoOrder
    <3> HIDE DEF rec
    <3> QED
      BY <2>2, <2>3, <3>2 DEF Acknowledged, rec
  <2>4. CASE TimedOut(s)
    <3> DEFINE rec == [entry.rec EXCEPT !.status = "UNKNOWN"]
    <3>1. rec \in OrderRecord /\ rec # NoOrder
      BY <1>0 DEF OrderRecord, OrderStatus, NoOrder
    <3> HIDE DEF rec
    <3> QED
      BY <2>2, <2>4, <3>1 DEF TimedOut, rec
  <2>5. CASE Refused(s)
    <3>1. Rejection(entry.rec) \in OrderRecord /\ Rejection(entry.rec) # NoOrder
      BY <1>0 DEF Rejection, OrderRecord, OrderStatus, NoOrder
    <3> QED
      BY <2>2, <2>5, <3>1 DEF Refused
  <2>6. CASE SubmitRaised(s)
    BY <1>1, <2>6 DEF SubmitRaised, external
  <2>7. CASE Confirmed(s) \/ Correlated(s)
    <3>1. PICK reply \in Replies(s) : UpdateEntry(s, Applied(entry.rec, reply), "idle")
      BY <2>7 DEF Confirmed, Correlated
    <3>2. Applied(entry.rec, reply) \in OrderRecord /\ Applied(entry.rec, reply) # NoOrder
      BY <1>0, RepliesType, AppliedType
    <3> QED
      BY <2>2, <3>1, <3>2
  <2> QED
    BY <1>6, <2>3, <2>4, <2>5, <2>6, <2>7 DEF EntryStep
<1>7. CASE Refreshed
  <2>1. PICK s \in Signals : s = starter.signal
    BY <1>0, <1>7 DEF Refreshed, CoroutinesHaveSignal
  <2>2. orders[s] # NoOrder
    BY <1>7, <2>1 DEF Refreshed, LedgerInv, CoroutinesKnowKey
  <2>3. PICK reply \in Replies(s) :
          Updated(s, Applied(starter.rec, reply)) \/ UpdateFailed(s, Applied(starter.rec, reply))
    BY <1>7, <2>1 DEF Refreshed
  <2>4. Applied(starter.rec, reply) \in OrderRecord /\ Applied(starter.rec, reply) # NoOrder
    BY <1>0, RepliesType, AppliedType
  <2>5. UNCHANGED sent
    BY <1>7 DEF Refreshed, external
  <2> QED
    BY <1>5, <2>2, <2>3, <2>4, <2>5
<1>8. CASE StarterStep /\ ~Refreshed
  BY <1>1, <1>8 DEF StarterStep, BeginRefresh, RefreshFailed, FinishRefreshing,
                    ComparePositions, PositionsFailed, external
<1>9. ASSUME NEW r, NEW k, Persisted(orders, r, k) \/ PersistFailed(orders, r), UNCHANGED sent
      PROVE  [Ledger!Next]_<<ReservedKeys, sent>>
  BY <1>2, <1>9, OneReservation
<1>10. CASE EngageKillSwitch
  BY <1>9, <1>10 DEF EngageKillSwitch, external
<1>11. ASSUME NEW amount \in PnlAmounts, RecordRealizedPnl(amount)
       PROVE  [Ledger!Next]_<<ReservedKeys, sent>>
  BY <1>9, <1>11 DEF RecordRealizedPnl, external
<1>12. ASSUME NEW s \in Signals, Deliver(s) \/ Fill(s) \/ Cancel(s) \/ SquareOff(s)
       PROVE  UNCHANGED <<journal, sent>>
  BY <1>12 DEF Deliver, Fill, Cancel, SquareOff, BrokerStep
<1>13. CASE AttemptBlocked \/ QueryFailed \/ Restart \/ NextDay
  BY <1>1, <1>13 DEF AttemptBlocked, QueryFailed, Restart, NextDay, external
<1>14. CASE UNCHANGED vars
  BY <1>1, <1>14 DEF vars, external
<1> QED
  BY <1>1, <1>3, <1>4, <1>6, <1>7, <1>8, <1>10, <1>11, <1>12, <1>13, <1>14 DEF Next

\* The execution service implements the abstract ledger: a signal is reserved
\* durably, and then sent once or never.
THEOREM LedgerImplemented == Spec => ImplementsLedger
<1>1. Init => Ledger!Init
  BY DEF Init, Ledger!Init, Snapshot
<1>2. TypeInv /\ LedgerInv /\ [Next]_vars => [Ledger!Next]_<<ReservedKeys, sent>>
  BY LedgerRefinement
<1>3. TypeInv /\ LedgerInv /\ [Next]_vars => TypeInv' /\ LedgerInv'
  BY TypeStep, LedgerStep
<1>4. Init => TypeInv /\ LedgerInv
  BY TypeInit, LedgerInit
<1> QED
  BY <1>1, <1>2, <1>3, <1>4, PTL DEF Spec, ImplementsLedger, Ledger!Spec, ReservedKeys
-----------------------------------------------------------------------------
(* Layer 9: the day's trades *)

\* What a risk record r says of the keys o it was written with: no key was
\* approved after its day, it has counted those of its day, and none of the days
\* has more of them than the limit; a holds the approvals, t is the calendar day.
Booked(o, a, d) == {s \in Signals : o[s] # NoOrder /\ a[s].day = d}
CountedBy(o, r, a, t) ==
  /\ r.day <= t
  /\ \A s \in Signals : o[s] # NoOrder => a[s].day <= r.day
  /\ Cardinality(Booked(o, a, r.day)) <= r.trades
  /\ \A d \in 0 .. MaxDay : Cardinality(Booked(o, a, d)) <= MaxTradesPerDay
TradesInv ==
  /\ CountedBy(orders, risk, approval, today)
  /\ CountedBy(journal.orders, journal.risk, approval, today)

NoMoreKeys(p, o) == \A s \in Signals : p[s] # NoOrder => o[s] # NoOrder
SameCount(q, r) == q.day = r.day /\ q.trades = r.trades

\* A set of booked keys is finite.
LEMMA BookedFinite ==
  ASSUME NEW o, NEW a, NEW d
  PROVE  IsFiniteSet(Booked(o, a, d)) /\ Cardinality(Booked(o, a, d)) \in Nat
<1>1. IsFiniteSet(Booked(o, a, d))
  BY SignalsAssumption, FS_Subset DEF Booked
<1> QED
  BY <1>1, FS_CardinalityType

\* Only keys, day and count matter, and time may pass.
LEMMA CountedSame ==
  ASSUME NEW o, NEW p, NEW q \in RiskRecord, NEW r \in RiskRecord, NEW a,
         NEW t \in Int, NEW u \in Int, t <= u,
         NoMoreKeys(p, o), SameCount(q, r), CountedBy(o, r, a, t)
  PROVE  CountedBy(p, q, a, u)
<1>1. ASSUME NEW d PROVE Cardinality(Booked(p, a, d)) <= Cardinality(Booked(o, a, d))
  <2>1. Booked(p, a, d) \subseteq Booked(o, a, d)
    BY DEF Booked, NoMoreKeys
  <2> QED
    BY <2>1, BookedFinite, FS_Subset
<1>2. q.day <= u
  BY DEF SameCount, CountedBy, RiskRecord
<1>3. Cardinality(Booked(p, a, q.day)) <= q.trades
  BY <1>1, BookedFinite DEF CountedBy, SameCount, RiskRecord
<1>4. \A d \in 0 .. MaxDay : Cardinality(Booked(p, a, d)) <= MaxTradesPerDay
  BY <1>1, BookedFinite, LimitsAssumption DEF CountedBy
<1> QED
  BY <1>2, <1>3, <1>4 DEF CountedBy, NoMoreKeys, SameCount

\* The first decision of a day finds no key of that day.
LEMMA CountedRolledOver ==
  ASSUME TypeInv, NEW o, NEW r \in RiskRecord, CountedBy(o, r, approval, today)
  PROVE  CountedBy(o, RolledOver(r), approval, today)
<1>1. today \in 1 .. MaxDay /\ \A s \in Signals : approval[s].day \in Int
  BY BoundsAssumption DEF TypeInv, TypeOK
<1>2. CASE r.day = today
  <2>1. SameCount(RolledOver(r), r) /\ RolledOver(r) \in RiskRecord
    BY <1>2, RiskOperatorsType DEF RolledOver, SameCount, RiskRecord, TypeInv
  <2>2. NoMoreKeys(o, o)
    BY DEF NoMoreKeys
  <2> QED
    BY <1>1, <2>1, <2>2, CountedSame
<1>3. CASE r.day # today
  <2>1. r.day < today
    BY <1>1, <1>3 DEF CountedBy, RiskRecord
  <2>2. RolledOver(r).day = today /\ RolledOver(r).trades \in Nat
    BY DEF RolledOver, ResetDay, RiskRecord
  <2>3. Booked(o, approval, today) = {}
    BY <1>1, <2>1 DEF Booked, CountedBy, RiskRecord
  <2>4. \A s \in Signals : o[s] # NoOrder => approval[s].day <= today
    BY <1>1, <2>1 DEF CountedBy, RiskRecord
  <2> QED
    BY <1>1, <2>2, <2>3, <2>4, FS_EmptySet DEF CountedBy
<1> QED
  BY <1>2, <1>3

\* A new approval of a key that o does not hold leaves its count alone.
LEMMA CountedElsewhere ==
  ASSUME NEW o, NEW r, NEW t, NEW a, NEW s \in Signals, o[s] = NoOrder, NEW b,
         \A z \in Signals : z # s => b[z] = a[z],
         CountedBy(o, r, a, t)
  PROVE  CountedBy(o, r, b, t)
<1>1. \A d : Booked(o, b, d) = Booked(o, a, d)
  BY DEF Booked
<1> QED
  BY <1>1 DEF CountedBy

\* The approval counts the key it adds.
LEMMA CountedApproval ==
  ASSUME TypeInv, NEW s \in Signals, Approve(s), CountedBy(orders, risk, approval, today)
  PROVE  CountedBy(WithRecord(s, Requested), Reserved(RolledOver(risk), WithRecord(s, Requested)),
                   approval', today)
<1> DEFINE r == RolledOver(risk)
           o == WithRecord(s, Requested)
           q == Reserved(r, o)
<1>0. risk \in RiskRecord /\ today \in 1 .. MaxDay /\ approval \in [Signals -> [day : 0 .. MaxDay, life : 0 .. MaxRestarts]]
  BY DEF TypeInv, TypeOK
<1>1. r \in RiskRecord /\ r.day = today /\ CountedBy(orders, r, approval, today)
  BY <1>0, RiskOperatorsType, CountedRolledOver DEF TypeInv, RolledOver, ResetDay, RiskRecord
<1>2. orders[s] = NoOrder /\ r.trades < MaxTradesPerDay
  BY DEF Approve, CanExecuteOrder, RiskApproves
<1>3. \A z \in Signals : o[z] = IF z = s THEN Requested ELSE orders[z]
  BY ConstantRecords, WithRecordType DEF TypeInv
<1>4. q.day = today /\ q.trades = r.trades + 1
  BY <1>1 DEF Reserved, ReserveRisk, RefreshExposure, RiskRecord
<1>5. \A z \in Signals : approval'[z].day = IF z = s THEN today ELSE approval[z].day
  BY <1>0 DEF Approve
<1> HIDE DEF r, o, q
<1>6. Booked(o, approval', today) = Booked(orders, approval, today) \cup {s}
  BY <1>2, <1>3, <1>5, ConstantRecords DEF Booked
<1>7. \A d : d # today => Booked(o, approval', d) = Booked(orders, approval, d)
  BY <1>2, <1>3, <1>5 DEF Booked
<1>8. Cardinality(Booked(o, approval', today)) <= r.trades + 1
  <2>1. Cardinality(Booked(orders, approval, today)) <= r.trades
    BY <1>1 DEF CountedBy
  <2> QED
    BY <1>1, <1>6, <2>1, BookedFinite, FS_AddElement DEF RiskRecord
<1>9. \A d \in 0 .. MaxDay : Cardinality(Booked(o, approval', d)) <= MaxTradesPerDay
  <2>1. r.trades + 1 <= MaxTradesPerDay
    BY <1>1, <1>2, LimitsAssumption DEF RiskRecord
  <2>2. Cardinality(Booked(o, approval', today)) <= MaxTradesPerDay
    BY <1>1, <1>8, <2>1, BookedFinite, LimitsAssumption DEF RiskRecord
  <2> QED
    BY <1>1, <1>7, <2>2 DEF CountedBy
<1>10. \A z \in Signals : o[z] # NoOrder => approval'[z].day <= today
  BY <1>0, <1>1, <1>3, <1>5 DEF CountedBy
<1> QED
  BY <1>0, <1>4, <1>8, <1>9, <1>10 DEF CountedBy, o, q, r

\* The journal stays or takes what the memory has now.
JournalFollows ==
  journal' = journal \/ (journal'.orders = orders' /\ journal'.risk = risk')

\* Whatever is not an approval keeps the keys and the count, rolls the day over, or
\* returns to the journal.
LEMMA BooksKept ==
  ASSUME TypeInv, LedgerInv, [Next]_vars
  PROVE  \/ \E s \in Signals : Approve(s)
         \/ /\ UNCHANGED approval /\ (today' = today \/ NextDay) /\ JournalFollows
            /\ \/ NoMoreKeys(orders', orders) /\ SameCount(risk', risk)
               \/ NoMoreKeys(orders', orders) /\ SameCount(risk', RolledOver(risk))
               \/ NoMoreKeys(orders', journal.orders) /\ SameCount(risk', journal.risk)
<1> DEFINE Kept == JournalFollows /\ NoMoreKeys(orders', orders) /\ SameCount(risk', risk)
           Still == UNCHANGED <<approval, today>>
<1>0. /\ risk \in RiskRecord /\ journal.risk \in RiskRecord /\ TypeOK
      /\ entry.rec \in OrderRecord /\ starter.rec \in OrderRecord
  BY DEF TypeInv, TypeOK
<1>1. ASSUME UNCHANGED <<orders, risk, journal>> PROVE Kept
  BY <1>1 DEF JournalFollows, NoMoreKeys, SameCount
<1>2. ASSUME NEW o, NEW r, NEW k, Persisted(o, r, k) \/ PersistFailed(o, r)
      PROVE  orders' = o /\ risk' = r /\ JournalFollows
  BY <1>2 DEF Persisted, PersistFailed, Snapshot, JournalFollows
<1>3. ASSUME NEW s \in Signals, NEW rec, orders[s] # NoOrder,
             Updated(s, rec) \/ UpdateFailed(s, rec)
      PROVE  Kept
  <2> DEFINE o == WithRecord(s, rec)
  <2>1. Persisted(o, RefreshExposure(risk, o), kill) \/ PersistFailed(o, RefreshExposure(risk, o))
    BY <1>3 DEF Updated, UpdateFailed
  <2>2. NoMoreKeys(o, orders)
    BY <1>0, <1>3 DEF NoMoreKeys, WithRecord, TypeOK
  <2> HIDE DEF o
  <2>3. SameCount(RefreshExposure(risk, o), risk)
    BY <1>0 DEF SameCount, RefreshExposure, RiskRecord
  <2> QED
    BY <1>2, <2>1, <2>2, <2>3
<1>4. ASSUME NEW s \in Signals, EntryStep(s) PROVE Kept /\ Still
  <2>1. CASE SubmitRaised(s)
    BY <1>1, <2>1 DEF SubmitRaised, history, external
  <2>2. CASE ~SubmitRaised(s)
    <3>1. PICK rec, pc : UpdateEntry(s, rec, pc)
      BY <1>4, <2>2 DEF EntryStep, Acknowledged, TimedOut, Refused, Confirmed, Correlated
    <3>2. orders[s] # NoOrder
      BY <1>4, <2>2 DEF EntryStep, Acknowledged, TimedOut, Refused, Confirmed, Correlated,
                        LedgerInv, CoroutinesKnowKey
    <3> QED
      BY <1>3, <3>1, <3>2 DEF UpdateEntry, history, Still
  <2> QED
    BY <2>1, <2>2
<1>5. CASE Refreshed
  <2>1. starter.signal \in Signals /\ orders[starter.signal] # NoOrder
    BY <1>5 DEF Refreshed, TypeInv, CoroutinesHaveSignal, LedgerInv, CoroutinesKnowKey
  <2>2. PICK rec : Updated(starter.signal, rec) \/ UpdateFailed(starter.signal, rec)
    BY <1>5 DEF Refreshed
  <2>3. UNCHANGED <<approval, today>>
    BY <1>5 DEF Refreshed, history, external
  <2> QED
    BY <1>3, <2>1, <2>2, <2>3
<1>6. CASE StarterStep /\ ~Refreshed
  BY <1>1, <1>6 DEF StarterStep, BeginRefresh, RefreshFailed, FinishRefreshing, ComparePositions,
                    PositionsFailed, history, external
<1>7. CASE Restart
  BY <1>7 DEF Restart, history, external, JournalFollows, NoMoreKeys, SameCount, RefreshExposure,
              RiskRecord, TypeOK
<1>8. CASE EngageKillSwitch
  <2>1. \E k : Persisted(orders, risk, k) \/ PersistFailed(orders, risk)
    BY <1>8 DEF EngageKillSwitch
  <2>2. UNCHANGED <<approval, today>>
    BY <1>8 DEF EngageKillSwitch, external
  <2> QED
    BY <1>2, <2>1, <2>2 DEF NoMoreKeys, SameCount
<1>9. ASSUME NEW amount \in PnlAmounts, RecordRealizedPnl(amount) PROVE Kept /\ Still
  <2>1. Persisted(orders, WithPnl(risk, amount), kill) \/ PersistFailed(orders, WithPnl(risk, amount))
    BY <1>9 DEF RecordRealizedPnl
  <2>2. UNCHANGED <<approval, today>>
    BY <1>9 DEF RecordRealizedPnl, external
  <2>3. SameCount(WithPnl(risk, amount), risk)
    BY <1>0 DEF SameCount, WithPnl, RiskRecord
  <2> QED
    BY <1>2, <2>1, <2>2, <2>3 DEF NoMoreKeys
<1>10. ASSUME NEW s \in Signals, Send(s) \/ Deliver(s) \/ Fill(s) \/ Cancel(s) \/ SquareOff(s)
       PROVE  UNCHANGED <<orders, risk, journal, approval, today>>
  BY <1>10 DEF Send, Deliver, Fill, Cancel, SquareOff, BrokerStep, process, history
<1>11. CASE AttemptBlocked
  BY <1>11 DEF AttemptBlocked, history, external, JournalFollows, NoMoreKeys, SameCount
<1>12. CASE QueryFailed \/ NextDay
  BY <1>1, <1>12 DEF QueryFailed, NextDay, process, history, external
<1>13. CASE UNCHANGED vars
  BY <1>1, <1>13 DEF vars, process, history, external
<1> QED
  BY <1>1, <1>4, <1>5, <1>6, <1>7, <1>8, <1>9, <1>10, <1>11, <1>12, <1>13 DEF Next

\* Each action keeps the books of memory and journal.
LEMMA TradesStep == TypeInv /\ LedgerInv /\ TradesInv /\ [Next]_vars => TradesInv'
<1> SUFFICES ASSUME TypeInv, LedgerInv, TradesInv, [Next]_vars PROVE TradesInv'
  OBVIOUS
<1>0. /\ risk \in RiskRecord /\ journal.risk \in RiskRecord /\ RolledOver(risk) \in RiskRecord
      /\ risk' \in RiskRecord /\ journal'.risk \in RiskRecord
      /\ today \in Int /\ today' \in Int
      /\ approval \in [Signals -> [day : 0 .. MaxDay, life : 0 .. MaxRestarts]]
  <2>1. TypeOK /\ TypeOK'
    BY TypeStep DEF TypeInv
  <2>2. risk \in RiskRecord /\ RolledOver(risk) \in RiskRecord
    BY <2>1, RiskOperatorsType DEF TypeOK
  <2> QED
    BY <2>1, <2>2 DEF TypeOK
<1>1. ASSUME NEW s \in Signals, Approve(s) PROVE TradesInv'
  <2> DEFINE o == WithRecord(s, Requested)
             q == Reserved(RolledOver(risk), o)
  <2>1. CountedBy(o, q, approval', today) /\ UNCHANGED today
    BY <1>1, CountedApproval DEF TradesInv, Approve, external
  <2>2. Persisted(o, q, kill) \/ PersistFailed(o, q)
    BY <1>1 DEF Approve
  <2>3. journal.orders[s] = NoOrder
    BY <1>1 DEF Approve, CanExecuteOrder, LedgerInv, JournalKnowsLess
  <2>4. \A z \in Signals : z # s => approval'[z] = approval[z]
    BY <1>0, <1>1 DEF Approve
  <2>5. CountedBy(journal.orders, journal.risk, approval', today)
    BY <2>3, <2>4, CountedElsewhere DEF TradesInv
  <2> HIDE DEF o, q
  <2>6. /\ orders' = o /\ risk' = q
        /\ journal' = journal \/ (journal'.orders = o /\ journal'.risk = q)
    BY <2>2 DEF Persisted, PersistFailed, Snapshot
  <2> QED
    BY <2>1, <2>5, <2>6 DEF TradesInv
<1>2. ASSUME UNCHANGED approval, today' = today \/ NextDay, JournalFollows,
             NEW o, NEW r \in RiskRecord, NoMoreKeys(orders', o), SameCount(risk', r),
             CountedBy(o, r, approval, today)
      PROVE  TradesInv'
  <2>1. today <= today'
    BY <1>0, <1>2 DEF NextDay
  <2>2. CountedBy(orders', risk', approval, today')
    BY <1>0, <1>2, <2>1, CountedSame
  <2>3. CountedBy(journal.orders, journal.risk, approval, today')
    BY <1>0, <2>1, CountedSame DEF TradesInv, NoMoreKeys, SameCount
  <2> QED
    BY <1>2, <2>2, <2>3 DEF TradesInv, JournalFollows
<1>3. CountedBy(orders, RolledOver(risk), approval, today)
  BY <1>0, CountedRolledOver DEF TradesInv
<1> QED
  BY <1>0, <1>1, <1>2, <1>3, BooksKept DEF TradesInv

\* An empty journal has no key to count.
LEMMA TradesInit == Init => TradesInv
<1> SUFFICES ASSUME Init PROVE TradesInv
  OBVIOUS
<1>1. /\ orders = [s \in Signals |-> NoOrder] /\ journal.orders = orders
      /\ risk.day = 0 /\ risk.trades = 0 /\ journal.risk = risk /\ today = 1
  BY DEF Init, NewRisk, Snapshot
<1>2. \A d : Booked(orders, approval, d) = {}
  BY <1>1 DEF Booked
<1>3. CountedBy(orders, risk, approval, today)
  BY <1>1, <1>2, FS_EmptySet, LimitsAssumption DEF CountedBy
<1> QED
  BY <1>1, <1>3 DEF TradesInv

\* On no day do more requests reach the broker than risk_max_trades_per_day, although
\* the count and the keys are rebuilt from whatever the journal holds.
THEOREM TradesBounded == Spec => []TradesPerDayBounded
<1>1. TypeInv /\ LedgerInv /\ TradesInv => TradesPerDayBounded
  <2> SUFFICES ASSUME TypeInv, LedgerInv, TradesInv, NEW d \in 1 .. today
               PROVE  Cardinality({s \in Signals : sent[s] > 0 /\ approval[s].day = d})
                        <= MaxTradesPerDay
    BY DEF TradesPerDayBounded
  <2> DEFINE Requests == {s \in Signals : sent[s] > 0 /\ approval[s].day = d}
  <2>1. Requests \subseteq Booked(journal.orders, approval, d)
    BY DEF Booked, LedgerInv, KeyIsDurable
  <2>2. d \in 0 .. MaxDay
    BY BoundsAssumption DEF TypeInv, TypeOK
  <2>3. Cardinality(Requests) <= Cardinality(Booked(journal.orders, approval, d))
        /\ Cardinality(Requests) \in Nat
    BY <2>1, BookedFinite, FS_Subset, FS_CardinalityType
  <2>4. Cardinality(Booked(journal.orders, approval, d)) <= MaxTradesPerDay
    BY <2>2 DEF TradesInv, CountedBy
  <2> QED
    BY <2>3, <2>4, BookedFinite, LimitsAssumption
<1> QED
  BY <1>1, TypeInit, TypeStep, LedgerInit, LedgerStep, TradesInit, TradesStep, PTL DEF Spec

\* The limits of a day survive restarts, day changes and failed journal writes: the
\* number of trades, a durable kill switch, a breached loss.
THEOREM LimitsAlwaysHold == Spec => LimitsHold
BY TradesBounded, KillSwitchHolds, LossLocksTheDay, PTL DEF LimitsHold

\* After a restart entries wait until every order of the earlier life is settled, and
\* no attempt runs beside the task that settles them.
THEOREM RestartIsSafe == Spec => []RestartSafe
BY RestoredResolved, StartupExclusion, PTL DEF RestartSafe
=============================================================================
