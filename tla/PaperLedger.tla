----------------------------- MODULE PaperLedger -----------------------------
(***************************************************************************)
(* live-app/paper_ledger.py with risk_plan of research.py: hypothetical     *)
(* trades an operator opens and closes by hand.                             *)
(*                                                                         *)
(* The whole ledger is one document.  open_trade looks at it once, checks   *)
(* the contract and the setup, and adds the trade in a compare-and-swap     *)
(* that sizes it against the trades it finds there; a form may be sent      *)
(* twice, and requests of two browsers run side by side.                    *)
(***************************************************************************)
EXTENDS Integers, FiniteSets, Sequences

CONSTANTS
  Handlers,      \* handlers of requests that run side by side
  TradeIds,      \* ids the browser made up
  Risks,         \* risk inputs: [risk, cap, unit, realised, open, current]
  Exits,         \* what a close makes or loses, per lot
  MaxLots,       \* lots the capital pays for
  MaxTrades,     \* trades the ledger holds (500)
  \* bounds of the model, not of the code
  MaxPosts, MaxDays

\* A unit is what one lot risks (an entry is above its stop); a close makes or
\* loses whole amounts.
ASSUME RisksAssumption ==
  /\ \A k \in Risks : /\ k.unit \in Nat \ {0} /\ k.risk \in Int /\ k.cap \in Int
                      /\ k.realised \in Int /\ k.open \in Int
  /\ Exits \subseteq Int /\ MaxLots \in Nat

VARIABLES
  ledger,        \* the rows, in the order they were added
  version,
  tradingDay,
  handler,       \* [Handlers -> the request in progress]
  committed,     \* history: [id, day, exposure, cap] when a trade was added
  posts

paperVars == <<ledger, version, tradingDay, handler, committed, posts>>

Unused == [pc |-> "none"]

PaperInit ==
  /\ ledger = <<>> /\ version = 0 /\ tradingDay = 1
  /\ handler = [r \in Handlers |-> Unused]
  /\ committed = {} /\ posts = 0

Midnight ==
  /\ tradingDay < MaxDays /\ tradingDay' = tradingDay + 1
  /\ UNCHANGED <<ledger, version, handler, committed, posts>>

-----------------------------------------------------------------------------
(* Sizing                                                                  *)

RowsOf(trades) == {trades[i] : i \in DOMAIN trades}
Rows == RowsOf(ledger)
Positive(n) == IF n > 0 THEN n ELSE 0
Lower(a, b) == IF a < b THEN a ELSE b
Higher(a, b) == IF a > b THEN a ELSE b

\* The sum of an amount of each trade, counted unit by unit.
Sum(amount) == Cardinality(UNION {{t} \X (1 .. amount[t]) : t \in DOMAIN amount})

\* What is reserved for open trades, and what the trades closed on a day lost.
Reserved(rows) == Sum([t \in {u \in rows : u.state = "OPEN"} |-> t.plan])
Realised(rows, day) ==
  Sum([t \in {u \in rows : u.state = "CLOSED" /\ u.day = day} |-> Positive(-t.net)])

\* risk_plan: as many lots as the rest of the budget and the capital allow, none
\* when the contract or the cost data are out of date.
Lots(risk, reserve, realised) ==
  LET left == risk.cap - Higher(realised, risk.realised) - Higher(reserve, risk.open)
  IN IF risk.current THEN Lower(MaxLots, Positive(Lower(risk.risk, left)) \div risk.unit) ELSE 0

-----------------------------------------------------------------------------
(* Requests                                                                *)

Serve(r, state) == handler' = [handler EXCEPT ![r] = state]
Row(id) == CHOOSE t \in Rows : t.id = id
Known(id) == \E t \in Rows : t.id = id

\* open_trade: an id that is known is answered or refused at once; otherwise the
\* contract and the setup are checked, which takes a while.
OpenTrade(r) ==
  /\ handler[r].pc = "none" /\ posts < MaxPosts /\ posts' = posts + 1
  /\ \E id \in TradeIds, risk \in Risks :
       Serve(r, IF Known(id) THEN Unused
                 ELSE [pc |-> "open", id |-> id, risk |-> risk, day |-> tradingDay, seen |-> Rows])
  /\ UNCHANGED <<ledger, version, tradingDay, committed>>

CloseTrade(r) ==
  /\ handler[r].pc = "none" /\ posts < MaxPosts /\ posts' = posts + 1
  /\ \E t \in Rows, exit \in Exits :
       Serve(r, [pc |-> "close", id |-> t.id, exit |-> exit, day |-> tradingDay])
  /\ UNCHANGED <<ledger, version, tradingDay, committed>>

\* add and close, on the ledger the compare-and-swap has read.

\* A plausible error: the reserve is taken from the first look at the ledger.
FirstLook(q) == q.seen

Authoritative(q) == Rows

Taken(rows, id) == \E t \in rows : t.id = id

Decide(r) ==
  LET q == handler[r]
      reserve == Reserved(Authoritative(q))
      realised == Realised(Authoritative(q), q.day)
      lots == Lots(q.risk, reserve, realised)
      put(rows) == [pc |-> "put", version |-> version, rows |-> rows, then |-> q]
  IN \/ /\ q.pc = "open"
        /\ Serve(r, IF Taken(Rows, q.id) \/ Len(ledger) >= MaxTrades \/ lots = 0 THEN Unused
                     ELSE put(Append(ledger, [id |-> q.id, state |-> "OPEN", plan |-> lots * q.risk.unit,
                                              lots |-> lots, net |-> 0, day |-> 0, exit |-> 0])))
     \/ /\ q.pc = "close"
        /\ LET t == Row(q.id)
               i == CHOOSE i \in DOMAIN ledger : ledger[i].id = q.id
           IN Serve(r, IF t.state = "CLOSED" THEN Unused
                        ELSE put([ledger EXCEPT ![i].state = "CLOSED", ![i].day = q.day, ![i].exit = q.exit,
                                                ![i].net = t.lots * q.exit]))
DecideStep(r) == Decide(r) /\ UNCHANGED <<ledger, version, tradingDay, committed, posts>>

\* put_document: a version that has changed means reading and deciding again.
Commit(r) ==
  LET q == handler[r] IN
  /\ q.pc = "put"
  /\ IF version = q.version
     THEN /\ ledger' = q.rows /\ version' = version + 1 /\ Serve(r, Unused)
          /\ committed' = IF q.then.pc = "open"
                          THEN committed \cup {[id |-> q.then.id, day |-> q.then.day, cap |-> q.then.risk.cap,
                                 exposure |-> Reserved(RowsOf(q.rows)) + Realised(RowsOf(q.rows), q.then.day)]}
                          ELSE committed
     ELSE Serve(r, q.then) /\ UNCHANGED <<ledger, version, committed>>
  /\ UNCHANGED <<tradingDay, posts>>

PaperNext == Midnight \/ \E r \in Handlers : OpenTrade(r) \/ CloseTrade(r) \/ DecideStep(r) \/ Commit(r)
PaperSpec == PaperInit /\ [][PaperNext]_paperVars

-----------------------------------------------------------------------------
(* Properties                                                              *)

\* When a trade is added, all that is reserved and what its day has lost stay
\* within its daily cap, whatever was added or closed since its form was sent.
CapHolds == \A c \in committed : c.exposure <= c.cap

\* One trade for an id, however often and from wherever its form is sent.
OneTradePerId == \A i, j \in DOMAIN ledger : ledger[i].id = ledger[j].id => i = j

\* A trade that was added is in the ledger for good, however many write it.
TradesKept == \A c \in committed : Known(c.id)

\* Forms that are sent twice or at the same time add no trade and no risk too
\* many, and take none away.
LedgerHolds == CapHolds /\ OneTradePerId /\ TradesKept
=============================================================================
