--------------------------- MODULE CollectionPlan ---------------------------
(***************************************************************************)
(* How a cloud collection job walks its plan (live-app/collection.py).     *)
(*                                                                         *)
(* A job owns a sequence of pages, each of one family, each holding        *)
(* catalogue items.  Its cursor names a page, an item, a variant and, for  *)
(* the history families, a window of days.  Everything here is a function  *)
(* of the job document and of the current day: the module has no state.   *)
(* Days are numbers, a page and an item are counted from 1, a variant and  *)
(* a window from 0.                                                        *)
(***************************************************************************)
EXTENDS Integers, Sequences, FiniteSets, FiniteSetsExt, SequencesExt

CONSTANTS
    None,       \* no value
    Horizon,    \* days of minute history the provider documents (5*365+2)
    Window,     \* [rolling |-> 30, intraday |-> 90] in the program
    Batch,      \* most instruments of one request: [quotes, live, depth20]
    Reach,      \* strikes on either side of ATM for the first expiry code
    PlanSteps,  \* cursor moves of one run before it saves (200)
    IndexRows   \* the index entries of the pinned instrument master

History == {"daily", "intraday", "rolling"}
Feeds == {"live", "depth20", "depth200"}
Cash == {"INDEX", "EQUITY"}
DepthSegments == {"NSE_EQ", "NSE_FNO"}

Least(a, b) == IF a < b THEN a ELSE b
Most(a, b) == IF a < b THEN b ELSE a

\* The placeholder expiry of an index or a share is dropped; 0 is "never".
contract_expiry(i) == IF i.instrument \in Cash THEN 0 ELSE i.expiry
Expired(i, today) == contract_expiry(i) # 0 /\ contract_expiry(i) < today

Selected(cfg, i) ==
    /\ cfg.segments = {} \/ i.segment \in cfg.segments
    /\ cfg.symbols = {} \/ i.symbol \in cfg.symbols

Start0 == [page |-> 1, item |-> 1, variant |-> 0, window |-> 0, ack |-> FALSE]

ItemAt(pages, c) == pages[c.page].items[c.item]

(***************************************************************************)
(* select_item: the first wanted item at or after the cursor.  Moving to   *)
(* another item resets the variant and the window, not horizon_ack.        *)
(***************************************************************************)
Wanted(pages, cfg) ==
    {pos \in (1..Len(pages)) \X (1..10) :
        /\ pos[2] \in DOMAIN pages[pos[1]].items
        /\ Selected(cfg, pages[pos[1]].items[pos[2]])}

NotBefore(pos, c) ==
    pos[1] > c.page \/ (pos[1] = c.page /\ pos[2] >= c.item)

select_item(pages, cfg, c) ==
    LET ahead == {pos \in Wanted(pages, cfg) : NotBefore(pos, c)}
        first == CHOOSE pos \in ahead : \A q \in ahead :
                    q[1] > pos[1] \/ (q[1] = pos[1] /\ q[2] >= pos[2])
    IN IF ahead = {} THEN [c EXCEPT !.page = Len(pages) + 1, !.item = 1,
                                    !.variant = 0, !.window = 0]
       ELSE IF first = <<c.page, c.item>> THEN c
       ELSE [c EXCEPT !.page = first[1], !.item = first[2],
                      !.variant = 0, !.window = 0]

(***************************************************************************)
(* variants: the request parameters an item is collected under.            *)
(***************************************************************************)
RollingVariants(i, cfg) ==
    LET flags == IF i.instrument = "OPTIDX" THEN {"MONTH", "WEEK"}
                 ELSE IF i.flags = {} THEN {"MONTH"} ELSE i.flags
        reach(code) == IF i.instrument = "OPTIDX" /\ code = 1
                       THEN Reach ELSE Least(3, Reach)
    IN IF cfg.atm
       THEN {[flag |-> "MONTH", code |-> 1, strike |-> 0, side |-> s, interval |-> n] :
                s \in {"CALL", "PUT"}, n \in cfg.intervals}
       ELSE UNION {[flag : flags, code : {code}, side : {"CALL", "PUT"},
                    strike : (-reach(code))..reach(code), interval : cfg.intervals] :
                code \in 1..3}

variants(family, i, cfg) ==
    CASE family = "rolling" -> SetToSeq(RollingVariants(i, cfg))
      [] family = "intraday" -> SetToSeq([interval : cfg.intervals])
      [] OTHER -> <<None>>

\* The provider's rolling endpoint wants the id of the index itself, which
\* must be unique in the pinned master.
rolling_index_item(i) ==
    LET found == {row \in IndexRows : /\ row.exchange = i.exchange
                                      /\ row.symbol = i.symbol
                                      /\ row.reason = None}
    IN IF i.instrument # "OPTIDX" THEN i
       ELSE IF Cardinality(found) # 1 THEN [i EXCEPT !.reason = "unresolved index"]
       ELSE [i EXCEPT !.id = (CHOOSE row \in found : TRUE).id]

(***************************************************************************)
(* task: what the cursor stands for today.  A cursor past the last variant *)
(* or past the last window moves on and yields no task.                    *)
(***************************************************************************)
SkipReason(family, i, today) ==
    CASE i.reason # None -> i.reason
      [] family = "chain" /\ ~i.chain_underlying /\ i.instrument \notin Cash ->
             "not an underlying"
      [] family = "chain" /\ i.symbol = "INDIA VIX" -> "no options"
      [] family \in {"depth20", "depth200"} /\ i.segment \notin DepthSegments ->
             "no full depth"
      [] family \in Feeds \cup {"quotes", "chain"} /\ Expired(i, today) ->
             "expired contract"
      [] family = "intraday" /\ Expired(i, today) -> "expired history"
      [] OTHER -> None

\* The instruments of one feed or quote request: the run of items from the
\* cursor on that share the first one's segment and fate.
BatchLimit(family, skip) ==
    IF skip # None THEN 1000 ELSE Batch[family]

Run(entries, from, family, today, cfg, skip) ==
    LET first == entries[from]
        same(k) == /\ SkipReason(family, entries[k], today) = skip
                   /\ entries[k].segment = first.segment
                   /\ skip # None => Selected(cfg, entries[k])
        picked(n) == {k \in from..n : Selected(cfg, entries[k])}
    IN Max({n \in from..Len(entries) :
              /\ \A k \in from..n : same(k)
              /\ Cardinality(picked(n)) <= BatchLimit(family, skip)
              /\ n > from => Cardinality(picked(n - 1)) < BatchLimit(family, skip)})

Moved(c) == [cursor |-> c, task |-> None, done |-> FALSE]

task(pages, cfg, c, today) ==
    LET family == pages[c.page].family
        entries == pages[c.page].items
        i == IF family = "rolling" THEN rolling_index_item(ItemAt(pages, c))
             ELSE ItemAt(pages, c)
        all == variants(family, i, cfg)
        horizon == today - Horizon
        minute == family \in {"intraday", "rolling"}
        expiry == contract_expiry(i)
        gone == family = "intraday" /\ Expired(i, today)
        start0 == IF minute THEN Most(cfg.start, horizon) ELSE cfg.start
        end0 == IF family \in {"daily", "intraday"} /\ expiry # 0
                THEN Least(cfg.end, expiry + 1) ELSE cfg.end
        days == IF family = "daily" THEN Most(1, end0 - start0) ELSE Window[family]
        from == IF family \in History THEN start0 + c.window * days ELSE start0
        to == IF family \in History THEN Least(end0, from + days) ELSE end0
        skip == SkipReason(family, i, today)
        base == [family |-> family, item |-> i, variant |-> all[c.variant + 1],
                 from |-> from, to |-> to, skip |-> skip, gap |-> FALSE,
                 batch |-> {}, span |-> 0, expiry |-> 0]
        last == Run(entries, c.item, family, today, cfg, skip)
        gap == minute /\ cfg.start < horizon /\ ~c.ack
        batched == family \in DOMAIN Batch \/ (skip # None /\ family = "depth200")
        planned == CASE gap -> [base EXCEPT !.from = cfg.start, !.gap = TRUE,
                                  !.to = Least(cfg.end, horizon), !.skip = "outside horizon"]
                     [] gone /\ ~gap -> [base EXCEPT !.from = start0, !.to = cfg.end]
                     [] batched /\ ~gone -> [base EXCEPT !.span = last - c.item + 1,
                          !.batch = {entries[k] : k \in {n \in c.item..last :
                                                           Selected(cfg, entries[n])}}]
                     [] OTHER -> base
    IN IF c.variant >= Len(all)
       THEN Moved([c EXCEPT !.item = @ + 1, !.variant = 0, !.window = 0])
       ELSE IF family \in History /\ from >= to /\ ~gap /\ ~gone
       THEN Moved([c EXCEPT !.variant = @ + 1, !.window = 0, !.ack = FALSE])
       ELSE [cursor |-> c, task |-> planned, done |-> FALSE]

\* A plausible error: an item is left after its first window.
OneWindow(c, t) == [c EXCEPT !.variant = @ + 1, !.window = 0, !.ack = FALSE]

\* advance: where a finished task leaves the cursor.
advance(c, t) ==
    IF t.gap THEN [c EXCEPT !.ack = TRUE]
    ELSE IF t.batch # {} THEN [c EXCEPT !.item = @ + t.span, !.variant = 0, !.window = 0]
    ELSE IF t.family \in History /\ t.skip = None THEN [c EXCEPT !.window = @ + 1]
    ELSE [c EXCEPT !.variant = @ + 1, !.window = 0, !.ack = FALSE]

\* The loop of run: move the cursor until it yields a task, the plan ends or
\* the bound on moves is reached.
NextTask(pages, cfg, c, today) ==
    LET walk[n \in 0..PlanSteps] ==
            IF n = 0 THEN Moved(c)
            ELSE LET w == walk[n - 1]
                     s == select_item(pages, cfg, w.cursor)
                 IN IF w.task # None \/ w.done THEN w
                    ELSE IF s.page > Len(pages) THEN [Moved(s) EXCEPT !.done = TRUE]
                    ELSE task(pages, cfg, s, today)
    IN walk[PlanSteps]
=============================================================================
