--------------------------- MODULE CandleEvidence ---------------------------
(***************************************************************************)
(* live-app: the minutes research reasons from.  research.saved_candles      *)
(* puts them together from four kinds of evidence: legacy history records,  *)
(* the day partitions of the collector behind a small index                 *)
(* (research_archive.py), and two snapshots a page refreshes by itself       *)
(* (session_chart.py), which supersede their request windows.               *)
(*                                                                         *)
(* The provider may leave out the minute that just closed and may return    *)
(* the one still forming: a candle here is "final" or "forming", with the   *)
(* moment it was received.  The clock counts half minutes.                  *)
(***************************************************************************)
EXTENDS IndicatorEngine

CONSTANTS
  Jobs,              \* collection runs, which overlap when a lease is outlived
  Pages,             \* pages that refresh: the snapshots
  Fresh,             \* 55 seconds, in half minutes
  Recent,            \* days history_days reads, 21
  IndexKept,         \* days the index keeps, 90
  \* bounds of the model, not of the code
  MaxFetches

VARIABLES
  clock,
  legacy,            \* dhan_history records
  partitions,        \* candles/<series>/<day>: [day -> document]
  index,             \* research/collected/history: [day -> received_at]
  snapshot,          \* research/warmup, session and future
  batch, page,         \* the fetches in progress
  fetches

evidenceVars == <<clock, legacy, partitions, index, snapshot, batch, page, fetches>>

Kinds == {"warmup", "session", "future"}
EndOfDays == Origin(Cardinality(Days) + 1)
Minute(at) == at \div 2
Today == IF Minute(clock) >= EndOfDays THEN Cardinality(Days) ELSE DayOf(Minute(clock))
Resting == [pc |-> "idle"]

EvidenceInit ==
  /\ clock = 0 /\ legacy = {} /\ partitions = [d \in {} |-> 0] /\ index = [d \in {} |-> 0]
  /\ snapshot = [k \in Kinds |-> NoValue]
  /\ batch = [j \in Jobs |-> Resting] /\ page = [p \in Pages |-> Resting] /\ fetches = 0

Spend == fetches < MaxFetches /\ fetches' = fetches + 1

-----------------------------------------------------------------------------
(* The provider                                                            *)

\* What charts/intraday may answer now for the minutes from .. to - 1.
Answers(from, to) ==
  LET past == {t \in from .. to - 1 : t < Minute(clock) /\ DayOf(t) \notin Holidays}
      late == {t \in past : t < Minute(clock) - 1}
      forming == {t \in from .. to : t = Minute(clock) /\ t < EndOfDays /\ DayOf(t) \notin Holidays}
  IN {[t \in some |-> [value |-> IF t < Minute(clock) THEN "final" ELSE "forming", got |-> clock]] :
        some \in {late, past \cup forming}}

Tick == clock < 2 * EndOfDays /\ clock' = clock + 1 /\ UNCHANGED <<legacy, partitions, index, snapshot, batch, page, fetches>>

-----------------------------------------------------------------------------
(* Collected evidence                                                      *)

\* A whole-day record of the old history downloads.
Legacy ==
  /\ legacy = {} /\ Spend
  /\ \E d \in Days \ Holidays : \E rows \in Answers(Origin(d), Origin(d + 1)) :
       rows # <<>> /\ legacy' = legacy \cup {[received |-> clock, rows |-> rows]}
  /\ UNCHANGED <<clock, partitions, index, snapshot, batch, page>>

\* A collection request for one to two days; a plan may include today.
Collect(j) ==
  /\ batch[j].pc = "idle" /\ Spend
  /\ \E d \in Days \ Holidays : \E end \in {d, d + 1} : \E rows \in Answers(Origin(d), Origin(end + 1)) :
       /\ d <= Today /\ end \in Days /\ rows # <<>>
       /\ batch' = [batch EXCEPT ![j] = [pc |-> "persist", rows |-> rows, received |-> clock,
                                     left |-> {DayOf(t) : t \in DOMAIN rows}, days |-> {DayOf(t) : t \in DOMAIN rows}]]
  /\ UNCHANGED <<clock, legacy, partitions, index, snapshot, page>>

\* persist_candles: every day is merged into its partition, in any order.
Merged(rows, day) ==
  LET mine == [t \in {u \in DOMAIN rows : DayOf(u) = day} |-> rows[t]]
      kept == IF day \in DOMAIN partitions THEN partitions[day].candles ELSE <<>>
  IN [updated |-> clock, candles |-> [t \in DOMAIN mine \cup DOMAIN kept |-> IF t \in DOMAIN mine THEN mine[t] ELSE kept[t]]]

Persisted(j) == batch[j].pc = "persist" /\ batch[j].left = {}

Persist(j) ==
  /\ batch[j].pc = "persist"
  /\ \E day \in batch[j].left :
       /\ partitions' = [d \in DOMAIN partitions \cup {day} |->
                           IF d = day THEN Merged(batch[j].rows, day) ELSE partitions[d]]
       /\ batch' = [batch EXCEPT ![j].left = @ \ {day}]
  /\ UNCHANGED <<clock, legacy, index, snapshot, page, fetches>>

\* publish: the newest receipt of a day stays; the last days are kept.
Newest(n, days) == {d \in days : Cardinality({e \in days : e > d}) < n}
Publish(j) ==
  LET named == DOMAIN index \cup batch[j].days
      entry(d) == IF d \in batch[j].days /\ (d \notin DOMAIN index \/ index[d] <= batch[j].received)
                  THEN batch[j].received ELSE index[d]
  IN /\ Persisted(j)
     /\ index' = [d \in Newest(IndexKept, named) |-> entry(d)]
     /\ batch' = [batch EXCEPT ![j] = Resting]
     /\ UNCHANGED <<clock, legacy, partitions, snapshot, page, fetches>>

\* history_days: what the index named by then; without any, the partitions of the
\* last days are looked for by their names.  Later writes hide a partition.
WrittenBy(doc, at) == doc.updated <= at

HistoryDays(at) ==
  LET day == IF Minute(at) >= EndOfDays THEN Cardinality(Days) ELSE DayOf(Minute(at))
      indexed == Newest(Recent, {d \in DOMAIN index : d <= day /\ index[d] <= at})
      named == IF indexed = {} THEN {d \in Days : d <= day /\ d > day - Recent} ELSE indexed
  IN {d \in named \cap DOMAIN partitions : WrittenBy(partitions[d], at)}

-----------------------------------------------------------------------------
(* The snapshots of a page                                                  *)

\* refresh_session and refresh_context: the cached document serves for 55 s, the
\* warm-up for its day.
Cached(kind) ==
  LET old == snapshot[kind] IN
  old # NoValue /\ old.day = Today /\ (kind = "warmup" \/ clock - old.received < Fresh)

\* The window of the request: the day so far, or the days before it.
Window(kind) == IF kind = "warmup" THEN [from |-> 0, to |-> Origin(Today)]
                ELSE [from |-> Origin(Today), to |-> Minute(clock)]

\* Before the open and on a closed day the session is an empty document.
Outside(kind) == Today \in Holidays \/ (kind # "warmup" /\ Minute(clock) = Origin(Today))

Refresh(p) ==
  /\ page[p].pc = "idle" /\ Minute(clock) < EndOfDays
  /\ \E kind \in Kinds :
       /\ ~Cached(kind) /\ Spend
       /\ ~(kind = "future" /\ Outside(kind))
       /\ page' = [page EXCEPT ![p] = [pc |-> "asked", kind |-> kind, day |-> Today, request |-> Window(kind),
                                       empty |-> kind = "session" /\ Outside(kind)]]
  /\ UNCHANGED <<clock, legacy, partitions, index, snapshot, batch>>

\* intraday_window: the answer, or an error that leaves the old document.
Return(p) ==
  LET q == page[p] IN
  /\ q.pc = "asked"
  /\ \/ \E rows \in (IF q.empty THEN {<<>>} ELSE Answers(q.request.from, q.request.to)) :
          page' = [page EXCEPT ![p] = [pc |-> "install", kind |-> q.kind,
                     record |-> [day |-> q.day, request |-> IF q.empty THEN NoValue ELSE q.request,
                                 received |-> clock, raw |-> rows]]]
     \/ ~q.empty /\ page' = [page EXCEPT ![p] = Resting]
  /\ UNCHANGED <<clock, legacy, partitions, index, snapshot, batch, fetches>>

\* Only the session keeps what was received later.
Installed(kind, old, record) ==
  IF kind = "session" /\ old # NoValue /\ old.received > record.received THEN old ELSE record

Install(p) ==
  LET q == page[p] IN
  /\ q.pc = "install"
  /\ snapshot' = [snapshot EXCEPT ![q.kind] = Installed(q.kind, @, q.record)]
  /\ page' = [page EXCEPT ![p] = Resting]
  /\ UNCHANGED <<clock, legacy, partitions, index, batch, fetches>>

EvidenceNext ==
  \/ Tick \/ Legacy
  \/ \E j \in Jobs : Collect(j) \/ Persist(j) \/ Publish(j)
  \/ \E p \in Pages : Refresh(p) \/ Return(p) \/ Install(p)

-----------------------------------------------------------------------------
(* Views                                                                   *)

\* saved_candles, as of a clock: rows and the minutes on which sources disagree.
Told(source, rows, at) ==
  {[t |-> t, source |-> source, value |-> rows[t].value, got |-> rows[t].got] :
     t \in {u \in DOMAIN rows : ClosedBy(u, at)}}
Disputed(said) == {t \in {r.t : r \in said} : Cardinality({r.value : r \in {s \in said : s.t = t}}) > 1}

\* A snapshot supersedes its window, rows and disputes alike, with what it holds
\* of that window.

\* A plausible error: all of its answer is taken.
WholeAnswer(doc) == doc.raw

InWindow(doc) == [t \in {u \in DOMAIN doc.raw : u \in doc.request.from .. doc.request.to - 1} |-> doc.raw[t]]

Superseded(said, doc, at) ==
  IF doc = NoValue THEN said
  ELSE IF doc.request = NoValue \/ doc.received > at THEN said
  ELSE {r \in said : r.t \notin doc.request.from .. doc.request.to - 1} \cup Told("snapshot", InWindow(doc), at)

Retained(at) == UNION ({Told("legacy", r.rows, at) : r \in legacy}
                       \cup {Told("collected", partitions[d].candles, at) : d \in HistoryDays(at)})
Said(at) == Superseded(Superseded(Retained(at), snapshot["warmup"], at), snapshot["session"], at)
SavedCandles(at) == {r \in Said(at) : r.t \notin Disputed(Said(at))}

\* session_view: the closed minutes of the day by the clock of the reader.
SessionView(doc, at) == {r \in Told("snapshot", doc.raw, at) : DayOf(r.t) = Today}

-----------------------------------------------------------------------------
(* Properties                                                              *)

\* The minutes of a snapshot that reach research are final, although the provider
\* returns the minute it is forming and a reader comes later than the receipt.
SnapshotIsFinal == \A r \in SavedCandles(clock) : r.source = "snapshot" => r.value = "final"

\* A replay at an earlier clock is told nothing that the collector or a page
\* received later, however often days are collected again.
ReplaySeesNoLater ==
  \A at \in 0 .. clock : \A r \in SavedCandles(at) :
    r.source # "legacy" => r.got <= at

\* What the index names is stored, and is at least as new as it says.
IndexBacked == \A d \in DOMAIN index : d \in DOMAIN partitions /\ partitions[d].updated >= index[d]

\* Research reads what was final and known at its clock.
EvidenceSound == SnapshotIsFinal /\ ReplaySeesNoLater /\ IndexBacked

\* Of two pages that refresh side by side, the later answer stays.
SessionNeverOlder ==
  [][snapshot["session"] # NoValue => snapshot'["session"].received >= snapshot["session"].received]_evidenceVars
=============================================================================
