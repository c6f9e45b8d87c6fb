----------------------------- MODULE ControlRoom -----------------------------
(***************************************************************************)
(* backend/pipeline.py around the signal engine, with the Dhan feed, the   *)
(* freshness gate of the dashboard and the Google Sheets loop.             *)
(*                                                                         *)
(* Candles are fetched once a minute and shared by the ticks of that       *)
(* minute; every await of a tick is a step of its own, and the tick loop   *)
(* and POST /pipeline/tick may overlap.  The flush loop appends the queued *)
(* rows of each tab, reads the settings and mirrors the dashboard.         *)
(*                                                                         *)
(* The clock counts instants, PerMinute of them to a minute.  Bars and     *)
(* VWAP are known by the minute they were fetched in; a row of a tab by    *)
(* the instant of its tick.  Alerts are enabled, so recording the rows is  *)
(* a step apart from the evaluation.  Tabs are those that are ever queued. *)
(***************************************************************************)
EXTENDS Naturals, Sequences, FiniteSets

CONSTANTS
  Callers,         \* concurrent callers of tick: the loop, a request
  PerMinute,
  MaxAge,          \* config.max_data_age_seconds, in instants
  Tabs,            \* the tabs, in the order flush visits them
  MaxRetries,      \* GoogleSheetsAdapter._max_retries
  LastInstant,     \* bound of the model: no tick starts later
  Missing

\* What the dashboard is made of, and what the rules have decided on it.
Features == [at : Nat, bars : Nat \cup {Missing}, vwap : Nat \cup {Missing}]
Decisions == [kind : {"SETUP", "WAIT"}, at : Nat]

ASSUME RoomAssumption ==
  /\ PerMinute \in Nat \ {0} /\ MaxAge \in Nat /\ LastInstant \in Nat
  /\ MaxRetries \in Nat \ {0}
  /\ DOMAIN Tabs = 1 .. Len(Tabs) /\ Len(Tabs) \in Nat
  /\ Missing \notin Nat \cup Features \cup Decisions

VARIABLES
  instant,
  feed,        \* DhanFeed: _candles_at, _bars, _vwap_bars
  call,        \* per caller: program counter and time of its tick
  shown,       \* Pipeline.features: time, bars and VWAP used
  decision,    \* Pipeline.decision: kind and time
  failed,      \* Pipeline._feed_failed
  enabled,     \* config.enabled of the pipeline
  queue,       \* SheetsWriters._queues
  flusher,     \* the flush loop: program counter, tab, batch
  headers,     \* SheetsWriters._headers_done
  error,       \* last_error is not empty
  connected,   \* adapter.enabled
  sheet,       \* the tabs at Google, as far as this process wrote them
  overlapped,  \* history: two ticks have run at the same time
  rows,        \* history: the ticks whose rows were queued, in order
  reply        \* history: the latest dashboard that was read

feeding == <<feed, call, shown, decision, failed, overlapped>>
sheets == <<flusher, headers, error, connected, sheet>>
roomVars == <<instant, feeding, enabled, queue, sheets, rows, reply>>

MinuteOf(t) == t \div PerMinute
NoTick == [pc |-> "idle", now |-> 0]
NoFlush == [pc |-> "sleep", tab |-> 0, batch |-> <<>>]

RoomInit ==
  /\ instant = 0
  /\ feed = [at |-> Missing, bars |-> Missing, vwap |-> Missing]
  /\ call = [c \in Callers |-> NoTick]
  /\ shown = Missing /\ decision = Missing /\ failed = FALSE /\ enabled = TRUE
  /\ queue = [i \in DOMAIN Tabs |-> <<>>] /\ sheet = [i \in DOMAIN Tabs |-> <<>>]
  /\ flusher = NoFlush /\ headers = {} /\ error = FALSE /\ connected \in BOOLEAN
  /\ overlapped = FALSE /\ rows = <<>> /\ reply = [kind |-> "WAIT", at |-> Missing, when |-> 0]

Pass == instant < LastInstant /\ instant' = instant + 1
        /\ UNCHANGED <<feeding, enabled, queue, sheets, rows, reply>>

-----------------------------------------------------------------------------
(* The freshness gate *)

Age(now) == IF now < shown.at THEN 0 ELSE now - shown.at
Blocked(now, fail) == shown # Missing /\ (fail \/ Age(now) > MaxAge)
\* refresh_data_health: what is too old, or followed by a failure, is no setup.
Refreshed(now, fail) ==
  IF Blocked(now, fail) /\ decision # Missing THEN [decision EXCEPT !.kind = "WAIT"] ELSE decision

\* GET /dashboard, /chart/signals, /chart/latest: refreshed on every read.
Read ==
  /\ decision' = Refreshed(instant, failed)
  /\ decision # Missing
  /\ reply' = [kind |-> decision'.kind, at |-> decision'.at, when |-> instant]
  /\ UNCHANGED <<instant, feed, call, shown, failed, overlapped, enabled, queue, sheets, rows>>

-----------------------------------------------------------------------------
(* A tick *)

Begin(c) ==
  /\ call[c].pc = "idle"
  /\ \A d \in Callers : call[d].now < instant     \* ticks have different times
  /\ call' = [call EXCEPT ![c] = [pc |-> "quote", now |-> instant]]
  /\ overlapped' = (overlapped \/ \E d \in Callers : call[d].pc # "idle")
  /\ UNCHANGED <<instant, feed, shown, decision, failed, enabled, queue, sheets, rows, reply>>

\* build_features and evaluate_and_apply, in one step with the answer that the
\* tick was waiting for.  An unavailable VWAP or a disabled system is WAIT.
Evaluated(c, f) ==
  LET now == call[c].now IN
  /\ failed' = FALSE
  /\ shown' = [at |-> now, bars |-> f.bars, vwap |-> f.vwap]
  /\ \E kind \in IF enabled /\ f.vwap # Missing THEN {"SETUP", "WAIT"} ELSE {"WAIT"} :
       decision' = [kind |-> kind, at |-> now]
  /\ feed' = f
  /\ call' = [call EXCEPT ![c].pc = "record"]

Awaits(c, pc) == call' = [call EXCEPT ![c].pc = pc] /\ UNCHANGED <<shown, decision, failed>>

Cleared(f) == [f EXCEPT !.bars = Missing, !.vwap = Missing]

\* Expiry, quote and chain have arrived: refresh_candles.
Quoted(c) ==
  /\ call[c].pc = "quote"
  /\ IF feed.at = MinuteOf(call[c].now) THEN Evaluated(c, feed)
     ELSE feed' = Cleared(feed) /\ Awaits(c, "spot")
  /\ UNCHANGED <<instant, overlapped, enabled, queue, sheets, rows, reply>>

\* The closed candles of the index; without a mapping there is no VWAP.
SpotCandles(c) ==
  LET minute == MinuteOf(call[c].now)
      f == [feed EXCEPT !.bars = minute, !.at = minute]
  IN
  /\ call[c].pc = "spot"
  /\ \/ feed' = f /\ Awaits(c, "future")
     \/ Evaluated(c, f)
  /\ UNCHANGED <<instant, overlapped, enabled, queue, sheets, rows, reply>>

FutureCandles(c) ==
  LET minute == MinuteOf(call[c].now) IN
  /\ call[c].pc = "future"
  /\ Evaluated(c, [feed EXCEPT !.vwap = minute, !.at = minute])
  /\ UNCHANGED <<instant, overlapped, enabled, queue, sheets, rows, reply>>

\* A request fails, or its payload, candles or mapping are refused.
FeedFails(c) ==
  /\ call[c].pc \in {"quote", "spot", "future"}
  /\ failed' = TRUE
  /\ decision' = Refreshed(call[c].now, TRUE)
  /\ call' = [call EXCEPT ![c].pc = "idle"]
  /\ UNCHANGED <<instant, feed, shown, overlapped, enabled, queue, sheets, rows, reply>>

\* After the awaits of alerts and execution: queue_raw, queue_pcr, queue_signal.
Record(c) ==
  /\ call[c].pc = "record"
  /\ queue' = [i \in DOMAIN Tabs |-> Append(queue[i], call[c].now)]
  /\ rows' = Append(rows, call[c].now)
  /\ call' = [call EXCEPT ![c].pc = "idle"]
  /\ UNCHANGED <<instant, feed, shown, decision, failed, overlapped, enabled, sheets, reply>>

-----------------------------------------------------------------------------
(* The flush loop *)

NextTab(i) ==
  LET later == {j \in DOMAIN Tabs : j > i /\ queue[j] # <<>>}
  IN IF later = {} THEN 0 ELSE CHOOSE j \in later : \A k \in later : j <= k
HeaderRow == 0                                     \* no tick has this time
Header(i) == IF i \in headers THEN <<>> ELSE <<HeaderRow>>

LeavesRows(i) == [queue EXCEPT ![i] = Tail(@)]   \* bug: all but the first row stay
Emptied(i) == [queue EXCEPT ![i] = <<>>]

\* The batch of the next tab that has rows; header and queue are given up before
\* append_rows is awaited.  After the last tab the settings are read.
TakeAfter(i) ==
  LET j == NextTab(i) IN
  IF j = 0 THEN flusher' = [NoFlush EXCEPT !.pc = "settings"] /\ UNCHANGED <<queue, headers>>
  ELSE /\ flusher' = [pc |-> "append", tab |-> j, batch |-> Header(j) \o queue[j]]
       /\ queue' = Emptied(j) /\ headers' = headers \cup {j}

Flush ==
  /\ flusher.pc = "sleep" /\ instant < LastInstant
  /\ IF connected THEN TakeAfter(0)
     ELSE queue' = [i \in DOMAIN Tabs |-> <<>>] /\ UNCHANGED <<flusher, headers>>
  /\ UNCHANGED <<instant, feeding, enabled, error, connected, sheet, rows, reply>>

Repeated(batch, times) ==
  [n \in 1 .. times * Len(batch) |-> batch[((n - 1) % Len(batch)) + 1]]
\* append_rows: a request whose answer is lost has been applied and is retried;
\* a failure after the last attempt is logged and the loop goes on.
Appended ==
  /\ flusher.pc = "append"
  /\ \E times \in 0 .. MaxRetries, ok \in BOOLEAN :
       /\ ok => times > 0
       /\ sheet' = [sheet EXCEPT ![flusher.tab] = @ \o Repeated(flusher.batch, times)]
       /\ error' = (error \/ ~ok)
  /\ TakeAfter(flusher.tab)
  /\ UNCHANGED <<instant, feeding, enabled, connected, rows, reply>>

\* settings_from_sheet: the value of SYSTEM_ENABLED, or nothing to apply.  All
\* other edits change numbers that are left out.
SettingsFromSheet(on, value) == on /\ value
SettingsRead ==
  /\ flusher.pc = "settings"
  /\ \/ \E value \in BOOLEAN : enabled' = SettingsFromSheet(enabled, value)
     \/ UNCHANGED enabled                          \* empty, rejected or failed
  /\ decision' = Refreshed(instant, failed)          \* dashboard() for the mirror
  /\ reply' = IF decision' = Missing THEN reply
              ELSE [kind |-> decision'.kind, at |-> decision'.at, when |-> instant]
  /\ flusher' = [flusher EXCEPT !.pc = "mirror"]
  /\ UNCHANGED <<instant, feed, call, shown, failed, overlapped, queue, headers, error, connected,
                 sheet, rows>>

Mirrored ==
  /\ flusher.pc = "mirror"
  /\ flusher' = NoFlush
  /\ error' \in {error, TRUE}
  /\ UNCHANGED <<instant, feeding, enabled, queue, headers, connected, sheet, rows, reply>>

-----------------------------------------------------------------------------
TickNext == \E c \in Callers : Begin(c) \/ Quoted(c) \/ SpotCandles(c) \/ FutureCandles(c)
                               \/ FeedFails(c) \/ Record(c)
RoomNext == Pass \/ Read \/ TickNext \/ Flush \/ Appended \/ SettingsRead \/ Mirrored

-----------------------------------------------------------------------------
(* Properties *)

\* While ticks do not overlap, features are built on the candles of their own
\* minute: a refresh that failed never leaves an older VWAP or older bars.
CurrentVwap ==
  shown # Missing /\ ~overlapped =>
    shown.bars = MinuteOf(shown.at) /\ shown.vwap \in {Missing, MinuteOf(shown.at)}

\* Whatever ticks overlap or fail, no reader of the dashboard, the mirror
\* included, gets a setup whose observation is too old or that a failed tick has
\* followed without a newer one that succeeded.
NoStaleSetup ==
  /\ reply.kind = "SETUP" => reply.when <= reply.at + MaxAge
  /\ failed /\ decision # Missing => decision.kind = "WAIT"

\* Once the sheet has disabled the system, nothing it says later brings a setup:
\* re-enabling is done in the configuration of the next process.
DisableHolds ==
  [][~enabled => ~enabled' /\ (decision' # decision => decision'.kind = "WAIT")]_roomVars

\* Read without its repetitions, seq is out.
ReadsAs(seq, out) ==
  /\ {seq[q] : q \in DOMAIN seq} = {out[a] : a \in DOMAIN out}
  /\ \A a, b \in DOMAIN out : a < b =>
       out[a] # out[b] /\ \A q \in DOMAIN seq : seq[q] = out[b] => \E p \in 1 .. q : seq[p] = out[a]
InFlight(i) == IF flusher.pc = "append" /\ flusher.tab = i THEN flusher.batch ELSE <<>>
\* What tab i is to hold: the rows of every tick, below the header once it was given up.
Lines(i) == IF sheet[i] = <<>> /\ InFlight(i) = <<>> THEN rows ELSE <<HeaderRow>> \o rows
\* As long as no failure has been reported, a connected tab, its batch in flight
\* and its queue are the header and the rows of every tick, in the order they
\* were queued: rows that arrive while a batch is awaited are neither lost nor
\* written twice, and a repeated request repeats a whole batch.
SheetIsTheQueue ==
  connected /\ ~error =>
    \A i \in DOMAIN Tabs : \E n \in 0 .. Len(Lines(i)) :
      LET out == SubSeq(Lines(i), 1, n)
      IN ReadsAs(sheet[i], out) /\ Lines(i) = out \o InFlight(i) \o queue[i]

\* What the room shows and what it writes down.
RoomSound == CurrentVwap /\ NoStaleSetup /\ SheetIsTheQueue
=============================================================================
