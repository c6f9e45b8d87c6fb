------------------------------ MODULE LiveGaps ------------------------------
(***************************************************************************)
(* personal-trading-phase1/app: the quote feed of one instrument            *)
(* (live_feed.DhanLiveClient), the receipt of each subscribed session      *)
(* (live_runtime.record_session), and the repair of the minutes the feed   *)
(* missed: a maintenance task plans a gap for a pending session            *)
(* (gaps.plan_session) and workers fetch its minute candles                *)
(* (gaps.process_gap).  LiveTicks.tla has the way of a tick to the         *)
(* database; here a tick moves the checkpoint, LiveCheckpoint.             *)
(*                                                                         *)
(* Time is in minutes; all of them are in the session of one day, inside   *)
(* the seven days plan_session looks back (calendar_end changes nothing).  *)
(***************************************************************************)
EXTENDS Integers, FiniteSets, FiniteSetsExt

CONSTANTS
  Saved,          \* minutes with a stored candle at the start
  Calendar,       \* the session calendar of the instrument is known
  MaxAttempts,    \* settings().max_fetch_attempts
  None,
  \* bounds of the model, not of the code
  LastMinute, MaxFaults

ASSUME GapsAssumption ==
  /\ IsFiniteSet(Saved) /\ Saved \subseteq Int /\ Calendar \in BOOLEAN
  /\ MaxAttempts \in Nat \ {0} /\ {LastMinute, MaxFaults} \subseteq Nat

VARIABLES
  now,
  feed,       \* DhanLiveClient.run: up, disconnected_at, blocked_revision set
  receipt,    \* SystemState live-session-pending, or None
  planning,   \* the receipt process_pending_session has read, or None
  gaps,       \* LiveGap by <<start, end>>; worker: its advisory lock is held
  candles,    \* HistoricalData: minutes with a candle
  checkpoint, \* LiveCheckpoint.received_at, or None
  mapped,     \* mapping_verified, and not blocked; the fingerprint never changes
  credential, \* token accepted, and read by the maintenance loop
  missed,     \* history: minutes that ended without a tick
  calls,      \* history: requests sent for each gap
  faults

gapVars == <<now, feed, receipt, planning, gaps, candles, checkpoint, mapped,
             credential, missed, calls, faults>>

-----------------------------------------------------------------------------

ACTIVE == {"QUEUED", "RETRY_WAIT", "RUNNING"}
Blocking == ACTIVE \cup {"AUTH_REQUIRED", "NEEDS_MAPPING", "REVIEW_REQUIRED"}

GapsInit ==
  /\ now = 1
  /\ feed = [up |-> FALSE, lost |-> None, blocked |-> FALSE]
  /\ receipt = None /\ planning = None
  /\ gaps = << >>
  /\ candles = Saved
  /\ checkpoint = None
  /\ mapped = TRUE
  /\ credential = [good |-> TRUE, read |-> FALSE]
  /\ missed = {} /\ calls = << >>
  /\ faults = 0

Fault == faults < MaxFaults /\ faults' = faults + 1

-----------------------------------------------------------------------------
(* Time and the feed *)

\* A minute ends; a feed that is down missed it.
Minute ==
  /\ now < LastMinute
  /\ now' = now + 1
  /\ missed' = IF feed.up THEN missed ELSE missed \cup {now}
  /\ UNCHANGED <<feed, receipt, planning, gaps, candles, checkpoint, mapped, credential, calls, faults>>

\* A tick of this minute is stored.
Tick ==
  /\ feed.up /\ checkpoint # now
  /\ checkpoint' = now
  /\ UNCHANGED <<now, feed, receipt, planning, gaps, candles, mapped, credential, missed, calls, faults>>

OldestLoss(old, new) == Min({old, new})
\* record_session: a receipt that was not planned yet keeps its disconnection.
Recorded(lost) ==
  [read |-> FALSE,  \* its id is in planning
   at |-> now,
   lost |-> IF receipt = None THEN lost
            ELSE OldestLoss(IF receipt.lost = None THEN receipt.at ELSE receipt.lost,
                            IF lost = None THEN now ELSE lost)]

\* A session: connected, subscribed, and its receipt committed.
Connect ==
  /\ ~feed.up /\ ~feed.blocked
  /\ receipt' = Recorded(feed.lost)
  /\ feed' = [feed EXCEPT !.up = TRUE]
  /\ UNCHANGED <<now, planning, gaps, candles, checkpoint, mapped, credential, missed, calls, faults>>

\* The connection fails, before its receipt is written, after, or later; 805
\* to 810, 401 and 403 block this credential.
Disconnect ==
  /\ ~feed.blocked /\ Fault
  /\ receipt' \in {receipt} \cup (IF feed.up THEN {} ELSE {Recorded(feed.lost)})
  /\ \E blocked \in BOOLEAN : feed' = [up |-> FALSE, lost |-> now, blocked |-> blocked]
  /\ UNCHANGED <<now, planning, gaps, candles, checkpoint, mapped, credential, missed, calls>>

\* _monitor and run see other credentials; the administrator saved a token.
NewCredential ==
  /\ feed.blocked \/ ~credential.good
  /\ credential' = [good |-> TRUE, read |-> FALSE]
  /\ feed' = [feed EXCEPT !.blocked = FALSE, !.up = FALSE, !.lost = IF feed.up THEN now ELSE @]
  /\ UNCHANGED <<now, receipt, planning, gaps, candles, checkpoint, mapped, missed, calls, faults>>

CredentialExpires ==
  /\ credential.good /\ Fault
  /\ credential' = [credential EXCEPT !.good = FALSE]
  /\ UNCHANGED <<now, feed, receipt, planning, gaps, candles, checkpoint, mapped, missed, calls>>

\* import_master: an identity conflict, or the recorded identity again.
Remap ==
  /\ Fault
  /\ mapped' = ~mapped
  /\ UNCHANGED <<now, feed, receipt, planning, gaps, candles, checkpoint, credential, missed, calls>>

-----------------------------------------------------------------------------
(* maintenance *)

\* Every five minutes, while trades come in, every instrument is looked at again.
CatchUp ==
  /\ checkpoint # None /\ planning = None
  /\ receipt' = Recorded(None)
  /\ UNCHANGED <<now, feed, planning, gaps, candles, checkpoint, mapped, credential, missed, calls, faults>>

\* process_pending_session, first transaction
ReadReceipt ==
  /\ planning = None /\ receipt # None
  /\ planning' = receipt
  /\ receipt' = [receipt EXCEPT !.read = TRUE]
  /\ UNCHANGED <<now, feed, gaps, candles, checkpoint, mapped, credential, missed, calls, faults>>

FromNewest(S) == Max(S)                     \* bug: from the newest evidence
FromOldest(S) == Min(S)
FromEvidence(S) == FromOldest(S)

\* The range plan_session requests: from the oldest of the last stored tick,
\* the last saved candle and the disconnection, up to the last finished minute.
Missing(info) ==
  LET last == info.at - 1
      tail == {m \in candles : m < last}
      known == (IF checkpoint = None THEN {} ELSE {checkpoint})
               \cup (IF tail = {} THEN {} ELSE {Max(tail)})
               \cup (IF info.lost = None THEN {} ELSE {info.lost})
  IN <<IF known = {} THEN 0 ELSE FromEvidence(known), last>>

NewGap == [status |-> "QUEUED", attempts |-> 0, worker |-> FALSE]
Add(f, k, v) == [x \in DOMAIN f \cup {k} |-> IF x \in DOMAIN f THEN f[x] ELSE v]

\* plan_session, and the receipt removed if it is still the one that was read.
PlanSession ==
  /\ planning # None
  /\ LET range == Missing(planning) IN
       IF (\E g \in DOMAIN gaps : gaps[g].status \in Blocking) \/ ~mapped
          \/ range[1] >= range[2]
       THEN UNCHANGED <<gaps, calls>>
       ELSE gaps' = Add(gaps, range, NewGap) /\ calls' = Add(calls, range, 0)
  /\ receipt' = IF receipt.read THEN None ELSE receipt
  /\ planning' = None
  /\ UNCHANGED <<now, feed, candles, checkpoint, mapped, credential, missed, faults>>

\* The live process dies between the transactions, or before the second.
PlanFails ==
  /\ planning # None /\ Fault
  /\ planning' = None
  /\ UNCHANGED <<now, feed, receipt, gaps, candles, checkpoint, mapped, credential, missed, calls>>

\* resume_auth_gaps, when the loop sees other credentials
ResumeAuthGaps ==
  /\ ~credential.read
  /\ credential' = [credential EXCEPT !.read = TRUE]
  /\ gaps' = [g \in DOMAIN gaps |->
                IF gaps[g].status = "AUTH_REQUIRED" /\ gaps[g].attempts < MaxAttempts
                THEN [gaps[g] EXCEPT !.status = "QUEUED"] ELSE gaps[g]]
  /\ UNCHANGED <<now, feed, receipt, planning, candles, checkpoint, mapped, missed, calls, faults>>

-----------------------------------------------------------------------------
(* process_gap; dispatch_gaps publishes every ACTIVE gap again and again *)

CountedAtStart(n) == n + 1

WaitingOnly == {"QUEUED", "RETRY_WAIT"}     \* bug: an interrupted repair is forgotten
Due == ACTIVE

\* The checks, and the STARTED receipt committed before the request is sent; a
\* gap left RUNNING by a dead worker comes back here.
Begin(g) ==
  /\ gaps[g].status \in Due /\ ~gaps[g].worker
  /\ \/ gaps' = [gaps EXCEPT ![g] =
            IF ~mapped THEN [@ EXCEPT !.status = "NEEDS_MAPPING"]
            ELSE IF @.attempts >= MaxAttempts THEN [@ EXCEPT !.status = "REVIEW_REQUIRED"]
            ELSE [@ EXCEPT !.status = "RUNNING", !.attempts = CountedAtStart(@), !.worker = TRUE]]
     \/ /\ ~credential.good /\ mapped /\ gaps[g].attempts < MaxAttempts
        /\ gaps' = [gaps EXCEPT ![g].status = "AUTH_REQUIRED"]    \* no token saved
  /\ calls' = IF gaps'[g].worker THEN [calls EXCEPT ![g] = @ + 1] ELSE calls
  /\ UNCHANGED <<now, feed, receipt, planning, candles, checkpoint, mapped, credential, missed, faults>>

\* The worker is lost, before or after its request; its lock is free again.
WorkerDies(g) ==
  /\ gaps[g].worker /\ Fault
  /\ gaps' = [gaps EXCEPT ![g].worker = FALSE]
  /\ UNCHANGED <<now, feed, receipt, planning, candles, checkpoint, mapped, credential, missed, calls>>

\* The disk is full, or the account gate puts the request off.
Defer(g) ==
  /\ gaps[g].status \in Due /\ ~gaps[g].worker /\ mapped /\ Fault
  /\ gaps' = [gaps EXCEPT ![g].status = "RETRY_WAIT"]
  /\ UNCHANGED <<now, feed, receipt, planning, candles, checkpoint, mapped, credential, missed, calls>>

Inside(g) == g[1] .. (g[2] - 1)

\* Rows of an answer: all, the last one, none (bounded choice).
Answers(g) == {Inside(g), {g[2] - 1}, {}}

Again(g) == IF gaps[g].attempts < MaxAttempts THEN "RETRY_WAIT" ELSE "REVIEW_REQUIRED"

\* What the answer makes of the gap: rows are the candles inside it.
Settled(g, outcome, rows) ==
  CASE ~mapped -> "NEEDS_MAPPING"
    [] outcome = "CONFLICT" -> "REVIEW_REQUIRED"
    [] outcome = "ROWS" -> IF Calendar /\ ~(Inside(g) \subseteq candles \cup rows)
                           THEN Again(g) ELSE "ROWS_RECEIVED"
    [] outcome = "AUTH" -> "AUTH_REQUIRED"
    [] outcome = "RETRYABLE" -> Again(g)
    [] OTHER -> "REVIEW_REQUIRED"

Finish(g) ==
  /\ gaps[g].worker
  /\ \E outcome \in {"ROWS", "CONFLICT", "AUTH", "RETRYABLE", "OTHER"}, rows \in Answers(g) :
       /\ outcome \in {"ROWS", "CONFLICT"} <=> rows # {}
       /\ outcome = "CONFLICT" => rows \cap candles # {}
       /\ outcome = "AUTH" => ~credential.good
       /\ rows # {} => credential.good
       /\ candles' = IF mapped THEN candles \cup rows ELSE candles
       /\ gaps' = [gaps EXCEPT ![g] = [@ EXCEPT !.status = Settled(g, outcome, rows), !.worker = FALSE]]
  /\ UNCHANGED <<now, feed, receipt, planning, checkpoint, mapped, credential, missed, calls, faults>>

-----------------------------------------------------------------------------

Gap(g) == Begin(g) \/ Finish(g)
Maintenance == ReadReceipt \/ PlanSession \/ ResumeAuthGaps
GapsNext ==
  \/ Minute \/ Tick \/ Connect \/ Disconnect \/ NewCredential \/ CredentialExpires \/ Remap
  \/ CatchUp \/ Maintenance \/ PlanFails
  \/ \E g \in DOMAIN gaps : Gap(g) \/ Defer(g) \/ WorkerDies(g)

GapsSpec == GapsInit /\ [][GapsNext]_gapVars

-----------------------------------------------------------------------------

\* A request is counted before it is sent: whatever dies or is retried, the
\* provider gets at most MaxAttempts requests for one gap ("crash consumes an
\* attempt").
GapRequestsBounded == \A g \in DOMAIN gaps : calls[g] <= MaxAttempts

\* Repair has stopped, and somebody has to look: at a gap, the identity or the
\* credential.
NeedsReview ==
  \/ \E g \in DOMAIN gaps : gaps[g].status \in Blocking \ ACTIVE
  \/ ~mapped \/ feed.blocked

\* Every minute the feed missed becomes part of a repair, however the sessions,
\* their receipts and the repairs of earlier minutes interleave.
EveryOutagePlanned == \A m \in 1 .. (LastMinute - 2) :
  (m \in missed) ~> (m \in candles \/ NeedsReview \/ \E g \in DOMAIN gaps : m \in Inside(g))

\* No repair is left half done: again and again there is none that waits or
\* runs (a new one is planned only then).
EveryGapEnds == []<>(\A g \in DOMAIN gaps : gaps[g].status \notin ACTIVE)

\* An outage is planned and its repair comes to an end.
OutagesRepaired == EveryOutagePlanned /\ EveryGapEnds
=============================================================================
