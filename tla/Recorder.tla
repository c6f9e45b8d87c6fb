------------------------------- MODULE Recorder -------------------------------
(***************************************************************************)
(* live-app/data_recorder.py and the subscription plans of data_system.py:  *)
(* how one feed of the unattended worker is recorded.                      *)
(*                                                                         *)
(* Maintenance publishes which instruments a feed carries; the recorder    *)
(* opens a socket for that scope, collects frames in memory and writes     *)
(* them as numbered chunks of its session.  Every write to the store is a  *)
(* step and may fail, the socket may drop and the worker may die.          *)
(*                                                                         *)
(* Time is the number of frames the provider has sent.                     *)
(***************************************************************************)
EXTENDS Integers, FiniteSets, Sequences

CONSTANTS
  Catalogues,  \* what discovery resolves, one set of contracts after the other
  Expires,     \* contracts that expire while the model runs
  Missing,     \* no plan, no frame
  \* bounds of the model, not of the code
  MaxFrames, MaxFeedFaults, MaxCredential

ASSUME MissingIsNoFrame == Missing \notin Nat

VARIABLES
  catalogue, expired, credential,  \* what discovery would publish now
  scopeDoc, head, lastGood,        \* system/subscription-plan, -revision, last-good-subscription
  archive,                         \* system/subscriptions/<day>/<revision>
  publisher,                       \* publish_subscription_plan at work: [pc, plan]
  cached,                          \* the plan supervise keeps in memory
  time, rec,                       \* the recorder of the feed
  chunks,                          \* streams/.../<session>/<sequence> -> frames
  gaps,                            \* ingestion_gap records: [from, to]
  status,                          \* system/recorder/<stream>: [durable, frame]
  first,                           \* history: the first frame a status made durable
  connecting,                      \* history: the frames sent while a socket was being opened
  sessions, feedFaults

plans == <<catalogue, expired, credential, scopeDoc, head, lastGood, archive, publisher>>
recording == <<cached, time, rec, chunks, gaps, status, first, connecting, sessions>>
feedVars == <<plans, recording, feedFaults>>

-----------------------------------------------------------------------------

Publishing == [pc |-> "idle", plan |-> Missing]
Off == [pc |-> "off", scope |-> {}, rev |-> Missing, session |-> 0, seq |-> 0,
        frames |-> {}, waiting |-> {}, at |-> 0]
FeedFault == feedFaults < MaxFeedFaults /\ feedFaults' = feedFaults + 1

FeedInit ==
  /\ catalogue = 1 /\ expired = {} /\ credential = 1
  /\ scopeDoc = Missing /\ head = Missing /\ lastGood = Missing /\ archive = {}
  /\ publisher = Publishing
  /\ cached = Missing /\ time = 0 /\ rec = Off /\ chunks = {} /\ gaps = {}
  /\ status = [durable |-> Missing, frame |-> Missing] /\ first = Missing
  /\ connecting = {} /\ sessions = 0 /\ feedFaults = 0

-----------------------------------------------------------------------------
(* Subscription plans                                                      *)

Revision(scope) == <<scope, credential>>

\* subscription_plan: what discovery has resolved.
Discovered ==
  LET scope == Catalogues[catalogue] \ expired
  IN [rev |-> Revision(scope), scope |-> scope, feed |-> Revision(scope)]

\* restore_subscriptions: the retained identities that have not expired, under
\* the revisions of the feeds they were published with.
Retained == IF scopeDoc # Missing THEN scopeDoc ELSE lastGood
Restored ==
  LET scope == Retained.scope \ expired
  IN [Retained EXCEPT !.rev = Revision(scope), !.scope = scope]

Restore ==
  /\ publisher.pc = "idle" /\ Retained # Missing
  /\ Retained.scope \ expired # {}
  /\ ~(scopeDoc # Missing /\ scopeDoc.rev = Restored.rev /\ scopeDoc.scope = Restored.scope)
  /\ publisher' = [pc |-> "archive", plan |-> Restored]
  /\ UNCHANGED <<catalogue, expired, credential, scopeDoc, head, lastGood, archive, recording, feedFaults>>

Discover ==
  /\ publisher.pc = "idle" /\ Discovered.scope # {}
  /\ publisher' = [pc |-> "archive", plan |-> Discovered]
  /\ UNCHANGED <<catalogue, expired, credential, scopeDoc, head, lastGood, archive, recording, feedFaults>>

\* publish_subscription_plan: four writes; an archived revision is kept.
Publish ==
  /\ publisher.pc # "idle"
  /\ LET p == publisher.plan
         known == \E a \in archive : a.rev = p.rev
     IN CASE publisher.pc = "archive" ->
               /\ archive' = IF known THEN archive ELSE archive \cup {p}
               /\ publisher' = [publisher EXCEPT !.pc = "pointer"] /\ UNCHANGED <<scopeDoc, head, lastGood>>
          [] publisher.pc = "pointer" ->
               /\ lastGood' = CHOOSE a \in archive : a.rev = p.rev
               /\ publisher' = [publisher EXCEPT !.pc = "scope"] /\ UNCHANGED <<scopeDoc, head, archive>>
          [] publisher.pc = "scope" ->
               /\ scopeDoc' = p
               /\ publisher' = [publisher EXCEPT !.pc = "head"] /\ UNCHANGED <<head, lastGood, archive>>
          [] publisher.pc = "head" ->
               /\ head' = p.rev /\ publisher' = Publishing /\ UNCHANGED <<scopeDoc, lastGood, archive>>
  /\ UNCHANGED <<catalogue, expired, credential, recording, feedFaults>>

\* A write fails: the stage is over until the next pass.
PublishFails ==
  /\ publisher.pc # "idle" /\ FeedFault
  /\ publisher' = Publishing
  /\ UNCHANGED <<catalogue, expired, credential, scopeDoc, head, lastGood, archive, recording>>

\* A new master, the end of a contract, a saved credential.
Change ==
  /\ \/ catalogue < Len(Catalogues) /\ catalogue' = catalogue + 1 /\ UNCHANGED <<expired, credential>>
     \/ \E c \in Expires \ expired : expired' = expired \cup {c} /\ UNCHANGED <<catalogue, credential>>
     \/ credential < MaxCredential /\ credential' = credential + 1 /\ UNCHANGED <<catalogue, expired>>
  /\ UNCHANGED <<scopeDoc, head, lastGood, archive, publisher, recording, feedFaults>>

-----------------------------------------------------------------------------
(* The recorder of one feed                                                *)

\* scope, in supervise: the plan is read again when the published revision is
\* not the one kept in memory.

\* A plausible error: the plan is read once.
ReadOnce == IF cached = Missing THEN scopeDoc ELSE cached

Followed == IF cached = Missing \/ cached.rev # head THEN scopeDoc ELSE cached

Apart == UNCHANGED <<plans, time, connecting>>
Rec(r) == rec' = r

\* record: a new journal for the scope; nothing to record, wait.
ReadPlan ==
  /\ rec.pc = "off"
  /\ cached' = Followed
  /\ IF Followed = Missing THEN UNCHANGED <<rec, sessions>>
     ELSE /\ rec' = [Off EXCEPT !.pc = "open", !.scope = Followed.scope, !.rev = Followed.feed,
                                !.session = sessions + 1, !.at = time]
          /\ sessions' = sessions + 1
  /\ Apart /\ UNCHANGED <<chunks, gaps, status, first, feedFaults>>

\* A plausible error: the gap starts at the last frame that was seen.
LastSeen == status.frame

LastDurable == status.durable
RecordGap ==
  /\ rec.pc = "open"
  /\ gaps' = IF LastDurable = Missing THEN gaps ELSE gaps \cup {[from |-> LastDurable, to |-> rec.at]}
  /\ Rec([rec EXCEPT !.pc = "connect"])
  /\ Apart /\ UNCHANGED <<cached, chunks, status, first, sessions, feedFaults>>

Connect ==
  /\ rec.pc = "connect"
  /\ Rec([rec EXCEPT !.pc = "on"])
  /\ Apart /\ UNCHANGED <<cached, chunks, gaps, status, first, sessions, feedFaults>>

\* A frame that arrives during a flush waits in the socket.
Frame ==
  /\ time < MaxFrames /\ time' = time + 1
  /\ Rec(CASE rec.pc = "on" -> [rec EXCEPT !.frames = @ \cup {time + 1}]
          [] rec.pc = "status" -> [rec EXCEPT !.waiting = @ \cup {time + 1}]
          [] OTHER -> rec)
  /\ connecting' = IF rec.pc \in {"open", "connect"} THEN connecting \cup {time + 1} ELSE connecting
  /\ UNCHANGED <<plans, cached, chunks, gaps, status, first, sessions, feedFaults>>

\* Journal.flush, every two seconds and when the socket is closed: the chunk,
\* once, under its number, then the status.
Newest(S) == CHOOSE t \in S : \A u \in S : u <= t
Oldest(S) == CHOOSE t \in S : \A u \in S : t <= u
Written(key) == \E c \in chunks : c.key = key
WriteChunk ==
  LET key == <<rec.session, rec.seq>> IN
  /\ rec.pc \in {"on", "closing"} /\ rec.frames # {}
  /\ chunks' = IF Written(key) THEN chunks ELSE chunks \cup {[key |-> key, frames |-> rec.frames]}
  /\ Rec([rec EXCEPT !.pc = IF rec.pc = "on" THEN "status" ELSE "last status"])
  /\ Apart /\ UNCHANGED <<cached, gaps, status, first, sessions, feedFaults>>

StatusFailed(r) == [r EXCEPT !.pc = "closing", !.waiting = {}]
WriteStatus ==
  /\ rec.pc \in {"status", "last status"}
  /\ \/ /\ status' = [status EXCEPT !.durable = Newest(rec.frames)]
        /\ first' = IF first = Missing THEN Oldest(rec.frames) ELSE first
        /\ Rec([rec EXCEPT !.pc = IF @ = "status" THEN "on" ELSE "closing", !.seq = @ + 1,
                           !.frames = rec.waiting, !.waiting = {}])
        /\ UNCHANGED feedFaults
     \/ /\ FeedFault /\ UNCHANGED <<status, first>>
        /\ Rec(IF rec.pc = "status" THEN StatusFailed(rec) ELSE Off)
  /\ Apart /\ UNCHANGED <<cached, chunks, gaps, sessions>>

\* Every 15 seconds: the heartbeat with the last frame, and the plan; the
\* socket is opened again when the revision of the feed has changed.
Check ==
  /\ rec.pc = "on"
  /\ cached' = Followed
  /\ status' = [status EXCEPT !.frame = IF rec.frames # {} THEN Newest(rec.frames) ELSE @]
  /\ Rec([rec EXCEPT !.pc = IF Followed.feed # rec.rev THEN "closing" ELSE "on"])
  /\ Apart /\ UNCHANGED <<chunks, gaps, first, sessions, feedFaults>>

\* The connection fails, the provider drops it, or its 15 minutes are over.
Drop ==
  /\ rec.pc \in {"connect", "on"} /\ FeedFault
  /\ Rec([rec EXCEPT !.pc = "closing"])
  /\ Apart /\ UNCHANGED <<cached, chunks, gaps, status, first, sessions>>

\* The last flush has been made, or there is nothing to flush.
Closed ==
  /\ rec.pc = "closing" /\ rec.frames = {}
  /\ Rec(Off)
  /\ Apart /\ UNCHANGED <<cached, chunks, gaps, status, first, sessions, feedFaults>>

\* The worker dies: the journal and the plan in memory are gone, and with them
\* what was being published.
WorkerDies ==
  /\ rec.pc # "off" /\ FeedFault
  /\ Rec(Off) /\ cached' = Missing /\ publisher' = Publishing
  /\ UNCHANGED <<catalogue, expired, credential, scopeDoc, head, lastGood, archive,
                 time, chunks, gaps, status, first, connecting, sessions>>

Record == ReadPlan \/ RecordGap \/ Connect \/ WriteChunk \/ WriteStatus \/ Closed
FeedNext ==
  \/ Restore \/ Discover \/ Publish \/ PublishFails \/ Change
  \/ Record \/ Check \/ Frame \/ Drop \/ WorkerDies

RecorderSpec == FeedInit /\ [][FeedNext]_feedVars

-----------------------------------------------------------------------------
(* Properties                                                              *)

Frames == UNION {c.frames : c \in chunks}
Within(t) == \E g \in gaps : g.from <= t /\ t <= g.to

\* Once the status of a feed names a durable frame, a recorder that connects has every earlier
\* frame in a chunk or inside a recorded gap: frames lost with a process, missed
\* while the socket was down or given up after a failed write are all reported.
\* (Not those sent while the socket was being opened: the gap ends where the
\* attempt began.)
GapsReported ==
  rec.pc \in {"connect", "on", "status"} /\ first # Missing =>
    \A t \in first .. rec.at : t \in Frames \/ Within(t) \/ t \in connecting

\* A flush that is repeated after a failed status write stores no frame twice.
FrameStoredOnce == \A c, d \in chunks : c # d => c.frames \cap d.frames = {}

\* Every frame is accounted for: stored once, or inside a gap that is on record.
FramesAccounted == GapsReported /\ FrameStoredOnce

\* The scope of a feed stays the same under one revision: "a scope change is a
\* recorded connection boundary, never continuity" (data_system.py:41).
RevisionNamesScope ==
  rec.pc = "on" /\ scopeDoc # Missing /\ head = scopeDoc.rev /\ rec.rev = scopeDoc.feed =>
    rec.scope = scopeDoc.scope

\* After the last change of master, contracts and credential, and the last fault,
\* the recorder ends up connected under what discovery resolves.
ScopeFollowed == <>[](rec.rev = Discovered.feed /\ rec.scope = Discovered.scope)
=============================================================================
