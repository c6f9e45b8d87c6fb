---------------------------- MODULE Phase1_proofs ----------------------------
(***************************************************************************)
(* The two components of personal-trading-phase1 that no failure may leave *)
(* wrong: a history job and the writer of live ticks.  They share nothing; *)
(* what is proved of each stands in a part of its own.                     *)
(***************************************************************************)
EXTENDS FetchJob, LiveTicks, FiniteSetTheorems, TLAPS

(***************************************************************************)
(* Safety of one history job for every set of workers, jobs and candles    *)
(* and every number of attempts, however often deliveries, workers and     *)
(* sessions are lost.                                                      *)
(*                                                                         *)
(* A worker acts on its job only while its database session, and with it   *)
(* the advisory lock, lives; what it read before stays true as long.       *)
(***************************************************************************)

JobRecord == [status : Status, attempts : 0 .. MaxAttempts, due : BOOLEAN]
Receipts == [1 .. MaxAttempts -> Outcomes \cup {"STARTED", "INTERRUPTED_UNKNOWN"}]
AnswerRecord == [outcome : Outcomes, rows : Rows, rate : BOOLEAN]
WorkerRecord == [pc : {"idle", "admit", "call", "record", "cool", "finish"},
                 job : Jobs \cup {"none"}, conn : BOOLEAN, answer : AnswerRecord, delay : BOOLEAN]

(* Layer 1: what a task x of worker w may rely on, given the jobs, receipts *)
(* and locks; the last three lines only while its session lives.            *)
Fits(w, x, jobs, rs, locks) ==
  /\ x.pc # "idle" => x.job \in Jobs
  /\ x.pc = "record" => x.answer.outcome # "none"
  /\ x.pc # "idle" /\ x.conn => locks[x.job] = w
  /\ x.pc = "admit" /\ x.conn =>
       /\ jobs[x.job].status \in ACTIVE /\ jobs[x.job].due
       /\ jobs[x.job].attempts < MaxAttempts
  /\ x.pc \in {"call", "record"} /\ x.conn =>
       /\ jobs[x.job].status = "RUNNING" /\ jobs[x.job].attempts # 0
       /\ rs[x.job][jobs[x.job].attempts] = "STARTED"
SessionInv == \A w \in Workers : Fits(w, worker[w], job, receipts, lock)

(* Layer 2: the receipts of a job are those of its attempts, each closed    *)
(* but the last.                                                            *)
Receipted(jb, rs) ==
  /\ jb.status = "NONE" => jb.attempts = 0
  /\ \A k \in 1 .. MaxAttempts : rs[k] # "none" <=> k <= jb.attempts
  /\ \A k \in 1 .. MaxAttempts : rs[k] = "STARTED" => k = jb.attempts
ReceiptInv == \A j \in Jobs : Receipted(job[j], receipts[j])

(* Layer 3: every request was, or is about to be, sent by an admitted task. *)
Callers(j, workers) == {w \in Workers : workers[w].pc = "call" /\ workers[w].job = j}
CallInv ==
  \A j \in Jobs : /\ IsFiniteSet(Callers(j, worker))
                  /\ calls[j] + Cardinality(Callers(j, worker)) <= job[j].attempts

-----------------------------------------------------------------------------

\* Nothing that a task relies on changes while another job moves.
LEMMA FitsKept ==
  ASSUME NEW w, NEW x, NEW jobs, NEW rs, NEW locks, NEW jobs2, NEW rs2, NEW locks2,
         Fits(w, x, jobs, rs, locks),
         x.pc # "idle" /\ x.conn => locks2[x.job] = locks[x.job],
         x.pc \in {"admit", "call", "record"} /\ x.conn =>
           jobs2[x.job] = jobs[x.job] /\ rs2[x.job] = rs[x.job]
  PROVE  Fits(w, x, jobs2, rs2, locks2)
BY DEF Fits

\* A task without a session, or none at all, relies on nothing.
LEMMA IdleFits ==
  ASSUME NEW w, NEW jobs, NEW rs, NEW locks
  PROVE  Fits(w, IdleWorker, jobs, rs, locks)
BY DEF Fits, IdleWorker

LEMMA NoRowsType == NoRows \in Rows /\ NoAnswer \in AnswerRecord
BY DEF NoRows, Rows, NoAnswer, Answer, AnswerRecord, Outcomes

LEMMA IdleType == IdleWorker \in WorkerRecord
BY NoRowsType DEF IdleWorker, WorkerRecord

\* Every answer of the provider is an outcome with rows of the job's window.
LEMMA AnswersType ==
  ASSUME NEW j \in Jobs, NEW answer \in Answers(j)
  PROVE  answer \in AnswerRecord /\ answer.outcome # "none"
<1>1. \A rows \in RowSets(j) : rows \in Rows
  BY DEF RowSets, Rows
<1>2. answer \in {Answer("ROWS_RECEIVED", rows, FALSE) : rows \in RowSets(j)}
      => answer \in AnswerRecord /\ answer.outcome # "none"
  <2> SUFFICES ASSUME NEW rows \in RowSets(j), answer = Answer("ROWS_RECEIVED", rows, FALSE)
               PROVE  answer \in AnswerRecord /\ answer.outcome # "none"
    OBVIOUS
  <2> QED
    BY <1>1 DEF Answer, AnswerRecord, Outcomes
<1>3. \A rate \in BOOLEAN, outcome \in {"RATE_LIMIT", "PROVIDER_TRANSIENT", "REVIEW", "AUTH_REQUIRED"} :
        /\ Answer(outcome, NoRows, rate) \in AnswerRecord
        /\ Answer(outcome, NoRows, rate).outcome # "none"
  BY NoRowsType DEF Answer, AnswerRecord, Outcomes
<1>4. \/ answer \in {Answer("ROWS_RECEIVED", rows, FALSE) : rows \in RowSets(j)}
      \/ \E rate \in BOOLEAN, outcome \in {"RATE_LIMIT", "PROVIDER_TRANSIENT", "REVIEW", "AUTH_REQUIRED"} :
           answer = Answer(outcome, NoRows, rate)
  BY DEF Answers
<1> QED
  BY <1>2, <1>3, <1>4

LEMMA FencedType ==
  ASSUME NEW answer \in AnswerRecord
  PROVE  /\ Fenced(answer) \in AnswerRecord
         /\ answer.outcome # "none" => Fenced(answer).outcome # "none"
BY NoRowsType DEF Fenced, Answer, AnswerRecord, Outcomes

\* The verdict on an answer leaves the attempts alone and never makes a job due.
LEMMA VerdictType ==
  ASSUME NEW jb \in JobRecord, NEW answer \in AnswerRecord
  PROVE  /\ Verdict(jb, answer) \in JobRecord
         /\ Verdict(jb, answer).attempts = jb.attempts
         /\ Verdict(jb, answer).status # "NONE"
         /\ Verdict(jb, answer).status = "ROWS_RECEIVED" =>
              Conflicts(SaveRows(candles, answer.rows), answer.rows) = {}
BY DEF Verdict, JobRecord, Status, ACTIVE

LEMMA SaveRowsType ==
  ASSUME NEW old \in Rows, NEW rows \in Rows
  PROVE  SaveRows(old, rows) \in Rows
BY DEF SaveRows, Rows

\* A claimed, admitted or waiting job as TypeOK describes it.
LEMMA TypeParts ==
  ASSUME TypeOK
  PROVE  /\ job \in [Jobs -> JobRecord] /\ receipts \in [Jobs -> Receipts]
         /\ worker \in [Workers -> WorkerRecord] /\ lock \in [Jobs -> Workers \cup {"none"}]
         /\ candles \in Rows /\ received \in [Jobs -> Rows] /\ calls \in [Jobs -> Nat]
BY DEF TypeOK, JobRecord, Receipts, WorkerRecord, AnswerRecord

\* A delivery is added within the bound of the model or dropped.
LEMMA PublishType ==
  ASSUME TypeOK, NEW j \in Jobs, Publish(j)
  PROVE  messages' \in [Jobs -> 0 .. MaxMessages]
BY FetchBounds DEF TypeOK, Publish

LEMMA TakesType ==
  ASSUME TypeOK, NEW j \in Jobs, messages[j] > 0,
         messages' = [messages EXCEPT ![j] = @ - 1]
  PROVE  messages' \in [Jobs -> 0 .. MaxMessages]
BY FetchBounds DEF TypeOK

LEMMA DisturbType == ASSUME TypeOK, Disturb PROVE spent' \in 0 .. MaxDisturbances
BY FetchBounds DEF TypeOK, Disturb

LEMMA ReleaseType ==
  ASSUME TypeOK, NEW w \in Workers
  PROVE  Release(w) \in [Jobs -> Workers \cup {"none"}]
BY DEF TypeOK, Release

-----------------------------------------------------------------------------
(* Types *)

\* What TypeOK says, in the names used here; the second for the state that follows.
LEMMA TypeWhole ==
  ASSUME job \in [Jobs -> JobRecord], receipts \in [Jobs -> Receipts], candles \in Rows,
         mapping \in BOOLEAN, lock \in [Jobs -> Workers \cup {"none"}],
         messages \in [Jobs -> 0 .. MaxMessages], cooldown \in BOOLEAN,
         worker \in [Workers -> WorkerRecord], calls \in [Jobs -> Nat],
         received \in [Jobs -> Rows], evidence \in BOOLEAN, spent \in 0 .. MaxDisturbances
  PROVE  TypeOK
BY DEF TypeOK, JobRecord, Receipts, WorkerRecord, AnswerRecord

LEMMA TypeWholeNext ==
  ASSUME job' \in [Jobs -> JobRecord], receipts' \in [Jobs -> Receipts], candles' \in Rows,
         mapping' \in BOOLEAN, lock' \in [Jobs -> Workers \cup {"none"}],
         messages' \in [Jobs -> 0 .. MaxMessages], cooldown' \in BOOLEAN,
         worker' \in [Workers -> WorkerRecord], calls' \in [Jobs -> Nat],
         received' \in [Jobs -> Rows], evidence' \in BOOLEAN, spent' \in 0 .. MaxDisturbances
  PROVE  TypeOK'
BY DEF TypeOK, JobRecord, Receipts, WorkerRecord, AnswerRecord

LEMMA TypeInit == Init => TypeOK
<1> SUFFICES ASSUME Init PROVE TypeOK
  OBVIOUS
<1>1. job \in [Jobs -> JobRecord] /\ receipts \in [Jobs -> Receipts]
  BY FetchBounds DEF Init, NewJob, JobRecord, Status, Receipts, Outcomes
<1>2. worker \in [Workers -> WorkerRecord]
  BY IdleType DEF Init
<1>3. messages \in [Jobs -> 0 .. MaxMessages] /\ spent \in 0 .. MaxDisturbances
  BY FetchBounds DEF Init
<1> QED
  BY <1>1, <1>2, <1>3, NoRowsType, TypeWhole DEF Init

LEMMA TypeStep == TypeOK /\ SessionInv /\ [Next]_vars => TypeOK'
<1> SUFFICES ASSUME TypeOK, SessionInv, [Next]_vars PROVE TypeOK'
  OBVIOUS
<1> USE DEF database, redis, history
<1>1. ASSUME NEW js \in SUBSET Jobs, Enqueue(js) PROVE TypeOK'
  <2>1. job' \in [Jobs -> JobRecord]
    BY <1>1, TypeParts, FetchBounds DEF Enqueue, JobRecord, Status, ACTIVE
  <2> QED
    BY <1>1, <2>1, TypeParts, TypeWholeNext DEF Enqueue, TypeOK
<1>2. ASSUME NEW j \in Jobs, Resume(j) PROVE TypeOK'
  <2>1. job' \in [Jobs -> JobRecord]
    BY <1>2, TypeParts DEF Resume, JobRecord, Status, ACTIVE
  <2> QED
    BY <1>2, <2>1, DisturbType, TypeParts, TypeWholeNext DEF Resume, TypeOK
<1>3. ASSUME NEW j \in Jobs, Dispatch(j) PROVE TypeOK'
  BY <1>3, PublishType DEF Dispatch, TypeOK
<1>4. ASSUME NEW j \in Jobs, BecomesDue(j) PROVE TypeOK'
  <2>1. job' \in [Jobs -> JobRecord]
    BY <1>4, TypeParts DEF BecomesDue, JobRecord
  <2> QED
    BY <1>4, <2>1, TypeParts, TypeWholeNext DEF BecomesDue, TypeOK
<1>5. ASSUME NEW j \in Jobs, LoseMessage(j) PROVE TypeOK'
  BY <1>5, TakesType, DisturbType DEF LoseMessage, TypeOK
<1>6. ASSUME NEW w \in Workers, NEW j \in Jobs, Ignore(w, j) PROVE TypeOK'
  <2>1. messages' \in [Jobs -> 0 .. MaxMessages]
    BY <1>6, TakesType DEF Ignore, Takes
  <2> QED
    BY <1>6, <2>1 DEF Ignore, Takes, TypeOK
<1>7. ASSUME NEW w \in Workers, NEW j \in Jobs, Stop(w, j) PROVE TypeOK'
  <2>1. messages' \in [Jobs -> 0 .. MaxMessages]
    BY <1>7, TakesType DEF Stop, Takes
  <2>2. job' \in [Jobs -> JobRecord]
    BY <1>7, TypeParts DEF Stop, JobRecord, Status
  <2> QED
    BY <1>7, <2>1, <2>2, TypeParts, TypeWholeNext DEF Stop, Takes, TypeOK
<1>8. ASSUME NEW w \in Workers, NEW j \in Jobs, Claim(w, j) PROVE TypeOK'
  <2>1. [IdleWorker EXCEPT !.pc = "admit", !.job = j] \in WorkerRecord
    BY IdleType DEF WorkerRecord
  <2>2. messages' \in [Jobs -> 0 .. MaxMessages]
    BY <1>8, TakesType DEF Claim, Takes
  <2>3. worker' \in [Workers -> WorkerRecord]
    BY <1>8, <2>1, TypeParts DEF Claim
  <2>4. lock' \in [Jobs -> Workers \cup {"none"}]
    BY <1>8, TypeParts DEF Claim
  <2>5. /\ job' \in [Jobs -> JobRecord] /\ receipts' \in [Jobs -> Receipts] /\ candles' \in Rows
        /\ calls' \in [Jobs -> Nat] /\ received' \in [Jobs -> Rows]
    <3>1. UNCHANGED <<job, receipts, candles, calls, received>>
      BY <1>8 DEF Claim, Takes
    <3> QED
      BY <3>1, TypeParts
  <2>6. mapping' \in BOOLEAN /\ cooldown' \in BOOLEAN /\ evidence' \in BOOLEAN /\ spent' \in 0 .. MaxDisturbances
    <3>1. mapping \in BOOLEAN /\ cooldown \in BOOLEAN /\ evidence \in BOOLEAN /\ spent \in 0 .. MaxDisturbances
      BY DEF TypeOK
    <3>2. UNCHANGED <<mapping, cooldown, evidence, spent>>
      BY <1>8 DEF Claim, Takes
    <3> QED
      BY <3>1, <3>2
  <2> QED
    BY <2>2, <2>3, <2>4, <2>5, <2>6, TypeWholeNext
<1>9. ASSUME NEW w \in Workers, Defer(w) PROVE TypeOK'
  <2>1. worker' \in [Workers -> WorkerRecord]
    <3>1. worker[w] \in WorkerRecord
      BY TypeParts
    <3>2. [worker[w] EXCEPT !.pc = "finish", !.delay = TRUE] \in WorkerRecord
      BY <3>1 DEF WorkerRecord
    <3>3. worker' = [worker EXCEPT ![w] = [worker[w] EXCEPT !.pc = "finish", !.delay = TRUE]]
      BY <1>9, TypeParts DEF Defer
    <3> QED
      BY <3>2, <3>3, TypeParts
  <2>2. job' \in [Jobs -> JobRecord]
    <3> DEFINE j == worker[w].job
               now == [job[j] EXCEPT !.status = "RETRY_WAIT", !.due = FALSE]
    <3>1. job' = [job EXCEPT ![j] = now]
      BY <1>9 DEF Defer
    <3>2. job \in [Jobs -> JobRecord]
      BY TypeParts
    <3> HIDE DEF j
    <3>3. ASSUME j \in Jobs PROVE now \in JobRecord
      <4>1. job[j] \in JobRecord
        BY ONLY <3>2, <3>3
      <4> QED
        BY ONLY <4>1 DEF JobRecord, Status, ACTIVE
    <3> HIDE DEF now
    <3> QED
      BY ONLY <3>1, <3>2, <3>3
  <2>3. spent' \in 0 .. MaxDisturbances
    BY <1>9, DisturbType DEF Defer
  <2>4. UNCHANGED <<receipts, candles, mapping, lock, messages, cooldown, calls, received, evidence>>
    BY <1>9 DEF Defer
  <2>5. /\ messages \in [Jobs -> 0 .. MaxMessages]
        /\ mapping \in BOOLEAN /\ cooldown \in BOOLEAN /\ evidence \in BOOLEAN
    BY DEF TypeOK
  <2> QED
    BY <2>1, <2>2, <2>3, <2>4, <2>5, TypeParts, TypeWholeNext
<1>10. ASSUME NEW w \in Workers, Admit(w) PROVE TypeOK'
  <2> DEFINE j == worker[w].job
             n == NextAttempt(job[j].attempts)
  <2>1. j \in Jobs /\ n \in 1 .. MaxAttempts
    BY <1>10, TypeParts, FetchBounds DEF Admit, SessionInv, Fits, NextAttempt, JobRecord
  <2>2. [Interrupt(receipts[j]) EXCEPT ![n] = "STARTED"] \in Receipts
    <3>1. receipts[j] \in Receipts
      BY <2>1, TypeParts
    <3>2. Interrupt(receipts[j]) \in Receipts
      BY <3>1 DEF Interrupt, Receipts
    <3> QED
      BY <2>1, <3>2 DEF Receipts
  <2>3. receipts' \in [Jobs -> Receipts]
    BY <1>10, <2>1, <2>2, TypeParts DEF Admit
  <2>4. job' \in [Jobs -> JobRecord]
    <3>1. [job[j] EXCEPT !.attempts = n, !.status = "RUNNING"] \in JobRecord
      <4>1. job[j] \in JobRecord /\ n \in 0 .. MaxAttempts /\ "RUNNING" \in Status
        BY <2>1, TypeParts, FetchBounds DEF Status, ACTIVE
      <4> HIDE DEF n, j
      <4> QED
        BY <4>1 DEF JobRecord
    <3> QED
      BY <1>10, <3>1, TypeParts DEF Admit
  <2>5. worker' \in [Workers -> WorkerRecord]
    BY <1>10, TypeParts DEF Admit, WorkerRecord
  <2> QED
    BY <1>10, <2>3, <2>4, <2>5, TypeParts, TypeWholeNext DEF Admit, TypeOK
<1>11. ASSUME NEW w \in Workers, Call(w) PROVE TypeOK'
  <2>1. worker[w].job \in Jobs
    BY <1>11 DEF Call, SessionInv, Fits
  <2>2. PICK answer \in Answers(worker[w].job) :
          /\ worker' = [worker EXCEPT ![w].pc = "record", ![w].answer = answer]
          /\ calls' = [calls EXCEPT ![worker[w].job] = @ + 1] \/ calls' = calls
    BY <1>11 DEF Call
  <2>3. worker' \in [Workers -> WorkerRecord]
    <3>1. answer \in AnswerRecord
      BY <2>1, AnswersType
    <3>2. [worker[w] EXCEPT !.pc = "record", !.answer = answer] \in WorkerRecord
      BY <3>1, TypeParts DEF WorkerRecord
    <3> QED
      BY <2>2, <3>2, TypeParts
  <2>4. calls' \in [Jobs -> Nat]
    BY <2>1, <2>2, TypeParts
  <2> QED
    BY <1>11, <2>3, <2>4, TypeParts, TypeWholeNext DEF Call, TypeOK
<1>12. ASSUME NEW w \in Workers, Record(w) PROVE TypeOK'
  <2> DEFINE j == worker[w].job
             answer == Fenced(worker[w].answer)
  <2>1. j \in Jobs /\ job[j].attempts \in 1 .. MaxAttempts
    BY <1>12, TypeParts, FetchBounds DEF Record, Session, SessionInv, Fits, JobRecord
  <2>2. answer \in AnswerRecord
    BY FencedType, TypeParts DEF WorkerRecord
  <2>3. receipts' \in [Jobs -> Receipts]
    BY <1>12, <2>1, <2>2, TypeParts DEF Record, Receipts, AnswerRecord
  <2>4. Verdict(job[j], answer) \in JobRecord
    BY <2>1, <2>2, TypeParts, VerdictType
  <2>5. job' \in [Jobs -> JobRecord]
    BY <1>12, <2>4, TypeParts DEF Record
  <2>6. candles' \in Rows /\ received' \in [Jobs -> Rows] /\ evidence' \in BOOLEAN
    BY <1>12, <2>2, SaveRowsType, TypeParts DEF Record, AnswerRecord, TypeOK
  <2>7. worker' \in [Workers -> WorkerRecord]
    <3>1. \A pc \in {"cool", "finish"}, delay \in BOOLEAN :
            [worker[w] EXCEPT !.pc = pc, !.delay = delay] \in WorkerRecord
      <4>1. worker[w] \in WorkerRecord
        BY TypeParts
      <4>2. ASSUME NEW r \in WorkerRecord, NEW pc \in {"cool", "finish"}, NEW delay \in BOOLEAN
            PROVE  [r EXCEPT !.pc = pc, !.delay = delay] \in WorkerRecord
        BY DEF WorkerRecord
      <4> QED
        BY <4>1, <4>2
    <3>2. \E pc \in {"cool", "finish"}, delay \in BOOLEAN :
            worker' = [worker EXCEPT ![w] = [@ EXCEPT !.pc = pc, !.delay = delay]]
      BY <1>12, TypeParts DEF Record, WorkerRecord
    <3> QED
      BY <3>1, <3>2, TypeParts
  <2> QED
    BY <1>12, <2>3, <2>5, <2>6, <2>7, TypeParts, TypeWholeNext DEF Record, TypeOK
<1>13. ASSUME NEW w \in Workers, Cool(w) PROVE TypeOK'
  <2>1. worker' \in [Workers -> WorkerRecord]
    BY <1>13, TypeParts DEF Cool, WorkerRecord
  <2> QED
    BY <1>13, <2>1, DisturbType DEF Cool, TypeOK, WorkerRecord, AnswerRecord
<1>14. ASSUME NEW w \in Workers, Ends(w), worker[w].pc # "idle",
              messages' = messages \/ Publish(worker[w].job),
              lock' = lock \/ lock' = Release(w), spent' = spent \/ Disturb,
              UNCHANGED <<database, cooldown, history>>
       PROVE  TypeOK'
  <2>1. worker[w].job \in Jobs
    BY <1>14 DEF SessionInv, Fits
  <2>2. messages' \in [Jobs -> 0 .. MaxMessages]
    BY <1>14, <2>1, PublishType DEF TypeOK
  <2>3. worker' \in [Workers -> WorkerRecord]
    BY <1>14, IdleType, TypeParts DEF Ends
  <2>4. lock' \in [Jobs -> Workers \cup {"none"}] /\ spent' \in 0 .. MaxDisturbances
    BY <1>14, ReleaseType, DisturbType DEF TypeOK
  <2> QED
    BY <1>14, <2>2, <2>3, <2>4 DEF TypeOK, WorkerRecord, AnswerRecord
<1>15. ASSUME NEW w \in Workers, Finish(w) PROVE TypeOK'
  BY <1>14, <1>15 DEF Finish
<1>16. ASSUME NEW w \in Workers, SessionFails(w) PROVE TypeOK'
  BY <1>14, <1>16 DEF SessionFails
<1>17. ASSUME NEW w \in Workers, Interrupted(w) PROVE TypeOK'
  BY <1>14, <1>17 DEF Interrupted, Open
<1>18. ASSUME NEW w \in Workers, LoseSession(w) PROVE TypeOK'
  <2>1. worker' \in [Workers -> WorkerRecord]
    <3>1. worker[w] \in WorkerRecord
      BY TypeParts
    <3>2. [worker[w] EXCEPT !.conn = FALSE] \in WorkerRecord
      BY <3>1 DEF WorkerRecord
    <3>3. worker' = [worker EXCEPT ![w] = [worker[w] EXCEPT !.conn = FALSE]]
      BY <1>18, TypeParts DEF LoseSession
    <3> QED
      BY <3>2, <3>3, TypeParts
  <2>2. lock' \in [Jobs -> Workers \cup {"none"}] /\ spent' \in 0 .. MaxDisturbances
    <3>1. Disturb /\ lock' = Release(w)
      BY <1>18 DEF LoseSession
    <3> QED
      BY <3>1, ReleaseType, DisturbType
  <2>3. UNCHANGED <<job, receipts, candles, mapping, messages, cooldown, calls, received, evidence>>
    BY <1>18 DEF LoseSession
  <2>4. /\ messages \in [Jobs -> 0 .. MaxMessages]
        /\ mapping \in BOOLEAN /\ cooldown \in BOOLEAN /\ evidence \in BOOLEAN
    BY DEF TypeOK
  <2> QED
    BY <2>1, <2>2, <2>3, <2>4, TypeParts, TypeWholeNext
<1>19. CASE RefreshMaster
  BY <1>19, DisturbType DEF RefreshMaster, TypeOK
<1>20. CASE CooldownEnds
  BY <1>20 DEF CooldownEnds, TypeOK
<1>21. CASE UNCHANGED vars
  BY <1>21 DEF vars, TypeOK
<1> QED
  BY <1>1, <1>2, <1>3, <1>4, <1>5, <1>6, <1>7, <1>8, <1>9, <1>10, <1>11, <1>12, <1>13, <1>15,
     <1>16, <1>17, <1>18, <1>19, <1>20, <1>21 DEF Next, Work, Receive

-----------------------------------------------------------------------------
(* Sessions and locks *)

\* Two tasks with a session never work on the same job, and none on one whose
\* lock is free.
LEMMA OneWorkerPerJob ==
  ASSUME SessionInv, NEW v \in Workers, worker[v].pc # "idle", worker[v].conn
  PROVE  /\ lock[worker[v].job] = v /\ worker[v].job \in Jobs
         /\ \A w \in Workers \ {v} :
              worker[w].pc # "idle" /\ worker[w].conn => worker[w].job # worker[v].job
         /\ \A j \in Jobs : lock[j] = "none" => worker[v].job # j
BY JobsAssumption DEF SessionInv, Fits

\* A task ends, with or without its lock: the others keep theirs.
LEMMA EndsFits ==
  ASSUME TypeOK, SessionInv, NEW w \in Workers, Ends(w),
         lock' = lock \/ lock' = Release(w), UNCHANGED <<job, receipts>>
  PROVE  SessionInv'
<1> SUFFICES ASSUME NEW v \in Workers PROVE Fits(v, worker'[v], job', receipts', lock')
  BY DEF SessionInv
<1>1. CASE v = w
  BY <1>1, TypeParts, IdleFits DEF Ends
<1>2. CASE v # w
  <2>1. worker'[v] = worker[v] /\ Fits(v, worker[v], job, receipts, lock)
    BY <1>2, TypeParts DEF Ends, SessionInv
  <2>2. worker[v].pc # "idle" /\ worker[v].conn => lock'[worker[v].job] = lock[worker[v].job]
    BY <1>2, TypeParts, OneWorkerPerJob DEF Release
  <2> QED
    BY <2>1, <2>2, FitsKept
<1> QED
  BY <1>1, <1>2

LEMMA SessionInit == Init => SessionInv
BY IdleFits DEF Init, SessionInv

\* What a task relies on stays true until its session is lost.
LEMMA SessionStep == TypeOK /\ SessionInv /\ [Next]_vars => SessionInv'
<1> SUFFICES ASSUME TypeOK, SessionInv, [Next]_vars PROVE SessionInv'
  OBVIOUS
<1> USE DEF database, redis, history
<1> DEFINE Fine(v) == Fits(v, worker'[v], job', receipts', lock')
<1>0. ASSUME \A v \in Workers : Fine(v) PROVE SessionInv'
  BY <1>0 DEF SessionInv
\* The jobs change under every task alike.
<1>1. ASSUME UNCHANGED <<worker, receipts, lock>>,
             \A v \in Workers : worker[v].pc \in {"admit", "call", "record"} /\ worker[v].conn
                                => job'[worker[v].job] = job[worker[v].job]
      PROVE  SessionInv'
  <2> SUFFICES ASSUME NEW v \in Workers PROVE Fine(v)
    BY <1>0
  <2>1. Fits(v, worker[v], job, receipts, lock)
    BY DEF SessionInv
  <2> QED
    BY <1>1, <2>1, FitsKept
\* One task moves, on a job that is its own.
<1>2. ASSUME NEW w \in Workers, worker[w].pc # "idle", worker[w].conn, Fine(w), NEW new,
             worker' = [worker EXCEPT ![w] = new], lock' = lock,
             \A j \in Jobs \ {worker[w].job} : job'[j] = job[j] /\ receipts'[j] = receipts[j]
      PROVE  SessionInv'
  <2> SUFFICES ASSUME NEW v \in Workers, v # w PROVE Fine(v)
    BY <1>0, <1>2
  <2>1. worker'[v] = worker[v] /\ Fits(v, worker[v], job, receipts, lock)
    BY <1>2, TypeParts DEF SessionInv
  <2>2. worker[v].pc # "idle" /\ worker[v].conn =>
          worker[v].job \in Jobs /\ worker[v].job # worker[w].job
    BY <1>2, OneWorkerPerJob
  <2> QED
    BY <1>2, <2>1, <2>2, FitsKept
\* One task moves and nothing else does.
<1>3. ASSUME NEW w \in Workers, Fine(w), NEW new, worker' = [worker EXCEPT ![w] = new],
             UNCHANGED <<job, receipts, lock>>
      PROVE  SessionInv'
  BY <1>0, <1>3, TypeParts DEF SessionInv
<1>4. ASSUME NEW js \in SUBSET Jobs, Enqueue(js) PROVE SessionInv'
  <2>1. ASSUME NEW v \in Workers, worker[v].pc \in {"admit", "call", "record"}, worker[v].conn
        PROVE  job'[worker[v].job] = job[worker[v].job]
    BY <1>4, <2>1 DEF Enqueue, SessionInv, Fits, ACTIVE
  <2> QED
    BY <1>1, <1>4, <2>1 DEF Enqueue
<1>5. ASSUME NEW j \in Jobs, Resume(j) PROVE SessionInv'
  <2>1. ASSUME NEW v \in Workers, worker[v].pc \in {"admit", "call", "record"}, worker[v].conn
        PROVE  job'[worker[v].job] = job[worker[v].job]
    BY <1>5, <2>1, TypeParts DEF Resume, Resumable, SessionInv, Fits, ACTIVE
  <2> QED
    BY <1>1, <1>5, <2>1 DEF Resume
<1>6. ASSUME NEW j \in Jobs, BecomesDue(j) PROVE SessionInv'
  <2> SUFFICES ASSUME NEW v \in Workers PROVE Fine(v)
    BY <1>0
  <2>1. \A i \in Jobs : /\ job'[i].status = job[i].status /\ job'[i].attempts = job[i].attempts
                        /\ job[i].due => job'[i].due
    BY <1>6, TypeParts DEF BecomesDue, JobRecord
  <2> QED
    BY <1>6, <2>1 DEF BecomesDue, SessionInv, Fits
<1>7. ASSUME NEW w \in Workers, NEW j \in Jobs, Stop(w, j) PROVE SessionInv'
  <2>1. ASSUME NEW v \in Workers, worker[v].pc \in {"admit", "call", "record"}, worker[v].conn
        PROVE  job'[worker[v].job] = job[worker[v].job]
    BY <1>7, <2>1, TypeParts, OneWorkerPerJob DEF Stop
  <2> QED
    BY <1>1, <1>7, <2>1 DEF Stop, Takes
<1>8. ASSUME NEW w \in Workers, NEW j \in Jobs, Claim(w, j) PROVE SessionInv'
  <2> SUFFICES ASSUME NEW v \in Workers PROVE Fine(v)
    BY <1>0
  <2>1. CASE v = w
    <3>1. worker'[v] = [IdleWorker EXCEPT !.pc = "admit", !.job = j] /\ lock'[j] = v
      BY <1>8, <2>1, TypeParts DEF Claim
    <3>2. worker'[v].pc = "admit" /\ worker'[v].job = j
      BY <3>1 DEF IdleWorker
    <3>3. /\ job'[j].status \in ACTIVE /\ job'[j].due /\ job'[j].attempts < MaxAttempts
      BY <1>8, TypeParts, FetchBounds DEF Claim, Claimable, Exhausted, JobRecord
    <3> QED
      BY <3>1, <3>2, <3>3 DEF Fits
  <2>2. CASE v # w
    <3>1. worker'[v] = worker[v] /\ Fits(v, worker[v], job, receipts, lock)
      BY <1>8, <2>2, TypeParts DEF Claim, SessionInv
    <3>2. worker[v].pc # "idle" /\ worker[v].conn => lock'[worker[v].job] = lock[worker[v].job]
      BY <1>8, TypeParts, OneWorkerPerJob DEF Claim
    <3>3. job' = job /\ receipts' = receipts
      BY <1>8 DEF Claim, Takes
    <3> QED
      BY <3>1, <3>2, <3>3, FitsKept
  <2> QED
    BY <2>1, <2>2
<1>9. ASSUME NEW w \in Workers, Defer(w) PROVE SessionInv'
  <2> DEFINE new == [worker[w] EXCEPT !.pc = "finish", !.delay = TRUE]
  <2>1. worker' = [worker EXCEPT ![w] = new] /\ worker'[w] = new
    BY <1>9, TypeParts DEF Defer, WorkerRecord
  <2>2. Fine(w)
    BY <1>9, <2>1, TypeParts DEF Defer, SessionInv, Fits, WorkerRecord
  <2>3. \A j \in Jobs \ {worker[w].job} : job'[j] = job[j] /\ receipts'[j] = receipts[j]
    BY <1>9, TypeParts DEF Defer
  <2> HIDE DEF new
  <2> QED
    BY <1>2, <1>9, <2>1, <2>2, <2>3 DEF Defer
<1>10. ASSUME NEW w \in Workers, Admit(w) PROVE SessionInv'
  <2> DEFINE new == [worker[w] EXCEPT !.pc = "call"]
             j == worker[w].job
             n == NextAttempt(job[j].attempts)
  <2>1. worker' = [worker EXCEPT ![w] = new] /\ worker'[w] = new
    BY <1>10, TypeParts DEF Admit, WorkerRecord
  <2>2. /\ j \in Jobs /\ n \in 1 .. MaxAttempts /\ lock[j] = w
        /\ new.job = j /\ new.pc = "call"
    BY <1>10, TypeParts, FetchBounds
       DEF Admit, SessionInv, Fits, NextAttempt, JobRecord, WorkerRecord
  <2>3. job'[j].attempts = n /\ job'[j].status = "RUNNING" /\ receipts'[j][n] = "STARTED"
    BY <1>10, <2>2, TypeParts DEF Admit, Interrupt, JobRecord
  <2>4. Fine(w)
    <3>1. n # 0 /\ lock'[j] = w
      BY <1>10, <2>2 DEF Admit
    <3> HIDE DEF new, j, n
    <3> QED
      BY <2>1, <2>2, <2>3, <3>1 DEF Fits
  <2>5. \A i \in Jobs \ {worker[w].job} : job'[i] = job[i] /\ receipts'[i] = receipts[i]
    BY <1>10, TypeParts DEF Admit
  <2> HIDE DEF new, j, n
  <2> QED
    BY <1>2, <1>10, <2>1, <2>4, <2>5 DEF Admit
<1>11. ASSUME NEW w \in Workers, Call(w) PROVE SessionInv'
  <2>1. worker[w].job \in Jobs
    BY <1>11 DEF Call, SessionInv, Fits
  <2>2. PICK answer \in Answers(worker[w].job) :
          worker' = [worker EXCEPT ![w].pc = "record", ![w].answer = answer]
    BY <1>11 DEF Call
  <2> DEFINE new == [worker[w] EXCEPT !.pc = "record", !.answer = answer]
  <2>3. worker' = [worker EXCEPT ![w] = new] /\ worker'[w] = new
    BY <2>2, TypeParts DEF WorkerRecord
  <2>4. answer.outcome # "none"
    BY <2>1, AnswersType
  <2>5. /\ new.answer = answer /\ new.pc = "record" /\ new.job = worker[w].job
        /\ new.conn = worker[w].conn
    BY TypeParts DEF WorkerRecord
  <2> HIDE DEF new
  <2>6. Fine(w)
    <3>1. job' = job /\ receipts' = receipts /\ lock' = lock /\ worker[w].pc = "call"
      BY <1>11 DEF Call
    <3>2. Fits(w, worker[w], job, receipts, lock)
      BY DEF SessionInv
    <3> QED
      BY <2>3, <2>4, <2>5, <3>1, <3>2 DEF Fits
  <2> QED
    BY <1>3, <1>11, <2>3, <2>6 DEF Call
<1>12. ASSUME NEW w \in Workers, Record(w) PROVE SessionInv'
  <2>1. \E pc \in {"cool", "finish"}, delay \in BOOLEAN :
          worker' = [worker EXCEPT ![w] = [@ EXCEPT !.pc = pc, !.delay = delay]]
    BY <1>12, TypeParts DEF Record, WorkerRecord
  <2>2. PICK new :
          /\ worker' = [worker EXCEPT ![w] = new] /\ new.pc \in {"cool", "finish"}
          /\ new.job = worker[w].job /\ new.conn = worker[w].conn
    <3>1. PICK pc \in {"cool", "finish"}, delay \in BOOLEAN :
            worker' = [worker EXCEPT ![w] = [@ EXCEPT !.pc = pc, !.delay = delay]]
      BY <2>1
    <3> DEFINE new == [worker[w] EXCEPT !.pc = pc, !.delay = delay]
    <3>2. new.pc = pc /\ new.job = worker[w].job /\ new.conn = worker[w].conn
      BY TypeParts DEF WorkerRecord
    <3>3. worker' = [worker EXCEPT ![w] = new]
      BY <3>1
    <3> HIDE DEF new
    <3> QED
      BY <3>2, <3>3
  <2>3. Fine(w)
    <3>1. worker'[w] = new /\ lock' = lock /\ worker[w].pc = "record"
      BY <1>12, <2>2, TypeParts DEF Record
    <3>2. Fits(w, worker[w], job, receipts, lock)
      BY DEF SessionInv
    <3> QED
      BY <2>2, <3>1, <3>2 DEF Fits
  <2>4. \A j \in Jobs \ {worker[w].job} : job'[j] = job[j] /\ receipts'[j] = receipts[j]
    <3>1. \E after : job' = [job EXCEPT ![worker[w].job] = after]
      BY <1>12 DEF Record
    <3>2. \E n, outcome : receipts' = [receipts EXCEPT ![worker[w].job][n] = outcome]
      BY <1>12 DEF Record
    <3> QED
      BY <3>1, <3>2, TypeParts
  <2>5. lock' = lock /\ worker[w].conn /\ worker[w].pc = "record"
    BY <1>12 DEF Record, Session
  <2> QED
    BY <1>2, <2>2, <2>3, <2>4, <2>5
<1>13. ASSUME NEW w \in Workers, Cool(w) PROVE SessionInv'
  <2> DEFINE new == [worker[w] EXCEPT !.pc = "finish"]
  <2>1. worker' = [worker EXCEPT ![w] = new] /\ worker'[w] = new
    BY <1>13, TypeParts DEF Cool, WorkerRecord
  <2>2. Fine(w)
    BY <1>13, <2>1, TypeParts DEF Cool, SessionInv, Fits, WorkerRecord
  <2> HIDE DEF new
  <2> QED
    BY <1>3, <1>13, <2>1, <2>2 DEF Cool
<1>14. ASSUME NEW w \in Workers, Finish(w) PROVE SessionInv'
  BY <1>14, EndsFits DEF Finish
<1>15. ASSUME NEW w \in Workers, SessionFails(w) PROVE SessionInv'
  BY <1>15, EndsFits DEF SessionFails
<1>16. ASSUME NEW w \in Workers, Interrupted(w) PROVE SessionInv'
  BY <1>16, EndsFits DEF Interrupted
<1>17. ASSUME NEW w \in Workers, LoseSession(w) PROVE SessionInv'
  <2> SUFFICES ASSUME NEW v \in Workers PROVE Fine(v)
    BY <1>0
  <2>1. CASE v = w
    BY <1>17, <2>1, TypeParts DEF LoseSession, SessionInv, Fits, WorkerRecord
  <2>2. CASE v # w
    <3>1. worker'[v] = worker[v] /\ Fits(v, worker[v], job, receipts, lock)
      BY <1>17, <2>2, TypeParts DEF LoseSession, SessionInv
    <3>2. worker[v].pc # "idle" /\ worker[v].conn => lock'[worker[v].job] = lock[worker[v].job]
      BY <1>17, <2>2, TypeParts, OneWorkerPerJob DEF LoseSession, Release
    <3> QED
      BY <1>17, <3>1, <3>2, FitsKept DEF LoseSession
  <2> QED
    BY <2>1, <2>2
<1>18. CASE UNCHANGED <<worker, job, receipts, lock>>
  BY <1>18 DEF SessionInv
<1> QED
  BY <1>4, <1>5, <1>6, <1>7, <1>8, <1>9, <1>10, <1>11, <1>12, <1>13, <1>14, <1>15, <1>16, <1>17,
     <1>18 DEF Next, Work, Receive, Ignore, Takes, Dispatch, LoseMessage, RefreshMaster,
               CooldownEnds, vars

-----------------------------------------------------------------------------
(* What a step does to a job *)

\* The step brings job j no attempt, no receipt and no rows, and no end is undone.
Quiet(j) ==
  /\ job'[j].attempts = job[j].attempts /\ receipts'[j] = receipts[j]
  /\ received'[j] = received[j]
  /\ job[j].status \in Ended => job'[j].status = job[j].status
  /\ job'[j].status \in {"NONE", "ROWS_RECEIVED"} => job'[j].status = job[j].status

\* Only the gate counts an attempt, only an answer closes one and stores rows.
LEMMA QuietSteps ==
  ASSUME TypeOK, SessionInv, ReceiptInv, [Next]_vars,
         \A w \in Workers : ~Admit(w) /\ ~Record(w)
  PROVE  (\A j \in Jobs : Quiet(j)) /\ candles' = candles
<1> USE DEF database, redis, history
<1>1. ASSUME UNCHANGED <<job, receipts, received, candles>>
      PROVE  (\A j \in Jobs : Quiet(j)) /\ candles' = candles
  BY <1>1 DEF Quiet
<1>2. ASSUME NEW js \in SUBSET Jobs, Enqueue(js)
      PROVE  (\A j \in Jobs : Quiet(j)) /\ candles' = candles
  BY <1>2 DEF Enqueue, Quiet, ReceiptInv, Receipted, Ended
<1>3. ASSUME NEW i \in Jobs, NEW status, NEW due, UNCHANGED <<receipts, received, candles>>,
             job' = [job EXCEPT ![i] = [@ EXCEPT !.status = status, !.due = due]],
             status \notin {"NONE", "ROWS_RECEIVED"} \/ status = job[i].status,
             job[i].status \notin Ended \/ status = job[i].status
      PROVE  (\A j \in Jobs : Quiet(j)) /\ candles' = candles
  <2>1. /\ job'[i].attempts = job[i].attempts /\ job'[i].status = status
        /\ \A j \in Jobs \ {i} : job'[j] = job[j]
    BY <1>3, TypeParts DEF JobRecord
  <2> QED
    BY <1>3, <2>1 DEF Quiet
<1>4. ASSUME NEW j \in Jobs, Resume(j)
      PROVE  (\A i \in Jobs : Quiet(i)) /\ candles' = candles
  BY <1>3, <1>4 DEF Resume, Resumable, Ended
<1>5. ASSUME NEW j \in Jobs, BecomesDue(j)
      PROVE  (\A i \in Jobs : Quiet(i)) /\ candles' = candles
  <2>1. job' = [job EXCEPT ![j] = [@ EXCEPT !.status = job[j].status, !.due = TRUE]]
    BY <1>5, TypeParts DEF BecomesDue, JobRecord
  <2>2. UNCHANGED <<receipts, received, candles>>
    BY <1>5 DEF BecomesDue
  <2> QED
    BY <1>3, <2>1, <2>2
<1>6. ASSUME NEW w \in Workers, NEW j \in Jobs, Stop(w, j)
      PROVE  (\A i \in Jobs : Quiet(i)) /\ candles' = candles
  <2>1. PICK status \in {"FAILED", "AUTH_REQUIRED"} : job' = [job EXCEPT ![j].status = status]
    BY <1>6 DEF Stop
  <2>2. job' = [job EXCEPT ![j] = [@ EXCEPT !.status = status, !.due = job[j].due]]
    BY <2>1, TypeParts DEF JobRecord
  <2> QED
    BY <1>3, <1>6, <2>2 DEF Stop, Takes, Claimable, ACTIVE, Ended
<1>7. ASSUME NEW w \in Workers, Defer(w)
      PROVE  (\A i \in Jobs : Quiet(i)) /\ candles' = candles
  <2>1. worker[w].job \in Jobs /\ job[worker[w].job].status \notin Ended
    BY <1>7 DEF Defer, SessionInv, Fits, ACTIVE, Ended
  <2>2. /\ UNCHANGED <<receipts, received, candles>>
        /\ job' = [job EXCEPT ![worker[w].job] = [@ EXCEPT !.status = "RETRY_WAIT", !.due = FALSE]]
    BY <1>7 DEF Defer
  <2> QED
    BY <1>3, <2>1, <2>2
<1> QED
  BY <1>1, <1>2, <1>4, <1>5, <1>6, <1>7
     DEF Next, Work, Receive, Ignore, Claim, Takes, Dispatch, LoseMessage, RefreshMaster, Call, Cool,
         Finish, SessionFails, Interrupted, LoseSession, CooldownEnds, vars

\* The gate counts an attempt of its job, once, and opens its receipt.
LEMMA AdmitMeans ==
  ASSUME TypeOK, SessionInv, ReceiptInv, NEW w \in Workers, Admit(w)
  PROVE  LET j == worker[w].job
             n == job[j].attempts + 1
         IN /\ j \in Jobs /\ n \in 1 .. MaxAttempts
            /\ job[j].due /\ job[j].status \in ACTIVE /\ job'[j].status = "RUNNING"
            /\ job'[j].attempts = n
            /\ \A k \in 1 .. MaxAttempts :
                 receipts'[j][k] = IF k = n THEN "STARTED"
                                   ELSE IF receipts[j][k] = "STARTED" THEN "INTERRUPTED_UNKNOWN"
                                   ELSE receipts[j][k]
            /\ \A i \in Jobs \ {j} : Quiet(i)
            /\ UNCHANGED <<candles, received>>
<1> DEFINE j == worker[w].job
           n == job[j].attempts + 1
<1>1. /\ j \in Jobs /\ n \in 1 .. MaxAttempts
      /\ job[j].due /\ job[j].status \in ACTIVE
  BY TypeParts, FetchBounds DEF Admit, SessionInv, Fits, JobRecord
<1>2. job'[j].status = "RUNNING" /\ job'[j].attempts = n
  BY <1>1, TypeParts DEF Admit, NextAttempt, JobRecord
<1>3. \A k \in 1 .. MaxAttempts :
        receipts'[j][k] = IF k = n THEN "STARTED"
                          ELSE IF receipts[j][k] = "STARTED" THEN "INTERRUPTED_UNKNOWN"
                          ELSE receipts[j][k]
  <2>1. receipts'[j] = [Interrupt(receipts[j]) EXCEPT ![n] = "STARTED"]
    BY <1>1, TypeParts DEF Admit, NextAttempt
  <2> HIDE DEF n, j
  <2> QED
    BY <1>1, <2>1 DEF Interrupt
<1>4. \A i \in Jobs \ {j} : Quiet(i)
  BY <1>1, TypeParts DEF Admit, history, Quiet
<1>5. UNCHANGED <<candles, received>>
  BY DEF Admit, history
<1> QED
  BY <1>1, <1>2, <1>3, <1>4, <1>5, Zenon

\* An answer closes the receipt of the attempt it answers.
LEMMA RecordMeans ==
  ASSUME TypeOK, SessionInv, NEW w \in Workers, Record(w)
  PROVE  LET j == worker[w].job
             n == job[j].attempts
             answer == Fenced(worker[w].answer)
         IN /\ j \in Jobs /\ n \in 1 .. MaxAttempts /\ answer \in AnswerRecord
            /\ job[j].status = "RUNNING" /\ receipts[j][n] = "STARTED"
            /\ answer.outcome \notin {"none", "STARTED"}
            /\ job'[j].attempts = n /\ job'[j].status # "NONE"
            /\ job'[j].status = "ROWS_RECEIVED" =>
                 Conflicts(SaveRows(candles, answer.rows), answer.rows) = {}
            /\ \A k \in 1 .. MaxAttempts :
                 receipts'[j][k] = IF k = n THEN answer.outcome ELSE receipts[j][k]
            /\ \A i \in Jobs \ {j} : Quiet(i)
            /\ received'[j] = answer.rows /\ candles' = SaveRows(candles, answer.rows)
<1> DEFINE j == worker[w].job
           n == job[j].attempts
           answer == Fenced(worker[w].answer)
<1>1. /\ j \in Jobs /\ n \in 1 .. MaxAttempts
      /\ job[j].status = "RUNNING" /\ receipts[j][n] = "STARTED"
  BY TypeParts, FetchBounds DEF Record, Session, SessionInv, Fits, JobRecord
<1>2. answer \in AnswerRecord /\ answer.outcome # "none"
  BY FencedType, TypeParts DEF Record, SessionInv, Fits, WorkerRecord
<1>3. answer.outcome # "STARTED"
  BY <1>2 DEF AnswerRecord, Outcomes
<1>4. job'[j] = Verdict(job[j], answer)
  BY <1>1, TypeParts DEF Record
<1>5. \A k \in 1 .. MaxAttempts :
        receipts'[j][k] = IF k = n THEN answer.outcome ELSE receipts[j][k]
  BY <1>1, TypeParts DEF Record, Receipts
<1>6. \A i \in Jobs \ {j} : Quiet(i)
  BY <1>1, TypeParts DEF Record, Quiet
<1>7. received'[j] = answer.rows /\ candles' = SaveRows(candles, answer.rows)
  BY <1>1, TypeParts DEF Record
<1>8. /\ job'[j].attempts = n /\ job'[j].status # "NONE"
      /\ job'[j].status = "ROWS_RECEIVED" =>
           Conflicts(SaveRows(candles, answer.rows), answer.rows) = {}
  <2> HIDE DEF answer
  <2> QED
    BY <1>1, <1>2, <1>4, VerdictType, TypeParts
<1> QED
  BY <1>1, <1>2, <1>3, <1>5, <1>6, <1>7, <1>8, Zenon

-----------------------------------------------------------------------------
(* Receipts *)

LEMMA ReceiptInit == Init => ReceiptInv
BY FetchBounds DEF Init, NewJob, ReceiptInv, Receipted

LEMMA ReceiptStep == TypeOK /\ SessionInv /\ ReceiptInv /\ [Next]_vars => ReceiptInv'
<1> SUFFICES ASSUME TypeOK, SessionInv, ReceiptInv, [Next]_vars, NEW i \in Jobs
             PROVE  Receipted(job'[i], receipts'[i])
  BY DEF ReceiptInv
<1>1. Receipted(job[i], receipts[i])
  BY DEF ReceiptInv
<1>2. CASE Quiet(i)
  BY <1>1, <1>2 DEF Quiet, Receipted
<1>3. CASE \E w \in Workers : Admit(w) /\ worker[w].job = i
  <2>1. PICK n \in 1 .. MaxAttempts :
          /\ n = job[i].attempts + 1 /\ job'[i].attempts = n /\ job'[i].status = "RUNNING"
          /\ \A k \in 1 .. MaxAttempts :
               receipts'[i][k] = IF k = n THEN "STARTED"
                                 ELSE IF receipts[i][k] = "STARTED" THEN "INTERRUPTED_UNKNOWN"
                                 ELSE receipts[i][k]
    BY <1>3, AdmitMeans
  <2>2. job[i].attempts \in Nat /\ MaxAttempts \in Nat
    BY TypeParts, FetchBounds DEF JobRecord
  <2> QED
    BY <1>1, <2>1, <2>2 DEF Receipted
<1>4. CASE \E w \in Workers : Record(w) /\ worker[w].job = i
  BY <1>1, <1>4, RecordMeans DEF Receipted
<1> QED
  BY <1>2, <1>3, <1>4, QuietSteps, AdmitMeans, RecordMeans

\* Types, sessions and receipts, together inductive.
LEMMA Receipting == Spec => [](TypeOK /\ SessionInv /\ ReceiptInv)
BY TypeInit, TypeStep, SessionInit, SessionStep, ReceiptInit, ReceiptStep, PTL DEF Spec

\* Every variable keeps the shape the code gives it.
THEOREM TypeCorrect == Spec => []TypeOK
BY Receipting, PTL

\* No step undoes what was decided: an attempt starts only when its due time has
\* passed, a closed receipt is never rewritten, not even by a worker taken for dead,
\* and an ended job stays ended.
THEOREM NothingIsUndone == Spec => NothingUndone
<1> DEFINE Sound == TypeOK /\ SessionInv /\ ReceiptInv
<1>1. Sound /\ [Next]_vars
        => [\A j \in Jobs : job'[j].attempts > job[j].attempts => job[j].due]_vars
  <2> SUFFICES ASSUME Sound, [Next]_vars, NEW j \in Jobs, job'[j].attempts > job[j].attempts
               PROVE  job[j].due
    OBVIOUS
  <2>1. ~Quiet(j)
    BY TypeParts DEF Quiet, JobRecord
  <2> QED
    BY <2>1, QuietSteps, AdmitMeans, RecordMeans, TypeParts DEF JobRecord
<1>2. Sound /\ [Next]_vars
        => [\A j \in Jobs : \A k \in 1 .. MaxAttempts :
              receipts[j][k] \notin {"none", "STARTED"} => receipts'[j][k] = receipts[j][k]]_vars
  <2> SUFFICES ASSUME Sound, [Next]_vars, NEW j \in Jobs, NEW k \in 1 .. MaxAttempts,
                      receipts[j][k] \notin {"none", "STARTED"}
               PROVE  receipts'[j][k] = receipts[j][k]
    OBVIOUS
  <2>1. k <= job[j].attempts
    BY DEF ReceiptInv, Receipted
  <2>2. CASE Quiet(j)
    BY <2>2 DEF Quiet
  <2>3. CASE \E w \in Workers : Admit(w) /\ worker[w].job = j
    BY <2>1, <2>3, AdmitMeans, TypeParts DEF JobRecord
  <2>4. CASE \E w \in Workers : Record(w) /\ worker[w].job = j
    BY <2>4, RecordMeans
  <2> QED
    BY <2>2, <2>3, <2>4, QuietSteps, AdmitMeans, RecordMeans
<1>3. Sound /\ [Next]_vars
        => [\A j \in Jobs : job[j].status \in Ended => job'[j].status = job[j].status]_vars
  <2> SUFFICES ASSUME Sound, [Next]_vars, NEW j \in Jobs, job[j].status \in Ended
               PROVE  job'[j].status = job[j].status
    OBVIOUS
  <2> QED
    BY QuietSteps, AdmitMeans, RecordMeans DEF Quiet, Ended, ACTIVE
<1> QED
  BY <1>1, <1>2, <1>3, Receipting, PTL
     DEF Spec, NothingUndone, NeverEarly, ReceiptsAreFinal, EndedStays

-----------------------------------------------------------------------------
(* Requests *)

\* Tasks that neither are admitted nor send a request: no new callers.
LEMMA CallersKept ==
  ASSUME TypeOK, CallInv, calls' = calls, \A j \in Jobs : job'[j].attempts = job[j].attempts,
         \A w \in Workers : worker'[w].pc = "call" =>
           worker[w].pc = "call" /\ worker'[w].job = worker[w].job
  PROVE  CallInv'
<1> SUFFICES ASSUME NEW j \in Jobs
             PROVE  /\ IsFiniteSet(Callers(j, worker'))
                    /\ calls'[j] + Cardinality(Callers(j, worker')) <= job'[j].attempts
  BY DEF CallInv
<1>1. Callers(j, worker') \subseteq Callers(j, worker)
  BY DEF Callers
<1>2. /\ IsFiniteSet(Callers(j, worker')) /\ IsFiniteSet(Callers(j, worker))
      /\ Cardinality(Callers(j, worker')) <= Cardinality(Callers(j, worker))
  BY <1>1, FS_Subset DEF CallInv
<1>3. Cardinality(Callers(j, worker')) \in Nat /\ Cardinality(Callers(j, worker)) \in Nat
  BY <1>2, FS_CardinalityType
<1> QED
  BY <1>2, <1>3, TypeParts DEF CallInv, JobRecord

LEMMA CallInit == Init => CallInv
<1> SUFFICES ASSUME Init, NEW j \in Jobs
             PROVE  /\ IsFiniteSet(Callers(j, worker))
                    /\ calls[j] + Cardinality(Callers(j, worker)) <= job[j].attempts
  BY DEF CallInv
<1>1. Callers(j, worker) = {}
  BY DEF Init, Callers, IdleWorker
<1>2. calls[j] = 0 /\ job[j].attempts = 0
  BY DEF Init, NewJob
<1>3. IsFiniteSet({}) /\ Cardinality({}) = 0
  BY FS_EmptySet
<1> QED
  BY <1>1, <1>2, <1>3

\* A request is sent by an admitted task, which sends no other.
LEMMA CallStep == TypeOK /\ SessionInv /\ ReceiptInv /\ CallInv /\ [Next]_vars => CallInv'
<1> SUFFICES ASSUME TypeOK, SessionInv, ReceiptInv, CallInv, [Next]_vars PROVE CallInv'
  OBVIOUS
<1>1. ASSUME NEW w \in Workers, Admit(w) PROVE CallInv'
  <2> SUFFICES ASSUME NEW j \in Jobs
               PROVE  /\ IsFiniteSet(Callers(j, worker'))
                      /\ calls'[j] + Cardinality(Callers(j, worker')) <= job'[j].attempts
    BY DEF CallInv
  <2>1. worker' = [worker EXCEPT ![w].pc = "call"] /\ calls' = calls /\ worker[w].pc = "admit"
    BY <1>1 DEF Admit, history
  <2>2. IsFiniteSet(Callers(j, worker)) /\ Cardinality(Callers(j, worker)) \in Nat
    BY FS_CardinalityType DEF CallInv
  <2>3. CASE worker[w].job = j
    <3>1. Callers(j, worker') = Callers(j, worker) \cup {w} /\ w \notin Callers(j, worker)
      BY <2>1, <2>3, TypeParts DEF Callers, WorkerRecord
    <3>2. /\ IsFiniteSet(Callers(j, worker'))
          /\ Cardinality(Callers(j, worker')) = Cardinality(Callers(j, worker)) + 1
      BY <2>2, <3>1, FS_AddElement
    <3>3. job'[j].attempts = job[j].attempts + 1
      BY <1>1, <2>3, AdmitMeans
    <3> QED
      BY <2>1, <2>2, <3>2, <3>3, TypeParts DEF CallInv, JobRecord
  <2>4. CASE worker[w].job # j
    <3>1. Callers(j, worker') = Callers(j, worker)
      BY <2>1, <2>4, TypeParts DEF Callers, WorkerRecord
    <3>2. job'[j].attempts = job[j].attempts
      BY <1>1, <2>4, AdmitMeans DEF Quiet
    <3> QED
      BY <2>1, <3>1, <3>2 DEF CallInv
  <2> QED
    BY <2>3, <2>4
<1>2. ASSUME NEW w \in Workers, Call(w) PROVE CallInv'
  <2> SUFFICES ASSUME NEW j \in Jobs
               PROVE  /\ IsFiniteSet(Callers(j, worker'))
                      /\ calls'[j] + Cardinality(Callers(j, worker')) <= job'[j].attempts
    BY DEF CallInv
  <2>1. PICK answer \in Answers(worker[w].job) :
          /\ worker' = [worker EXCEPT ![w].pc = "record", ![w].answer = answer]
          /\ calls' = [calls EXCEPT ![worker[w].job] = @ + 1] \/ calls' = calls
    BY <1>2 DEF Call
  <2>2. /\ worker[w].pc = "call" /\ worker[w].job \in Jobs /\ job' = job
    BY <1>2 DEF Call, SessionInv, Fits, database
  <2>3. IsFiniteSet(Callers(j, worker)) /\ Cardinality(Callers(j, worker)) \in Nat
    BY FS_CardinalityType DEF CallInv
  <2>4. /\ worker'[w].pc = "record" /\ \A v \in Workers \ {w} : worker'[v] = worker[v]
    BY <2>1, TypeParts DEF WorkerRecord
  <2>5. Callers(j, worker') = Callers(j, worker) \ {w}
    BY <2>4 DEF Callers
  <2>6. /\ IsFiniteSet(Callers(j, worker'))
        /\ Cardinality(Callers(j, worker')) =
             IF w \in Callers(j, worker) THEN Cardinality(Callers(j, worker)) - 1
             ELSE Cardinality(Callers(j, worker))
    BY <2>3, <2>5, FS_RemoveElement
  <2>7. w \in Callers(j, worker) <=> worker[w].job = j
    BY <2>2 DEF Callers
  <2>8. calls[j] \in Nat /\ calls'[j] \in {calls[j], calls[j] + (IF worker[w].job = j THEN 1 ELSE 0)}
    BY <2>1, <2>2, TypeParts
  <2> QED
    BY <2>2, <2>3, <2>6, <2>7, <2>8, TypeParts DEF CallInv, JobRecord
<1>3. ASSUME NEW w \in Workers, Record(w) PROVE CallInv'
  <2>1. \A j \in Jobs : job'[j].attempts = job[j].attempts
    BY <1>3, RecordMeans DEF Quiet
  <2>2. \A v \in Workers : worker'[v].pc = "call" =>
          worker[v].pc = "call" /\ worker'[v].job = worker[v].job
    BY <1>3, TypeParts DEF Record, WorkerRecord
  <2> QED
    BY <1>3, <2>1, <2>2, CallersKept DEF Record
<1>4. ASSUME \A w \in Workers : ~Admit(w) /\ ~Record(w) /\ ~Call(w) PROVE CallInv'
  <2>1. \A j \in Jobs : job'[j].attempts = job[j].attempts
    BY <1>4, QuietSteps DEF Quiet
  <2>2. calls' = calls
    BY <1>4 DEF Next, Work, Receive, Enqueue, Resume, Dispatch, BecomesDue, LoseMessage, Ignore, Stop,
           Claim, Takes, Defer, Cool, Finish, SessionFails, Interrupted, LoseSession, RefreshMaster,
           CooldownEnds, vars, history
  <2>3. \A v \in Workers : worker'[v].pc = "call" =>
          worker[v].pc = "call" /\ worker'[v].job = worker[v].job
    <3>1. ASSUME UNCHANGED worker
          PROVE  \A v \in Workers : worker'[v].pc = "call" =>
                   worker[v].pc = "call" /\ worker'[v].job = worker[v].job
      BY <3>1
    <3>2. ASSUME NEW w \in Workers, NEW j \in Jobs, Claim(w, j)
          PROVE  \A v \in Workers : worker'[v].pc = "call" =>
                   worker[v].pc = "call" /\ worker'[v].job = worker[v].job
      BY <3>2, TypeParts DEF Claim, IdleWorker
    <3>3. ASSUME NEW w \in Workers, Defer(w) \/ Cool(w) \/ LoseSession(w)
          PROVE  \A v \in Workers : worker'[v].pc = "call" =>
                   worker[v].pc = "call" /\ worker'[v].job = worker[v].job
      BY <3>3, TypeParts DEF Defer, Cool, LoseSession, WorkerRecord
    <3>4. ASSUME NEW w \in Workers, Ends(w)
          PROVE  \A v \in Workers : worker'[v].pc = "call" =>
                   worker[v].pc = "call" /\ worker'[v].job = worker[v].job
      BY <3>4, TypeParts DEF Ends, IdleWorker
    <3> QED
      BY <1>4, <3>1, <3>2, <3>3, <3>4
         DEF Next, Work, Receive, Enqueue, Resume, Dispatch, BecomesDue, LoseMessage, Ignore, Stop,
             Finish, SessionFails, Interrupted, RefreshMaster, CooldownEnds, vars
  <2> QED
    BY <2>1, <2>2, <2>3, CallersKept
<1> QED
  BY <1>1, <1>2, <1>3, <1>4

\* No worker sends a request without a receipt that was committed before, nor two
\* for one receipt, and a job has at most MaxAttempts of them.
THEOREM RequestsAreReceipted == Spec => []RequestsBounded
<1>1. TypeOK /\ ReceiptInv /\ CallInv => RequestsBounded
  <2> SUFFICES ASSUME TypeOK, ReceiptInv, CallInv, NEW j \in Jobs
               PROVE  /\ calls[j] <= Cardinality({k \in 1 .. MaxAttempts : receipts[j][k] # "none"})
                      /\ calls[j] <= job[j].attempts
    BY DEF RequestsBounded
  <2>1. job[j].attempts \in 0 .. MaxAttempts /\ MaxAttempts \in Nat /\ calls[j] \in Nat
    BY TypeParts, FetchBounds DEF JobRecord
  <2>2. {k \in 1 .. MaxAttempts : receipts[j][k] # "none"} = 1 .. job[j].attempts
    BY <2>1 DEF ReceiptInv, Receipted
  <2>3. Cardinality(1 .. job[j].attempts) = job[j].attempts
    <3>1. job[j].attempts \in Int /\ 1 \in Int /\ job[j].attempts \in Nat
      BY <2>1
    <3> QED
      BY <3>1, FS_Interval
  <2>4. Cardinality(Callers(j, worker)) \in Nat
    BY FS_CardinalityType DEF CallInv
  <2>5. calls[j] <= job[j].attempts
    BY <2>1, <2>4 DEF CallInv
  <2> QED
    BY <2>2, <2>3, <2>5
<1>2. TypeOK /\ SessionInv /\ ReceiptInv /\ CallInv /\ [Next]_vars => CallInv'
  BY CallStep
<1> QED
  BY <1>1, <1>2, CallInit, Receipting, PTL DEF Spec

-----------------------------------------------------------------------------
(* Candles *)

LEMMA StoredInit == Init => StoredAsReceived
BY DEF Init, StoredAsReceived, NewJob

\* Rows that were stored stay, whatever other jobs bring.
LEMMA StoredStep ==
  TypeOK /\ SessionInv /\ ReceiptInv /\ StoredAsReceived /\ [Next]_vars => StoredAsReceived'
<1> SUFFICES ASSUME TypeOK, SessionInv, ReceiptInv, StoredAsReceived, [Next]_vars,
                    NEW j \in Jobs, job'[j].status = "ROWS_RECEIVED", NEW c \in Candles
             PROVE  received'[j][c] \in {"none", candles'[c]}
  BY DEF StoredAsReceived
<1>1. ASSUME Quiet(j) PROVE received'[j][c] \in {"none", candles[c]}
  BY <1>1 DEF Quiet, StoredAsReceived
<1>2. CASE candles' = candles /\ Quiet(j)
  BY <1>1, <1>2
<1>3. ASSUME NEW w \in Workers, Record(w) PROVE received'[j][c] \in {"none", candles'[c]}
  <2> DEFINE rows == Fenced(worker[w].answer).rows
  <2>1. candles' = SaveRows(candles, rows)
    BY <1>3, RecordMeans
  <2>2. CASE worker[w].job = j
    BY <1>3, <2>1, <2>2, RecordMeans DEF Conflicts
  <2>3. CASE worker[w].job # j
    <3>1. received'[j][c] \in {"none", candles[c]}
      BY <1>1, <1>3, <2>3, RecordMeans
    <3>2. candles[c] = "none" \/ candles'[c] = candles[c]
      BY <2>1 DEF SaveRows
    <3> QED
      BY <3>1, <3>2
  <2> QED
    BY <2>2, <2>3
<1>4. ASSUME NEW w \in Workers, Admit(w) PROVE received'[j][c] \in {"none", candles'[c]}
  <2>1. worker[w].job # j /\ candles' = candles
    BY <1>4, AdmitMeans
  <2> QED
    BY <1>1, <1>4, <2>1, AdmitMeans
<1> QED
  BY <1>2, <1>3, <1>4, QuietSteps

\* Rows reported as received are the rows stored, for ever, although other jobs may
\* bring other versions of the same candle.
THEOREM ReceivedIsStored == Spec => []StoredAsReceived
BY StoredInit, StoredStep, Receipting, PTL DEF Spec

\* Candles are saved only while the identity of the instrument is verified: the
\* answer of a request that a master refresh overtook is recorded without its rows.
THEOREM SavedOnlyVerified == Spec => SavedUnderIdentity
<1>1. TypeOK /\ SessionInv /\ ReceiptInv /\ [Next]_vars => [candles' # candles => mapping]_vars
  <2> SUFFICES ASSUME TypeOK, SessionInv, ReceiptInv, [Next]_vars, candles' # candles, ~mapping
               PROVE  FALSE
    OBVIOUS
  <2>1. PICK w \in Workers : Admit(w) \/ Record(w)
    BY QuietSteps
  <2>2. Record(w)
    BY <2>1, AdmitMeans
  <2>3. candles' = SaveRows(candles, NoRows)
    BY <2>2 DEF Record, Fenced, Answer
  <2>4. SaveRows(candles, NoRows) = candles
    BY TypeParts DEF SaveRows, NoRows, Rows
  <2> QED
    BY <2>3, <2>4
<1> QED
  BY <1>1, Receipting, PTL DEF Spec, SavedUnderIdentity

\* At most one receipt of a job is open, that of its latest attempt.
THEOREM OneReceiptOpen == Spec => []OneOpenReceipt
<1>1. ReceiptInv => OneOpenReceipt
  BY DEF ReceiptInv, Receipted, OneOpenReceipt
<1> QED
  BY <1>1, Receipting, PTL

\* What the database says of the requests is true, through lost deliveries, lost
\* workers and lost sessions.
THEOREM ReceiptsAreSound == Spec => []ReceiptsSound
BY RequestsAreReceipted, OneReceiptOpen, ReceivedIsStored, PTL DEF ReceiptsSound

-----------------------------------------------------------------------------
(***************************************************************************)
(* No received tick is lost and the cursor is exact, for any number of     *)
(* processes and events, any size of a batch and any number of failures.   *)
(***************************************************************************)

WriterState == [pc : {"off", "read", "persist", "ack"}, pending : BOOLEAN, replay : BOOLEAN,
                batch : SUBSET Nat]

TypeInv ==
  /\ emitted \in Nat
  /\ db \subseteq 1 .. emitted /\ stream \subseteq 1 .. emitted /\ delivered \subseteq 1 .. emitted
  /\ cursor \in Nat
  /\ writer \in [Owners -> WriterState]
  /\ \A p \in Owners : writer[p].batch \subseteq 1 .. emitted

(* What a writer is about to acknowledge is stored: it may have been read   *)
(* by any process, and be written by another one at the same time.          *)
StoredBeforeAck == \A p \in Owners : writer[p].pc = "ack" => writer[p].batch \subseteq db

(* m is the greatest element of S. *)
GreatestOf(S, m) == m \in S /\ \A x \in S : x <= m
CursorIsGreatest == GreatestOf({0} \cup db, cursor)

TicksInv == TypeInv /\ StoredBeforeAck /\ CursorIsGreatest /\ NoTickLost

-----------------------------------------------------------------------------
(* The greatest element of a finite set                                    *)

\* A non-empty finite set of numbers has a greatest element: one with the fewest
\* elements above it.
LEMMA GreatestExists ==
  ASSUME NEW S \in SUBSET Nat, S # {}, IsFiniteSet(S)
  PROVE  \E m \in S : \A x \in S : x <= m
<1> DEFINE Above(x) == {y \in S : y > x}
           T == {Above(x) : x \in S}
<1>1. T \subseteq FiniteSubsetsOf(S)
  <2>1. \A x \in S : Above(x) \in SUBSET S
    OBVIOUS
  <2>2. \A x \in S : IsFiniteSet(Above(x))
    BY <2>1, FS_Subset
  <2> QED
    BY <2>1, <2>2 DEF FiniteSubsetsOf
<1>2. T # {}
  OBVIOUS
<1>3. PICK U \in T : \A V \in T : <<V, U>> \notin StrictSubsetOrdering(S)
  <2> HIDE DEF T
  <2> QED
    BY <1>1, <1>2, WFMin, FS_StrictSubsetOrderingWellFounded
<1>4. PICK m \in S : U = Above(m)
  BY <1>3
<1>5. ASSUME NEW x \in S, ~(x <= m) PROVE FALSE
  <2>1. x \in Above(m) /\ x \notin Above(x)
    BY <1>5
  <2>2. Above(x) \subseteq Above(m)
    <3>1. x \in Nat /\ m \in Nat /\ x > m
      BY <1>5
    <3>2. \A y \in S : y \in Nat
      OBVIOUS
    <3>3. ASSUME NEW y \in S, y > x PROVE y > m
      BY <3>1, <3>2, <3>3
    <3> QED
      BY <3>3
  <2>3. Above(x) # Above(m)
    BY <2>1
  <2>4. Above(x) \in SUBSET S /\ Above(m) \in SUBSET S /\ Above(x) \in T
    OBVIOUS
  <2> HIDE DEF Above, T
  <2>5. <<Above(x), U>> \in StrictSubsetOrdering(S)
    BY <1>4, <2>2, <2>3, <2>4 DEF StrictSubsetOrdering
  <2> QED
    BY <1>3, <2>4, <2>5
<1> QED
  BY <1>4, <1>5

\* Max is that element.
LEMMA MaxMeans ==
  ASSUME NEW S \in SUBSET Nat, S # {}, IsFiniteSet(S)
  PROVE  GreatestOf(S, Max(S))
BY GreatestExists DEF Max, GreatestOf

LEMMA GreatestIsMax ==
  ASSUME NEW S \in SUBSET Nat, NEW m, GreatestOf(S, m)
  PROVE  m = Max(S)
<1>1. \A x \in S : x \in Nat
  OBVIOUS
<1>2. \A x \in S : (\A y \in S : x >= y) => x = m
  BY <1>1 DEF GreatestOf
<1>3. \E x \in S : \A y \in S : x >= y
  BY <1>1 DEF GreatestOf
<1>4. Max(S) \in S /\ \A y \in S : Max(S) >= y
  BY <1>3 DEF Max
<1> QED
  BY <1>2, <1>4

\* What a read takes of a set is part of it.
LEMMA OldestMeans == ASSUME NEW S, NEW n PROVE Least(S, n) \subseteq S
BY DEF Least

-----------------------------------------------------------------------------
(* The invariant is inductive                                              *)

LEMMA TicksInvInit == TicksInit => TicksInv
<1> SUFFICES ASSUME TicksInit PROVE TicksInv
  OBVIOUS
<1>1. Off \in WriterState /\ Off.pc = "off" /\ Off.batch = {}
  BY DEF Off, WriterState
<1>2. writer = [p \in Owners |-> Off]
  BY DEF TicksInit
<1>3. TypeInv
  BY <1>1, <1>2 DEF TicksInit, TypeInv
<1>4. StoredBeforeAck
  BY <1>1, <1>2 DEF StoredBeforeAck
<1>5. CursorIsGreatest /\ NoTickLost
  BY DEF TicksInit, CursorIsGreatest, GreatestOf, NoTickLost
<1> QED
  BY <1>3, <1>4, <1>5 DEF TicksInv

\* A writer moves to w, which acknowledges nothing that is not stored, while entries
\* and rows stay.
LEMMA WriterMoves ==
  ASSUME TicksInv, NEW p \in Owners, NEW w \in WriterState, writer' = [writer EXCEPT ![p] = w],
         w.batch \subseteq 1 .. emitted, w.pc = "ack" => w.batch \subseteq db,
         UNCHANGED <<emitted, db, cursor, stream>>, delivered' \subseteq 1 .. emitted
  PROVE  TicksInv'
<1>1. TypeInv'
  BY DEF TicksInv, TypeInv
<1>2. StoredBeforeAck'
  BY DEF TicksInv, TypeInv, StoredBeforeAck
<1> QED
  BY <1>1, <1>2 DEF TicksInv, CursorIsGreatest, NoTickLost

LEMMA RereadMeans ==
  ASSUME NEW w \in WriterState
  PROVE  Reread(w) \in WriterState /\ Reread(w).pc = "read" /\ Reread(w).batch = {}
BY DEF Reread, WriterState

LEMMA TicksInvStep == TicksInv /\ [TicksNext]_tickVars => TicksInv'
<1> SUFFICES ASSUME TicksInv, [TicksNext]_tickVars PROVE TicksInv'
  OBVIOUS
<1>1. TypeInv /\ StoredBeforeAck /\ CursorIsGreatest /\ NoTickLost
  BY DEF TicksInv
<1>2. \A p \in Owners : writer[p] \in WriterState /\ writer[p].batch \subseteq 1 .. emitted
  BY <1>1 DEF TypeInv
<1>3. ASSUME NEW p \in Owners, Acquire(p) PROVE TicksInv'
  <2>1. Started \in WriterState /\ Started.pc = "read" /\ Started.batch = {}
    BY DEF Started, Off, WriterState
  <2> QED
    BY <1>1, <1>3, <2>1, WriterMoves DEF Acquire, TypeInv
<1>4. ASSUME NEW p \in Owners, LoseLock(p) PROVE TicksInv'
  BY <1>1, <1>4 DEF LoseLock, TicksInv, TypeInv, StoredBeforeAck, CursorIsGreatest, NoTickLost
<1>5. ASSUME NEW p \in Owners, Leave(p) PROVE TicksInv'
  <2>1. Off \in WriterState /\ Off.pc = "off" /\ Off.batch = {}
    BY DEF Off, WriterState
  <2> QED
    BY <1>1, <1>5, <2>1, WriterMoves DEF Leave, TypeInv
<1>6. ASSUME NEW p \in Owners, Emit(p) PROVE TicksInv'
  <2>1. /\ emitted' = emitted + 1 /\ stream' = stream \cup {emitted + 1}
        /\ UNCHANGED <<db, cursor, delivered, writer>>
    BY <1>6 DEF Emit
  <2>2. 1 .. emitted' = (1 .. emitted) \cup {emitted + 1}
    BY <1>1, <2>1 DEF TypeInv
  <2>3. TypeInv'
    BY <1>1, <2>1, <2>2 DEF TypeInv
  <2>4. NoTickLost'
    BY <1>1, <2>1, <2>2 DEF NoTickLost
  <2> QED
    BY <1>1, <2>1, <2>3, <2>4 DEF TicksInv, StoredBeforeAck, CursorIsGreatest
<1>7. ASSUME NEW p \in Owners, ReadPending(p) PROVE TicksInv'
  <2> DEFINE entries == Least(delivered \cap stream, BatchSize)
             w == IF entries # {}
                  THEN [writer[p] EXCEPT !.pc = "persist", !.replay = TRUE, !.batch = entries]
                  ELSE [writer[p] EXCEPT !.pending = FALSE]
  <2>1. entries \subseteq 1 .. emitted
    BY <1>1, OldestMeans DEF TypeInv
  <2>2. 1 .. emitted \subseteq Nat
    BY <1>1 DEF TypeInv
  <2>3. writer' = [writer EXCEPT ![p] = w] /\ writer[p].pc = "read"
    BY <1>7 DEF ReadPending
  <2> HIDE DEF entries
  <2>4. w \in WriterState /\ w.batch \subseteq 1 .. emitted /\ w.pc # "ack"
    BY <1>2, <2>1, <2>2, <2>3 DEF WriterState
  <2>5. UNCHANGED <<emitted, db, cursor, stream>> /\ delivered' \subseteq 1 .. emitted
    BY <1>1, <1>7 DEF ReadPending, TypeInv
  <2> HIDE DEF w
  <2> QED
    BY <2>3, <2>4, <2>5, WriterMoves
<1>8. ASSUME NEW p \in Owners, ReadNew(p) PROVE TicksInv'
  <2> DEFINE entries == Least(stream \ delivered, Max({1, BatchSize - Cardinality(writer[p].batch)}))
             batch == writer[p].batch \cup entries
  <2>1. entries \subseteq 1 .. emitted
    BY <1>1, OldestMeans DEF TypeInv
  <2> HIDE DEF entries
  <2>2. batch \subseteq 1 .. emitted /\ 1 .. emitted \subseteq Nat
    <3>1. writer[p].batch \subseteq 1 .. emitted /\ emitted \in Nat
      BY <1>1, <1>2 DEF TypeInv
    <3>2. 1 .. emitted \subseteq Nat
      BY <3>1
    <3>3. batch \subseteq 1 .. emitted
      <4> HIDE DEF entries
      <4> QED
        BY <2>1, <3>1, Zenon
    <3> QED
      BY <3>2, <3>3
  <2>3. /\ writer[p].pc = "read" /\ delivered' = delivered \cup entries
        /\ UNCHANGED <<emitted, db, cursor, stream>>
    BY <1>8 DEF ReadNew, entries
  <2>4. PICK w : /\ writer' = [writer EXCEPT ![p] = w]
                 /\ \/ w = [writer[p] EXCEPT !.batch = batch]
                    \/ w = [writer[p] EXCEPT !.pc = "persist", !.replay = FALSE, !.batch = batch]
    BY <1>8 DEF ReadNew, entries
  <2> HIDE DEF batch
  <2>5. w \in WriterState /\ w.batch \subseteq 1 .. emitted /\ w.pc # "ack"
    BY <1>2, <2>2, <2>3, <2>4 DEF WriterState
  <2>6. delivered' \subseteq 1 .. emitted
    BY <1>1, <2>1, <2>3 DEF TypeInv
  <2> QED
    BY <2>3, <2>4, <2>5, <2>6, WriterMoves
<1>9. ASSUME NEW p \in Owners, Persist(p) PROVE TicksInv'
  <2> DEFINE b == writer[p].batch
  <2>1. PICK w \in WriterState : /\ writer' = [writer EXCEPT ![p] = w] /\ w.batch \subseteq b
                                 /\ w.pc = "ack" => db' = db \cup b
    <3>1. \/ writer' = [writer EXCEPT ![p].pc = "ack"] /\ db' = db \cup b
          \/ writer' = [writer EXCEPT ![p] = Reread(writer[p])]
      BY <1>9 DEF Persist, AfterFailure
    <3>2. CASE writer' = [writer EXCEPT ![p].pc = "ack"] /\ db' = db \cup b
      <4>1. [writer[p] EXCEPT !.pc = "ack"] \in WriterState /\ [writer[p] EXCEPT !.pc = "ack"].batch = b
        BY <1>2 DEF WriterState
      <4>2. writer' = [writer EXCEPT ![p] = [writer[p] EXCEPT !.pc = "ack"]]
        BY <3>2
      <4> QED
        BY <3>2, <4>1, <4>2
    <3>3. CASE writer' = [writer EXCEPT ![p] = Reread(writer[p])]
      BY <1>2, <3>3, RereadMeans
    <3> QED
      BY <3>1, <3>2, <3>3
  <2>2. UNCHANGED <<emitted, stream, delivered>>
    BY <1>9 DEF Persist
  <2>3. CASE UNCHANGED <<db, cursor>>
    <3>1. w.pc = "ack" => w.batch \subseteq db
      BY <2>1, <2>3
    <3>2. w.batch \subseteq 1 .. emitted /\ delivered' \subseteq 1 .. emitted
      BY <1>1, <1>2, <2>1, <2>2 DEF TypeInv
    <3> QED
      BY <2>1, <2>2, <2>3, <3>1, <3>2, WriterMoves
  <2>4. CASE db' = db \cup b /\ cursor' = Max({cursor} \cup b)
    <3>1. b \subseteq 1 .. emitted /\ cursor \in Nat /\ emitted \in Nat
      BY <1>1, <1>2 DEF TypeInv
    <3>2. {cursor} \cup b \subseteq Nat /\ IsFiniteSet({cursor} \cup b)
      <4>1. IsFiniteSet(b)
        <5>1. IsFiniteSet(1 .. emitted)
          BY <3>1, FS_Interval
        <5> HIDE DEF b
        <5> QED
          BY <3>1, <5>1, FS_Subset
      <4> QED
        BY <3>1, <4>1, FS_AddElement
    <3>3. GreatestOf({cursor} \cup b, cursor')
      BY <2>4, <3>2, MaxMeans
    <3>4. CursorIsGreatest'
      <4>1. GreatestOf({0} \cup db, cursor) /\ db \subseteq Nat
        BY <1>1, <3>1 DEF CursorIsGreatest, TypeInv
      <4>2. cursor' \in {0} \cup db \cup b /\ cursor <= cursor' /\ cursor' \in Nat
        BY <3>1, <3>2, <3>3, <4>1 DEF GreatestOf
      <4>3. \A x \in {0} \cup db : x <= cursor'
        <5> SUFFICES ASSUME NEW x \in {0} \cup db PROVE x <= cursor'
          OBVIOUS
        <5>1. x \in Nat /\ x <= cursor
          BY <4>1 DEF GreatestOf
        <5> QED
          BY <3>1, <4>2, <5>1
      <4>4. \A x \in b : x <= cursor'
        BY <3>3 DEF GreatestOf
      <4> QED
        BY <2>4, <4>2, <4>3, <4>4 DEF CursorIsGreatest, GreatestOf
    <3>5. TypeInv'
      <4>1. cursor' \in Nat /\ db' \subseteq 1 .. emitted
        BY <1>1, <2>4, <3>1, <3>2, <3>3 DEF GreatestOf, TypeInv
      <4>2. w.batch \subseteq 1 .. emitted
        BY <2>1, <3>1
      <4> QED
        BY <1>1, <2>1, <2>2, <4>1, <4>2 DEF TypeInv
    <3>6. StoredBeforeAck'
      BY <1>1, <2>1, <2>4 DEF TypeInv, StoredBeforeAck
    <3>7. NoTickLost'
      BY <1>1, <2>2, <2>4 DEF NoTickLost
    <3> QED
      BY <3>4, <3>5, <3>6, <3>7 DEF TicksInv
  <2> QED
    BY <1>9, <2>3, <2>4 DEF Persist, NewCursor, Greatest
<1>10. ASSUME NEW p \in Owners, Ack(p) PROVE TicksInv'
  <2> DEFINE b == writer[p].batch
  <2>1. b \subseteq db
    BY <1>1, <1>10 DEF StoredBeforeAck, Ack
  <2>2. PICK w \in WriterState : writer' = [writer EXCEPT ![p] = w] /\ w.batch = {} /\ w.pc = "read"
    <3>1. [writer[p] EXCEPT !.pc = "read", !.batch = {}] \in WriterState
      BY <1>2 DEF WriterState
    <3>2. [writer[p] EXCEPT !.pc = "read", !.batch = {}].batch = {} /\ [writer[p] EXCEPT !.pc = "read", !.batch = {}].pc = "read"
      BY <1>2 DEF WriterState
    <3>3. \/ writer' = [writer EXCEPT ![p] = [writer[p] EXCEPT !.pc = "read", !.batch = {}]]
          \/ writer' = [writer EXCEPT ![p] = Reread(writer[p])]
      BY <1>10 DEF Ack, AfterFailure
    <3> QED
      BY <1>2, <3>1, <3>2, <3>3, RereadMeans
  <2>3. /\ UNCHANGED <<emitted, db, cursor>>
        /\ \/ stream' = stream \ b /\ delivered' = delivered \ b
           \/ UNCHANGED <<stream, delivered>>
    BY <1>10 DEF Ack, Acknowledged
  <2>4. TypeInv'
    BY <1>1, <2>2, <2>3 DEF TypeInv
  <2>5. StoredBeforeAck'
    BY <1>1, <2>2, <2>3 DEF TypeInv, StoredBeforeAck
  <2>6. NoTickLost'
    BY <1>1, <2>1, <2>3 DEF NoTickLost
  <2> QED
    BY <1>1, <2>3, <2>4, <2>5, <2>6 DEF TicksInv, CursorIsGreatest
<1>11. CASE UNCHANGED tickVars
  BY <1>1, <1>11 DEF tickVars, TicksInv, TypeInv, StoredBeforeAck, CursorIsGreatest, NoTickLost
<1> QED
  BY <1>3, <1>4, <1>5, <1>6, <1>7, <1>8, <1>9, <1>10, <1>11 DEF TicksNext, Writer

-----------------------------------------------------------------------------

\* Whichever process reads, stores and acknowledges, and whatever fails before or after
\* it took effect: an event that left the stream is in the database, and the cursor the
\* next process starts from is the newest stored event.
THEOREM TicksAreKept == TicksSpec => []TicksSafe
<1>1. TicksInv => TicksSafe
  <2> SUFFICES ASSUME TicksInv PROVE TicksSafe
    OBVIOUS
  <2>1. {0} \cup db \in SUBSET Nat
    BY DEF TicksInv, TypeInv
  <2>2. cursor = Max({0} \cup db)
    BY <2>1, GreatestIsMax DEF TicksInv, CursorIsGreatest
  <2> QED
    BY <2>2 DEF TicksInv, TicksSafe, CursorBacked
<1> QED
  BY <1>1, TicksInvInit, TicksInvStep, PTL DEF TicksSpec
=============================================================================
