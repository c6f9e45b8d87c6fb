------------------------ MODULE HistoryPlanner_proofs ------------------------
(***************************************************************************)
(* History as it is planned, candles as research reads them, and the room  *)
(* that shows them.  The planner, the saved evidence and the trading room   *)
(* share nothing; what is proved of each stands in a part of its own.      *)
(***************************************************************************)
EXTENDS HistoryPlanner, CandleEvidence, ControlRoom, FiniteSetTheorems, SequenceTheorems,
        WellFoundedInduction, TLAPS

(***************************************************************************)
(* The cursors of the collection planner stand on received windows, for    *)
(* any instruments, calendar, slices and bounds.                           *)
(*                                                                         *)
(* A cursor moves in a transaction that reads the jobs while workers, the  *)
(* API and gap repair change them.  It is right because an answer with rows *)
(* is final, because the rows of a waiting series are its own, and because *)
(* its window touches one of its cursors: RowSound says so of each row, of *)
(* the table and of the copy that the transaction under way has changed.    *)
(***************************************************************************)
Statuses == Live \cup {"ROWS_RECEIVED", "FAILED", "HOLD", "AUTH_REQUIRED", "GAP_PROVENANCE"}
JobsTyped(js) == \A k \in DOMAIN js : js[k] \in [status : Statuses, attempts : Nat, fresh : BOOLEAN]

WindowsOf(s) == {s} \X Int \X Int
RowStates == {"READY", "WAITING", "WAITING_AUTH", "REVIEW_REQUIRED", "EXPIRED_CONTRACT_REVIEW"}
Row(s) ==
  [floor : Int, older : Int, recent : Int \cup {None}, job : WindowsOf(s) \cup {None},
   state : RowStates, planned : Nat, seed : Int, probe : Int \cup {None}]

ReceivedIn(js, s, d) == \E k \in DOMAIN js :
  k[1] = s /\ js[k].status = "ROWS_RECEIVED" /\ Start(k) <= d /\ d < End(k)

\* What lies between the cursors was answered with rows, or precedes the probe.
Backed(s, p, js) ==
  /\ p.recent # None <=> p.probe # None
  /\ p.recent = None => p.older >= p.seed
  /\ p.recent # None => \A d \in Int : p.older <= d /\ d < p.recent
                          => ReceivedIn(js, s, d) \/ (p.seed <= d /\ d < p.probe)

\* The window of a series that waits for one begins or ends at a cursor.
Adjoins(p, k) ==
  /\ Start(k) < End(k)
  /\ p.recent # None => Start(k) = p.recent \/ End(k) = p.older
Touching(s, p, js) == p.state \in {"WAITING", "WAITING_AUTH"} =>
  p.job \in WindowsOf(s) /\ p.job \in DOMAIN js /\ Adjoins(p, p.job)

RowSound(s, p, js) == p # None => p \in Row(s) /\ Backed(s, p, js) /\ Touching(s, p, js)
RowsSound(ps, js) == \A s \in Series : RowSound(s, ps[s], js)

\* Jobs the transaction has resumed stay as they are until it ends: it has
\* locked them.
TxnFields == {"pc", "progress", "master", "revision", "resumed", "room"}
TxnSound(t, js) ==
  /\ DOMAIN t = TxnFields
  /\ RowsSound(t.progress, js)
  /\ t.resumed \subseteq DOMAIN js /\ \A k \in t.resumed : js[k].status = "AUTH_REQUIRED"

PlannerInv ==
  /\ end \in Int /\ end >= FirstDay /\ good \in BOOLEAN
  /\ JobsTyped(jobs)
  /\ RowsSound(progress, jobs)
  /\ txn # None => TxnSound(txn, jobs)

-----------------------------------------------------------------------------
(* The days and windows                                                    *)

\* Among days before d there is a last open one.
LEMMA LastOpenIsADay ==
  ASSUME NEW d \in Int, d >= FirstDay
  PROVE  LastOpen(d) \in Int
<1> DEFINE S == {x \in (FirstDay - Week) .. (d - 1) : x \notin Weekend \cup Closed}
           back == {n \in Nat : d - 1 - n \in S}
<1>1. FirstDay \in Int /\ Week \in Nat /\ Week > 0
  BY PlannerAssumption
<1>2. FirstDay - 1 \in S
  BY <1>1, PlannerAssumption
<1>3. S \subseteq Int /\ \A x \in S : x <= d - 1
  BY <1>1
<1>4. d - FirstDay \in back
  <2>1. d - 1 - (d - FirstDay) = FirstDay - 1 /\ d - FirstDay \in Nat
    BY <1>1
  <2> HIDE DEF S
  <2> QED
    BY <1>2, <2>1
<1> HIDE DEF S
<1>5. PICK n \in back : \A m \in back : ~(<<m, n>> \in OpToRel(<, Nat))
  <2>1. back \subseteq Nat
    OBVIOUS
  <2> HIDE DEF back
  <2> QED
    BY <1>4, <2>1, NatLessThanWellFounded, WFMin
<1>6. d - 1 - n \in S /\ \A y \in S : d - 1 - n >= y
  <2>1. ASSUME NEW y \in S PROVE d - 1 - n >= y
    <3> DEFINE m == d - 1 - y
    <3>1. m \in back
      BY <1>3
    <3>2. m \in Nat /\ n \in Nat /\ <<m, n>> \in Nat \X Nat
      BY <3>1
    <3>3. ~(m < n)
      BY <1>5, <3>1, <3>2 DEF OpToRel
    <3> QED
      BY <1>3, <3>2, <3>3
  <2> QED
    BY <2>1
<1>7. Max(S) \in S
  BY <1>6 DEF Max
<1> QED
  BY <1>3, <1>7 DEF LastOpen, S

\* A window to request is one of the probe, or touches one of the cursors.
LEMMA NextRangeAdjoins ==
  ASSUME NEW s \in Series, NEW p \in Row(s), NEW d \in Int, d >= FirstDay, next_range(s, p, d) # None
  PROVE  LET k == Key(s, next_range(s, p, d)[1], next_range(s, p, d)[2])
         IN k \in WindowsOf(s) /\ Adjoins(p, k)
<1> DEFINE expiry == Expiry[s[1]]
           last == IF expiry = None THEN d ELSE LeastOf(d, expiry + 1)
           open == LastOpen(last)
           probe == IF open \in Unverified THEN LeastOf(open, last - Week) ELSE open
           size == IF Interval(s) = "1d" THEN Older ELSE Week
           span == IF p.recent = None THEN <<MostOf(p.floor, probe), last>>
                   ELSE IF p.recent < last THEN RecentSlice(p, last)
                   ELSE IF p.older > p.floor THEN <<MostOf(p.floor, p.older - size), p.older>>
                   ELSE None
<1>1. s[1] \in Identities /\ FirstDay \in Int /\ Week \in Int /\ Older \in Int /\ expiry \in Int \cup {None}
  BY PlannerAssumption DEF Series
<1>2. last \in Int /\ last >= FirstDay
  BY <1>1, DaysAreNumbers DEF LeastOf
<1>3. probe \in Int /\ size \in Int
  <2>1. open \in Int
    BY <1>2, LastOpenIsADay
  <2> HIDE DEF open, last
  <2> QED
    BY <1>1, <1>2, <2>1 DEF LeastOf
<1>4. p.floor \in Int /\ p.older \in Int /\ p.recent \in Int \cup {None}
  BY DEF Row
<1>5. next_range(s, p, d) = IF span = None THEN None ELSE IF span[1] >= span[2] THEN None ELSE span
  BY DEF next_range
<1> HIDE DEF last, probe, size
<1>6. span # None /\ ~(span[1] >= span[2]) /\ next_range(s, p, d) = span
  <2> HIDE DEF span
  <2> QED
    BY <1>5
<1>7. /\ span[1] \in Int /\ span[2] \in Int
      /\ p.recent # None => span[1] = p.recent \/ span[2] = p.older
  <2>1. CASE p.recent = None
    BY <1>2, <1>3, <1>4, <2>1 DEF MostOf
  <2>2. CASE p.recent # None /\ p.recent < last
    BY <1>1, <1>2, <1>4, <2>2 DEF RecentSlice, LeastOf
  <2>3. CASE p.recent # None /\ ~(p.recent < last)
    <3>1. span = <<MostOf(p.floor, p.older - size), p.older>>
      BY <1>6, <2>3
    <3> QED
      BY <1>3, <1>4, <3>1 DEF MostOf
  <2> QED
    BY <2>1, <2>2, <2>3
<1> HIDE DEF span
<1> QED
  BY <1>6, <1>7 DEF Key, WindowsOf, Adjoins, Start, End

-----------------------------------------------------------------------------
(* Jobs                                                                    *)

\* An answer with rows is final, and no job is forgotten.
Grows(js, more) ==
  /\ DOMAIN js \subseteq DOMAIN more
  /\ \A k \in DOMAIN js : js[k].status = "ROWS_RECEIVED" => more[k].status = "ROWS_RECEIVED"

LEMMA RowStaysSound ==
  ASSUME NEW s \in Series, NEW p, NEW js, NEW more, Grows(js, more), RowSound(s, p, js)
  PROVE  RowSound(s, p, more)
<1>1. \A d \in Int : ReceivedIn(js, s, d) => ReceivedIn(more, s, d)
  BY DEF Grows, ReceivedIn
<1>2. Touching(s, p, js) => Touching(s, p, more)
  BY DEF Grows, Touching
<1> QED
  BY <1>1, <1>2 DEF RowSound, Backed

LEMMA RowsStaySound ==
  ASSUME NEW ps, NEW js, NEW more, Grows(js, more), RowsSound(ps, js)
  PROVE  RowsSound(ps, more)
BY RowStaysSound DEF RowsSound

\* The jobs as the transaction sees them and leaves them.
LEMMA SeenGrows ==
  ASSUME NEW js, JobsTyped(js), NEW resumed, resumed \subseteq DOMAIN js,
         \A k \in resumed : js[k].status = "AUTH_REQUIRED"
  PROVE  /\ JobsTyped(Seen(js, resumed)) /\ DOMAIN Seen(js, resumed) = DOMAIN js
         /\ Grows(js, Seen(js, resumed))
         /\ \A k \in DOMAIN js : Seen(js, resumed)[k].status = "ROWS_RECEIVED" => js[k].status = "ROWS_RECEIVED"
BY DEF JobsTyped, Seen, Grows, Statuses, Live

LEMMA RegisterGrows ==
  ASSUME NEW js, JobsTyped(js), NEW ks, NEW job \in [status : Statuses, attempts : Nat, fresh : BOOLEAN]
  PROVE  /\ JobsTyped(Register(js, ks, job)) /\ DOMAIN Register(js, ks, job) = DOMAIN js \cup ks
         /\ Grows(js, Register(js, ks, job))
         /\ \A k \in DOMAIN js : Register(js, ks, job)[k] = js[k]
BY DEF JobsTyped, Register, Grows

-----------------------------------------------------------------------------
(* Rows                                                                    *)

\* An answer with rows moves the cursors over its window: an older slice lowers
\* one, the days since raise the other, a probe sets both.
LEMMA AdvanceSound ==
  ASSUME NEW s \in Series, NEW p \in Row(s), NEW js, NEW job, Backed(s, p, js), Touching(s, p, js),
         p.state \in {"WAITING", "WAITING_AUTH"}, job.status = "ROWS_RECEIVED" => js[p.job].status = "ROWS_RECEIVED"
  PROVE  RowSound(s, Advance(p, p.job, job), js)
<1> DEFINE k == p.job
           q == [p EXCEPT !.older = LeastOf(@, Start(k)), !.recent = IF @ = None THEN End(k) ELSE MostOf(@, End(k)),
                          !.job = None, !.state = "READY", !.probe = IF @ = None THEN Start(k) ELSE @]
<1>1. /\ k \in WindowsOf(s) /\ k \in DOMAIN js /\ Adjoins(p, k) /\ k[1] = s
      /\ Start(k) \in Int /\ End(k) \in Int /\ Start(k) < End(k)
  BY DEF Touching, WindowsOf, Adjoins, Start, End
<1>2. CASE job.status = "ROWS_RECEIVED"
  <2>1. Advance(p, k, job) = q
    BY <1>2 DEF Advance
  <2>2. /\ q \in Row(s) /\ q.state = "READY" /\ q.seed = p.seed
        /\ q.older = LeastOf(p.older, Start(k))
        /\ q.recent = IF p.recent = None THEN End(k) ELSE MostOf(p.recent, End(k))
        /\ q.probe = IF p.probe = None THEN Start(k) ELSE p.probe
    BY <1>1 DEF Row, RowStates, LeastOf, MostOf
  <2> HIDE DEF q
  <2>3. q.recent # None /\ q.probe # None
    BY <1>1, <2>2, DaysAreNumbers DEF MostOf, Row
  <2>4. p.older \in Int /\ p.seed \in Int /\ p.recent \in Int \cup {None} /\ p.probe \in Int \cup {None}
    BY DEF Row
  <2>5. ASSUME NEW d \in Int, Start(k) <= d, d < End(k) PROVE ReceivedIn(js, s, d)
    BY <1>1, <1>2, <2>5 DEF ReceivedIn
  <2>6. ASSUME NEW d \in Int, q.older <= d, d < q.recent
        PROVE  ReceivedIn(js, s, d) \/ (q.seed <= d /\ d < q.probe)
    <3>1. CASE p.recent = None
      <4>1. p.probe = None /\ p.older >= p.seed
        BY <3>1 DEF Backed
      <4>2. CASE d < Start(k)
        BY <1>1, <2>2, <2>4, <2>6, <4>1, <4>2 DEF LeastOf
      <4>3. CASE ~(d < Start(k))
        BY <1>1, <2>2, <2>5, <2>6, <3>1, <4>3
      <4> QED
        BY <4>2, <4>3
    <3>2. CASE p.recent # None
      <4>1. Start(k) = p.recent \/ End(k) = p.older
        BY <1>1, <3>2 DEF Adjoins
      <4>2. (Start(k) <= d /\ d < End(k)) \/ (p.older <= d /\ d < p.recent)
        BY <1>1, <2>2, <2>4, <2>6, <3>2, <4>1 DEF LeastOf, MostOf
      <4>3. q.seed = p.seed /\ q.probe = p.probe
        BY <2>2, <3>2 DEF Backed
      <4> QED
        BY <2>5, <3>2, <4>2, <4>3 DEF Backed
    <3> QED
      BY <3>1, <3>2
  <2> QED
    BY <2>1, <2>2, <2>3, <2>6 DEF RowSound, Backed, Touching
<1>3. ASSUME job.status # "ROWS_RECEIVED",
             NEW st \in RowStates, Advance(p, k, job) = [p EXCEPT !.state = st]
      PROVE  RowSound(s, Advance(p, k, job), js)
  <2> DEFINE r == [p EXCEPT !.state = st]
  <2>1. /\ r \in Row(s) /\ r.older = p.older /\ r.recent = p.recent /\ r.seed = p.seed /\ r.probe = p.probe
        /\ r.job = p.job
    BY DEF Row
  <2> HIDE DEF r
  <2>2. Backed(s, r, js) /\ Touching(s, r, js)
    BY <1>1, <2>1 DEF Backed, Touching, Adjoins
  <2> QED
    BY <1>3, <2>1, <2>2 DEF RowSound, r
<1>4. CASE job.status # "ROWS_RECEIVED"
  <2>1. CASE job.status \in {"FAILED", "HOLD"}
    BY <1>3, <1>4, <2>1 DEF Advance, RowStates
  <2>2. CASE job.status = "AUTH_REQUIRED"
    BY <1>3, <1>4, <2>2 DEF Advance, RowStates
  <2>3. CASE job.status \notin {"FAILED", "HOLD", "AUTH_REQUIRED"}
    BY <1>4, <2>3 DEF Advance, RowSound
  <2> QED
    BY <2>1, <2>2, <2>3
<1> QED
  BY <1>2, <1>4

\* A series starts with both cursors where it was seeded.
LEMMA SeededSound ==
  ASSUME NEW ps, NEW js, NEW listing, RowsSound(ps, js), end \in Int
  PROVE  RowsSound(Seeded(ps, listing), js)
<1> SUFFICES ASSUME NEW s \in Series PROVE RowSound(s, Seeded(ps, listing)[s], js)
  BY DEF RowsSound
<1> DEFINE new == [floor |-> IF Interval(s) = "1d" THEN FirstDay ELSE five_years_before(end),
                   older |-> end, recent |-> None, job |-> None, state |-> "READY", planned |-> 0,
                   seed |-> end, probe |-> None]
<1>1. Seeded(ps, listing)[s] \in {ps[s], new}
  BY DEF Seeded
<1>2. new \in Row(s)
  <2>1. (IF Interval(s) = "1d" THEN FirstDay ELSE five_years_before(end)) \in Int
    BY PlannerAssumption DEF five_years_before
  <2> QED
    BY <2>1 DEF Row, RowStates
<1>3. RowSound(s, new, js)
  BY <1>2 DEF RowSound, Backed, Touching
<1> HIDE DEF new
<1> QED
  BY <1>1, <1>3 DEF RowsSound

\* A transaction reads what became of the windows it waits for.
LEMMA SettledSound ==
  ASSUME NEW ps, NEW js, RowsSound(ps, js), NEW seen,
         \A k \in DOMAIN js : seen[k].status = "ROWS_RECEIVED" => js[k].status = "ROWS_RECEIVED"
  PROVE  RowsSound(Settled(ps, seen), js)
<1> SUFFICES ASSUME NEW s \in Series PROVE RowSound(s, Settled(ps, seen)[s], js)
  BY DEF RowsSound
<1>1. RowSound(s, ps[s], js)
  BY DEF RowsSound
<1>2. CASE Waiting(ps[s])
  <2>1. /\ ps[s] \in Row(s) /\ Backed(s, ps[s], js) /\ Touching(s, ps[s], js)
        /\ ps[s].state \in {"WAITING", "WAITING_AUTH"}
    BY <1>1, <1>2 DEF RowSound, Waiting
  <2>2. ps[s].job \in DOMAIN js
    BY <2>1 DEF Touching
  <2>3. Settled(ps, seen)[s] = Advance(ps[s], ps[s].job, seen[ps[s].job])
    BY <1>2 DEF Settled
  <2> QED
    BY <2>1, <2>2, <2>3, AdvanceSound
<1>3. CASE ~Waiting(ps[s])
  BY <1>1, <1>3 DEF Settled
<1> QED
  BY <1>2, <1>3

\* As the five years move on, the oldest days are given up.
LEMMA ShiftedSound ==
  ASSUME NEW s \in Series, NEW p \in Row(s), NEW js, Backed(s, p, js), end \in Int
  PROVE  Shifted(s, p) \in Row(s) /\ Backed(s, Shifted(s, p), js) /\ Shifted(s, p).state = p.state
<1> DEFINE f == MostOf(p.floor, five_years_before(end))
           older == MostOf(p.older, f)
           q == [p EXCEPT !.floor = f, !.older = older]
<1>1. f \in Int
  BY PlannerAssumption DEF MostOf, five_years_before, Row
<1> HIDE DEF f
<1>2. p.older \in Int /\ p.seed \in Int /\ older \in Int /\ older >= p.older
  BY <1>1 DEF Row, MostOf
<1> HIDE DEF older
<1>3. /\ q \in Row(s) /\ q.state = p.state /\ q.seed = p.seed /\ q.recent = p.recent /\ q.probe = p.probe
      /\ q.older \in Int /\ q.older >= p.older
  BY <1>1, <1>2 DEF Row
<1>4. Shifted(s, p) \in {p, q}
  BY DEF Shifted, f, older
<1> HIDE DEF q
<1>5. Backed(s, q, js)
  <2>1. p.recent = None => q.older >= q.seed
    BY <1>2, <1>3 DEF Backed
  <2>2. ASSUME p.recent # None, NEW d \in Int, q.older <= d, d < q.recent
        PROVE  p.older <= d /\ d < p.recent
    BY <1>2, <1>3, <2>2
  <2> QED
    BY <1>3, <2>1, <2>2 DEF Backed
<1> QED
  BY <1>3, <1>4, <1>5

LEMMA WantsAreRanges ==
  ASSUME NEW t, NEW s \in DOMAIN Wants(t)
  PROVE  LET w == next_range(s, Shifted(s, t.progress[s]), end)
         IN s \in Taken(t) /\ ~Expired(s) /\ w # None /\ Wants(t)[s] = Key(s, w[1], w[2])
BY DEF Wants, Wanted

\* A row that is planned waits for its window, or goes to the end of the round.
LEMMA PlannedSound ==
  ASSUME NEW t, NEW s \in Taken(t), NEW js, RowSound(s, t.progress[s], js), NEW now \in Nat,
         end \in Int, end >= FirstDay, \A r \in DOMAIN Wants(t) : Wants(t)[r] \in DOMAIN js
  PROVE  RowSound(s, Planned(s, t.progress[s], Wants(t), js, now), js)
<1> DEFINE p == t.progress[s]
           q == Shifted(s, p)
<1>1. s \in Series /\ p \in Row(s) /\ Backed(s, p, js) /\ p.state = "READY"
  BY DEF Taken, RowSound
<1>2. q \in Row(s) /\ Backed(s, q, js) /\ q.state = "READY"
  BY <1>1, ShiftedSound
<1>3. CASE Expired(s)
  <2> DEFINE e == [p EXCEPT !.state = "EXPIRED_CONTRACT_REVIEW"]
  <2>1. Planned(s, p, Wants(t), js, now) = e
    BY <1>3, WantsAreRanges DEF Planned
  <2>2. e \in Row(s) /\ e.state = "EXPIRED_CONTRACT_REVIEW" /\ e.older = p.older /\ e.recent = p.recent
        /\ e.seed = p.seed /\ e.probe = p.probe
    BY <1>1 DEF Row, RowStates
  <2> HIDE DEF e, p
  <2> QED
    BY <1>1, <2>1, <2>2 DEF RowSound, Backed, Touching, p
<1>4. CASE ~Expired(s) /\ s \notin DOMAIN Wants(t)
  <2> DEFINE e == [q EXCEPT !.planned = now]
  <2>1. Planned(s, p, Wants(t), js, now) = e
    BY <1>4 DEF Planned
  <2>2. e \in Row(s) /\ e.state = "READY" /\ e.older = q.older /\ e.recent = q.recent /\ e.seed = q.seed
        /\ e.probe = q.probe
    BY <1>2 DEF Row, RowStates
  <2> HIDE DEF e, q
  <2> QED
    BY <1>2, <2>1, <2>2 DEF RowSound, Backed, Touching
<1>5. CASE s \in DOMAIN Wants(t)
  <2> DEFINE k == Wants(t)[s]
             e == [q EXCEPT !.job = k, !.state = "WAITING", !.planned = now]
  <2>1. ~Expired(s) /\ k \in WindowsOf(s) /\ Adjoins(q, k) /\ k \in DOMAIN js
    <3> HIDE DEF q
    <3> QED
      BY <1>1, <1>2, <1>5, WantsAreRanges, NextRangeAdjoins DEF q
  <2>2. Planned(s, p, Wants(t), js, now) = Advance(e, k, js[k])
    BY <1>5, <2>1 DEF Planned
  <2> HIDE DEF q, k
  <2>3. e \in Row(s) /\ e.state = "WAITING" /\ e.job = k /\ e.older = q.older /\ e.recent = q.recent
        /\ e.seed = q.seed /\ e.probe = q.probe
    BY <1>2, <2>1 DEF Row, RowStates
  <2> HIDE DEF e
  <2>4. Backed(s, e, js) /\ Touching(s, e, js)
    BY <1>2, <2>1, <2>3 DEF Backed, Touching, Adjoins
  <2> QED
    BY <1>1, <2>2, <2>3, <2>4, AdvanceSound
<1> QED
  BY <1>3, <1>4, <1>5

\* The order of the round is kept as ranks.
LEMMA DenseSound ==
  ASSUME NEW ps, NEW js, RowsSound(ps, js)
  PROVE  RowsSound(Dense(ps), js)
<1> SUFFICES ASSUME NEW s \in Series PROVE RowSound(s, Dense(ps)[s], js)
  BY DEF RowsSound
<1> DEFINE used == {ps[x].planned : x \in {y \in Series : ps[y] # None}} \ {0}
           rank == Cardinality(used \cap (1 .. ps[s].planned))
           q == [ps[s] EXCEPT !.planned = rank]
<1>1. RowSound(s, ps[s], js)
  BY DEF RowsSound
<1>2. CASE ps[s] = None
  BY <1>2 DEF Dense, RowSound
<1>3. CASE ps[s] # None
  <2>1. ps[s] \in Row(s) /\ Backed(s, ps[s], js) /\ Touching(s, ps[s], js)
    BY <1>1, <1>3 DEF RowSound
  <2>2. rank \in Nat
    <3>0. ps[s].planned \in Int /\ 1 \in Int
      BY <2>1 DEF Row
    <3>1. IsFiniteSet(1 .. ps[s].planned)
      BY <3>0, FS_Interval, Zenon
    <3> HIDE DEF used
    <3>2. IsFiniteSet(used \cap (1 .. ps[s].planned))
      BY <3>1, FS_Intersection
    <3> QED
      BY <3>2, FS_CardinalityType
  <2>3. Dense(ps)[s] = q
    BY <1>3 DEF Dense
  <2> HIDE DEF rank
  <2>4. /\ q \in Row(s) /\ q.state = ps[s].state /\ q.job = ps[s].job /\ q.older = ps[s].older
        /\ q.recent = ps[s].recent /\ q.seed = ps[s].seed /\ q.probe = ps[s].probe
    BY <2>1, <2>2 DEF Row
  <2> HIDE DEF q
  <2> QED
    BY <2>1, <2>3, <2>4 DEF RowSound, Backed, Touching, Adjoins
<1> QED
  BY <1>2, <1>3

-----------------------------------------------------------------------------
(* The transaction                                                         *)

LEMMA PlannerBegins == Init => PlannerInv
<1> SUFFICES ASSUME Init PROVE PlannerInv
  OBVIOUS
<1>1. end \in Int /\ end >= FirstDay /\ good \in BOOLEAN /\ txn = None
  BY PlannerAssumption, DaysAreNumbers DEF Init
<1>2. DOMAIN jobs = {}
  BY DEF Init
<1>3. \A s \in Series : progress[s] = None
  BY DEF Init
<1> QED
  BY <1>1, <1>2, <1>3 DEF PlannerInv, JobsTyped, RowsSound, RowSound

\* What a committed transaction leaves of a sound one.
LEMMA SettleStep ==
  ASSUME PlannerInv, Settle
  PROVE  PlannerInv'
<1>1. PICK m, seeded, resumed :
        /\ seeded = Seeded(progress, m) /\ resumed = Resumed
        /\ IF token = 0
           THEN Commit([progress |-> seeded, master |-> m, revision |-> revision])
           ELSE /\ txn' = [pc |-> "check", progress |-> Settled(seeded, Seen(jobs, resumed)),
                           master |-> m, revision |-> token, resumed |-> resumed, room |-> 0]
                /\ UNCHANGED <<progress, master, checked, revision>>
  BY DEF Settle
<1>2. UNCHANGED <<end, jobs, token, good>>
  BY DEF Settle
<1>3. RowsSound(seeded, jobs)
  BY <1>1, SeededSound DEF PlannerInv
<1>4. resumed \subseteq DOMAIN jobs /\ \A k \in resumed : jobs[k].status = "AUTH_REQUIRED"
  BY <1>1 DEF Resumed
<1>5. CASE token = 0
  <2>1. progress' = seeded /\ txn' = None
    BY <1>1, <1>5 DEF Commit
  <2> QED
    BY <1>2, <1>3, <2>1 DEF PlannerInv
<1>6. CASE token # 0
  <2>1. RowsSound(Settled(seeded, Seen(jobs, resumed)), jobs)
    BY <1>3, <1>4, SeenGrows, SettledSound DEF PlannerInv
  <2>2. /\ txn'.progress = Settled(seeded, Seen(jobs, resumed)) /\ txn'.resumed = resumed
        /\ DOMAIN txn' = TxnFields /\ progress' = progress
    BY <1>1, <1>6 DEF TxnFields
  <2>3. TxnSound(txn', jobs)
    BY <1>4, <2>1, <2>2 DEF TxnSound
  <2> QED
    BY <1>2, <2>2, <2>3 DEF PlannerInv
<1> QED
  BY <1>5, <1>6

LEMMA ScanStep ==
  ASSUME PlannerInv, EndScan \/ CheckAuth \/ Count \/ Rollback
  PROVE  PlannerInv'
<1>1. CASE EndScan
  <2> DEFINE seen == Seen(jobs, txn.resumed)
  <2>1. TxnSound(txn, jobs) /\ jobs' = seen /\ progress' = txn.progress /\ txn' = None /\ UNCHANGED <<end, good>>
    BY <1>1 DEF EndScan, Commit, PlannerInv
  <2>2. JobsTyped(seen) /\ Grows(jobs, seen)
    BY <2>1, SeenGrows DEF TxnSound, PlannerInv
  <2>3. RowsSound(txn.progress, seen)
    BY <2>1, <2>2, RowsStaySound DEF TxnSound
  <2> HIDE DEF seen
  <2> QED
    BY <2>1, <2>2, <2>3 DEF PlannerInv
<1>2. CASE CheckAuth \/ Count
  <2>1. PICK room : txn' = [txn EXCEPT !.pc = "count"] \/ txn' = [txn EXCEPT !.pc = "plan", !.room = room]
    BY <1>2 DEF CheckAuth, Count
  <2>2. txn # None /\ UNCHANGED <<end, progress, jobs, good>>
    BY <1>2 DEF CheckAuth, Count
  <2>3. TxnSound(txn', jobs)
    BY <2>1, <2>2 DEF PlannerInv, TxnSound, TxnFields
  <2> QED
    BY <2>2, <2>3 DEF PlannerInv
<1>3. CASE Rollback
  BY <1>3 DEF Rollback, PlannerInv
<1> QED
  BY <1>1, <1>2, <1>3

LEMMA PlanStep ==
  ASSUME PlannerInv, Plan
  PROVE  PlannerInv'
<1> DEFINE want == Wants(txn)
           windows == {want[s] : s \in DOMAIN want}
           seen == Seen(jobs, txn.resumed)
           after == Register(seen, windows, NewJob)
           now == Cardinality(Series) + 1
           table == [s \in Series |-> IF s \in Taken(txn) THEN Planned(s, txn.progress[s], want, after, now)
                                     ELSE txn.progress[s]]
<1>1. /\ txn # None /\ jobs' = after /\ Commit([txn EXCEPT !.progress = Dense(table)])
      /\ UNCHANGED <<end, token, good, spent>>
  BY DEF Plan
<1>2. TxnSound(txn, jobs) /\ JobsTyped(jobs) /\ end \in Int /\ end >= FirstDay
  BY <1>1 DEF PlannerInv
<1>3. JobsTyped(seen) /\ Grows(jobs, seen)
  BY <1>2, SeenGrows DEF TxnSound
<1>4. NewJob \in [status : Statuses, attempts : Nat, fresh : BOOLEAN]
  BY DEF NewJob, Statuses, Live
<1> HIDE DEF seen, windows
<1>5. JobsTyped(after) /\ DOMAIN after = DOMAIN seen \cup windows /\ Grows(seen, after)
  BY <1>3, <1>4, RegisterGrows
<1> HIDE DEF after
<1>6. RowsSound(txn.progress, after)
  BY <1>2, <1>3, <1>5, RowsStaySound DEF TxnSound
<1>7. \A r \in DOMAIN want : want[r] \in DOMAIN after
  BY <1>5 DEF windows
<1>8. now \in Nat
  <2>1. IsFiniteSet(Intervals)
    <3>1. IsFiniteSet({"1d"}) /\ IsFiniteSet({"1"})
      BY FS_Singleton
    <3>2. IsFiniteSet({"1d"} \cup {"1"})
      BY <3>1, FS_Union
    <3>3. Intervals \in SUBSET ({"1d"} \cup {"1"})
      BY PlannerAssumption
    <3> QED
      BY <3>2, <3>3, FS_Subset
  <2>2. IsFiniteSet(Series)
    BY <2>1, DaysAreNumbers, FS_Product DEF Series
  <2> QED
    BY <2>2, FS_CardinalityType
<1> HIDE DEF now
<1>9. RowsSound(table, after)
  <2> SUFFICES ASSUME NEW s \in Series PROVE RowSound(s, table[s], after)
    BY DEF RowsSound
  <2>1. CASE s \in Taken(txn)
    BY <1>2, <1>6, <1>7, <1>8, <2>1, PlannedSound DEF RowsSound
  <2>2. CASE s \notin Taken(txn)
    BY <1>6, <2>2 DEF RowsSound
  <2> QED
    BY <2>1, <2>2
<1> HIDE DEF table
<1>10. RowsSound(Dense(table), after)
  BY <1>9, DenseSound
<1>11. progress' = Dense(table) /\ txn' = None
  BY <1>1, <1>2 DEF Commit, TxnSound, TxnFields
<1> QED
  BY <1>1, <1>5, <1>10, <1>11 DEF PlannerInv

-----------------------------------------------------------------------------
(* The others                                                              *)

\* Whoever changes a job: it keeps its rows, and leaves alone what is locked.
LEMMA JobsChange ==
  ASSUME PlannerInv, UNCHANGED <<end, good, progress, txn>>, JobsTyped(jobs'), Grows(jobs, jobs'),
         \A k \in Held : jobs'[k].status = jobs[k].status
  PROVE  PlannerInv'
<1>1. RowsSound(progress, jobs')
  BY RowsStaySound DEF PlannerInv
<1>2. ASSUME txn # None PROVE TxnSound(txn, jobs')
  <2>1. TxnSound(txn, jobs) /\ Held = txn.resumed
    BY <1>2 DEF PlannerInv, Held
  <2>2. RowsSound(txn.progress, jobs')
    BY <2>1, RowsStaySound DEF TxnSound
  <2> QED
    BY <2>1, <2>2 DEF TxnSound, Grows
<1> QED
  BY <1>1, <1>2 DEF PlannerInv

\* Held jobs wait for a credential.
LEMMA HeldWait == PlannerInv => \A k \in Held : k \in DOMAIN jobs /\ jobs[k].status = "AUTH_REQUIRED"
BY DEF PlannerInv, Held, TxnSound

LEMMA WorkStep ==
  ASSUME PlannerInv, NEW k \in DOMAIN jobs, Work(k) \/ ManualRetry(k)
  PROVE  PlannerInv'
<1>1. /\ UNCHANGED <<end, good, progress, txn>>
      /\ jobs[k].status # "ROWS_RECEIVED" /\ k \notin Held
      /\ \E job \in [status : Statuses, attempts : Nat, fresh : BOOLEAN] : jobs' = [jobs EXCEPT ![k] = job]
  <2>1. jobs[k] \in [status : Statuses, attempts : Nat, fresh : BOOLEAN] /\ good \in BOOLEAN
    BY DEF PlannerInv, JobsTyped
  <2>2. CASE Take(k)
    <3> DEFINE stopped == [jobs[k] EXCEPT !.status = "FAILED"]
               waits == [jobs[k] EXCEPT !.status = "AUTH_REQUIRED"]
               runs == [jobs[k] EXCEPT !.status = "RUNNING", !.attempts = jobs[k].attempts + 1, !.fresh = good]
    <3>1. stopped \in [status : Statuses, attempts : Nat, fresh : BOOLEAN]
      BY <2>1 DEF Statuses, Live
    <3>2. waits \in [status : Statuses, attempts : Nat, fresh : BOOLEAN]
      BY <2>1 DEF Statuses, Live
    <3>3. runs \in [status : Statuses, attempts : Nat, fresh : BOOLEAN]
      <4>1. "RUNNING" \in Statuses
        BY DEF Statuses, Live
      <4>2. jobs[k].attempts + 1 \in Nat
        BY <2>1
      <4>3. ASSUME NEW job \in [status : Statuses, attempts : Nat, fresh : BOOLEAN], NEW s \in Statuses, NEW n \in Nat
            PROVE  [job EXCEPT !.status = s, !.attempts = n, !.fresh = good] \in [status : Statuses, attempts : Nat, fresh : BOOLEAN]
        BY <2>1, <4>3
      <4> QED
        BY <2>1, <4>1, <4>2, <4>3
    <3>4. \/ jobs' = [jobs EXCEPT ![k] = stopped]
          \/ jobs' = [jobs EXCEPT ![k] = waits]
          \/ jobs' = [jobs EXCEPT ![k] = runs]
      <4>1. CASE ~Verified(k) \/ jobs[k].attempts >= MaxAttempts
        BY <2>2, <4>1 DEF Take
      <4>2. CASE ~(~Verified(k) \/ jobs[k].attempts >= MaxAttempts) /\ token = 0
        BY <2>2, <4>2 DEF Take
      <4>3. CASE ~(~Verified(k) \/ jobs[k].attempts >= MaxAttempts) /\ token # 0
        <5>1. jobs' = [jobs EXCEPT ![k] = [@ EXCEPT !.status = "RUNNING", !.attempts = jobs[k].attempts + 1,
                                                    !.fresh = good]]
          BY <2>2, <4>3 DEF Take
        <5> QED
          BY <5>1
      <4> QED
        BY <4>1, <4>2, <4>3
    <3> HIDE DEF stopped, waits, runs
    <3>5. /\ UNCHANGED <<end, good, progress, txn>> /\ jobs[k].status # "ROWS_RECEIVED" /\ k \notin Held
      BY <2>2 DEF Take
    <3> QED
      BY <3>1, <3>2, <3>3, <3>4, <3>5
  <2>3. CASE Answer(k)
    <3>1. UNCHANGED <<end, good, progress, txn>> /\ jobs[k].status = "RUNNING" /\ k \notin Held
      BY <2>3, HeldWait DEF Answer
    <3>2. PICK outcome \in Statuses : jobs' = [jobs EXCEPT ![k] = [@ EXCEPT !.status = outcome, !.fresh = TRUE]]
      BY <2>3 DEF Answer, Statuses, Live
    <3> QED
      BY <2>1, <3>1, <3>2
  <2>4. CASE ManualRetry(k)
    BY <2>1, <2>4 DEF ManualRetry, Statuses, Live
  <2> QED
    BY <2>2, <2>3, <2>4 DEF Work
<1>2. JobsTyped(jobs') /\ Grows(jobs, jobs') /\ \A h \in Held : jobs'[h].status = jobs[h].status
  BY <1>1, HeldWait DEF PlannerInv, JobsTyped, Grows
<1> QED
  BY <1>1, <1>2, JobsChange

LEMMA RegisterStep ==
  ASSUME PlannerInv, NEW k \in Keys, Enqueue(k) \/ RegisterGap(k)
  PROVE  PlannerInv'
<1>1. /\ UNCHANGED <<end, good, progress, txn>>
      /\ \E job \in [status : Statuses, attempts : Nat, fresh : BOOLEAN] : jobs' = Register(jobs, {k}, job)
  BY DEF Enqueue, RegisterGap, NewJob, Statuses, Live
<1>2. JobsTyped(jobs') /\ Grows(jobs, jobs') /\ \A h \in DOMAIN jobs : jobs'[h] = jobs[h]
  <2>1. PICK job \in [status : Statuses, attempts : Nat, fresh : BOOLEAN] : jobs' = Register(jobs, {k}, job)
    BY <1>1
  <2>2. JobsTyped(jobs)
    BY DEF PlannerInv
  <2> DEFINE more == Register(jobs, {k}, job)
  <2>3. JobsTyped(more) /\ Grows(jobs, more) /\ \A h \in DOMAIN jobs : more[h] = jobs[h]
    BY <2>2, RegisterGrows
  <2> HIDE DEF more
  <2>4. jobs' = more
    BY <2>1 DEF more
  <2> QED
    BY <2>3, <2>4
<1> QED
  BY <1>1, <1>2, HeldWait, JobsChange

\* Days and credentials change no job.
LEMMA OtherStep ==
  ASSUME PlannerInv, NextDay \/ SaveToken \/ ExpireToken \/ UNCHANGED vars
  PROVE  PlannerInv'
<1>1. /\ UNCHANGED <<progress, jobs, txn>> /\ good' \in BOOLEAN /\ end' \in Int /\ end' >= FirstDay
  <2>1. FirstDay \in Int /\ end \in Int /\ end >= FirstDay /\ good \in BOOLEAN
    BY PlannerAssumption DEF PlannerInv
  <2>2. CASE NextDay
    BY <2>1, <2>2 DEF NextDay
  <2>3. CASE SaveToken \/ ExpireToken
    BY <2>1, <2>3 DEF SaveToken, ExpireToken
  <2>4. CASE UNCHANGED vars
    BY <2>1, <2>4 DEF vars
  <2> QED
    BY <2>2, <2>3, <2>4
<1> QED
  BY <1>1 DEF PlannerInv

\* market_collection.py, maintain: whatever transaction is rolled back, whatever worker,
\* API or gap repair changes jobs meanwhile: every day between the two cursors of a
\* series was answered with rows, or lies between its seeding and its first probe.
THEOREM CursorsAreBacked == Spec => []CursorsBacked
<1>1. PlannerInv => CursorsBacked
  <2> SUFFICES ASSUME PlannerInv, NEW s \in Series, progress[s] # None, progress[s].recent # None,
                      NEW d \in progress[s].older .. (progress[s].recent - 1)
               PROVE  Received(s, d) \/ (progress[s].seed <= d /\ d < progress[s].probe)
    BY DEF CursorsBacked
  <2>1. progress[s] \in Row(s) /\ Backed(s, progress[s], jobs)
    BY DEF PlannerInv, RowsSound, RowSound
  <2>2. d \in Int /\ progress[s].older <= d /\ d < progress[s].recent
    BY <2>1 DEF Row
  <2> QED
    BY <2>1, <2>2 DEF Backed, ReceivedIn, Received
<1>2. PlannerInv /\ [Next]_vars => PlannerInv'
  BY SettleStep, ScanStep, PlanStep, WorkStep, RegisterStep, OtherStep DEF Next, Maintain
<1> QED
  BY <1>1, <1>2, PlannerBegins, PTL DEF Spec

(***************************************************************************)
(* What research reads, for any number of runs, pages, days and requests:   *)
(* a snapshot counts with its final minutes only, a replay at an earlier   *)
(* clock is told nothing that was received later, and what the index names *)
(* is stored.                                                              *)
(*                                                                         *)
(* A candle carries the moment it was received, no later than the document *)
(* it stands in; the window of a request ends by the clock it was made at,  *)
(* so all of it is over when the answer comes.                             *)
(***************************************************************************)
GotBy(candles, at) == \A t \in DOMAIN candles : candles[t].got \in Nat /\ candles[t].got <= at
PartitionSound(doc) == doc.updated \in Nat /\ GotBy(doc.candles, doc.updated)
FinalBefore(candles, to) == \A t \in DOMAIN candles : t \in Int /\ (t < to => candles[t].value = "final")
SnapshotSound(doc) ==
  doc # NoValue =>
    /\ doc.received \in Nat /\ GotBy(doc.raw, doc.received)
    /\ doc.request # NoValue =>
         /\ doc.request.to \in Int /\ doc.request.from \in Int
         /\ FinalBefore(doc.raw, doc.request.to)
StoredBy(parts, d, at) == d \in DOMAIN parts /\ parts[d].updated >= at

JobSound(q, parts, now) ==
  \/ q = Resting
  \/ /\ q = [pc |-> "persist", rows |-> q.rows, received |-> q.received, left |-> q.left, days |-> q.days]
     /\ q.received \in Nat /\ q.received <= now /\ GotBy(q.rows, q.received)
     /\ q.left \subseteq q.days /\ q.days \subseteq Days
     /\ \A d \in q.days \ q.left : StoredBy(parts, d, q.received)
PageSound(q, now) ==
  \/ q = Resting
  \/ /\ q.pc = "asked" /\ q.kind \in Kinds /\ q.empty \in BOOLEAN
     /\ q.request.from \in Int /\ q.request.to \in Int /\ q.request.to <= Minute(now)
  \/ q.pc = "install" /\ q.kind \in Kinds /\ SnapshotSound(q.record)

EvidenceInv ==
  /\ clock \in Nat
  /\ \A d \in DOMAIN partitions : PartitionSound(partitions[d]) /\ partitions[d].updated <= clock
  /\ DOMAIN index \subseteq Days /\ \A d \in DOMAIN index : index[d] \in Nat /\ StoredBy(partitions, d, index[d])
  /\ snapshot = [k \in Kinds |-> snapshot[k]] /\ \A k \in Kinds : SnapshotSound(snapshot[k])
  /\ batch = [j \in Jobs |-> batch[j]] /\ \A j \in Jobs : JobSound(batch[j], partitions, clock)
  /\ page = [p \in Pages |-> page[p]] /\ \A p \in Pages : PageSound(page[p], clock)

\* Minutes and days.
LEMMA DaysOfMinutes ==
  ASSUME NEW n \in Nat, NEW w \in Nat \ {0}, NEW t \in Int, 0 <= t, t < n * w
  PROVE  t \div w + 1 \in 1 .. n /\ (t \div w) * w <= t
<1> DEFINE k == t \div w
           r == t % w
<1>1. k \in Int /\ r \in Int /\ 0 <= r /\ r < w /\ t = w * k + r
  OBVIOUS
<1> HIDE DEF k, r
<1>2. k >= 0
  <2>1. SUFFICES ASSUME k <= -1 PROVE FALSE
    BY <1>1
  <2>2. w * k <= -w
    BY <1>1, <2>1
  <2> QED
    BY <1>1, <2>2
<1>3. k < n
  <2>1. SUFFICES ASSUME k >= n PROVE FALSE
    BY <1>1
  <2>2. w * k >= n * w
    BY <1>1, <2>1
  <2> QED
    BY <1>1, <2>2
<1>4. k + 1 \in 1 .. n /\ k * w <= t
  BY <1>1, <1>2, <1>3
<1> QED
  BY <1>4 DEF k

LEMMA EngineIsFixed ==
  /\ Days = 1 .. Cardinality(Days) /\ Cardinality(Days) \in Nat /\ DayMinutes \in Nat \ {0}
  /\ EndOfDays \in Int /\ EndOfDays = Cardinality(Days) * DayMinutes
  /\ \A d \in Int : Origin(d) \in Int
BY IndicatorAssumption DEF EndOfDays, Origin

LEMMA OriginsGrow ==
  ASSUME NEW d \in Int, NEW e \in Int, d <= e
  PROVE  Origin(d) <= Origin(e)
<1> DEFINE a == d - 1
           b == e - 1
<1>1. a \in Int /\ b \in Int /\ a <= b /\ DayMinutes \in Nat
  BY EngineIsFixed
<1> HIDE DEF a, b
<1>2. a * DayMinutes <= b * DayMinutes
  BY <1>1
<1> QED
  BY <1>2 DEF Origin, a, b

LEMMA MinuteIsNat == ASSUME NEW now \in Nat PROVE Minute(now) \in Nat
BY DEF Minute

LEMMA MinutesGrow == ASSUME NEW now \in Nat PROVE Minute(now) <= Minute(now + 1)
BY DEF Minute

\* What an answer holds: all that is before the minute it is given in is final.
LEMMA AnswersAre ==
  ASSUME clock \in Nat, NEW from \in Int, NEW to \in Int, NEW candles \in Answers(from, to)
  PROVE  /\ DOMAIN candles \subseteq from .. to
         /\ \A t \in DOMAIN candles : candles[t].got = clock /\ (t < Minute(clock) => candles[t].value = "final")
         /\ \A t \in DOMAIN candles : t < to \/ t < EndOfDays
<1> DEFINE past == {t \in from .. to - 1 : t < Minute(clock) /\ DayOf(t) \notin Holidays}
           late == {t \in past : t < Minute(clock) - 1}
           forming == {t \in from .. to : t = Minute(clock) /\ t < EndOfDays /\ DayOf(t) \notin Holidays}
<1>1. PICK some \in {late, past \cup forming} :
        candles = [t \in some |-> [value |-> IF t < Minute(clock) THEN "final" ELSE "forming", got |-> clock]]
  BY DEF Answers
<1>2. some \subseteq past \cup forming
  OBVIOUS
<1>3. past \cup forming \subseteq from .. to /\ \A t \in past \cup forming : t < to \/ t < EndOfDays
  OBVIOUS
<1>4. DOMAIN candles = some
  BY <1>1
<1>5. \A t \in some : candles[t] = [value |-> IF t < Minute(clock) THEN "final" ELSE "forming", got |-> clock]
  BY <1>1
<1> HIDE DEF past, late, forming
<1> QED
  BY <1>2, <1>3, <1>4, <1>5

LEMMA AnswersAreInDays ==
  ASSUME clock \in Nat, NEW d \in Days, NEW e \in Days, NEW candles \in Answers(Origin(d), Origin(e + 1)), NEW t \in DOMAIN candles
  PROVE  DayOf(t) \in Days
<1>1. d \in Int /\ e \in Int /\ 1 <= d /\ e + 1 <= Cardinality(Days) + 1 /\ Cardinality(Days) + 1 \in Int
  <2>1. d \in 1 .. Cardinality(Days) /\ e \in 1 .. Cardinality(Days) /\ Cardinality(Days) \in Nat
    BY EngineIsFixed
  <2> QED
    BY <2>1
<1>2. Origin(d) \in Int /\ Origin(e + 1) \in Int
  BY <1>1, EngineIsFixed
<1>3. t \in Origin(d) .. Origin(e + 1) /\ (t < Origin(e + 1) \/ t < EndOfDays)
  BY <1>2, AnswersAre
<1>4. Origin(1) <= Origin(d) /\ Origin(1) = 0
  BY <1>1, OriginsGrow, EngineIsFixed DEF Origin
<1>5. Origin(e + 1) <= EndOfDays
  BY <1>1, OriginsGrow DEF EndOfDays
<1>6. t \in Int /\ 0 <= t /\ t < Cardinality(Days) * DayMinutes
  <2>1. EndOfDays \in Int /\ EndOfDays = Cardinality(Days) * DayMinutes
    BY EngineIsFixed
  <2> HIDE DEF EndOfDays
  <2>2. t \in Int /\ 0 <= t /\ t < EndOfDays
    BY <1>2, <1>3, <1>4, <1>5, <2>1
  <2> QED
    BY <2>1, <2>2
<1> QED
  BY <1>6, DaysOfMinutes, EngineIsFixed DEF DayOf

\* The window of a request is over.
LEMMA WindowsAreOver ==
  ASSUME clock \in Nat, Minute(clock) < EndOfDays, NEW kind \in Kinds
  PROVE  /\ Window(kind).from \in Int /\ Window(kind).to \in Int
         /\ Window(kind).to <= Minute(clock)
<1>1. Minute(clock) \in Nat
  BY MinuteIsNat
<1>2. Today = DayOf(Minute(clock))
  BY <1>1, EngineIsFixed DEF Today
<1>3. Today \in Days /\ Origin(Today) <= Minute(clock)
  BY <1>1, <1>2, DaysOfMinutes, EngineIsFixed DEF DayOf, Origin
<1>4. Origin(Today) \in Int
  BY <1>3, EngineIsFixed
<1> QED
  BY <1>1, <1>3, <1>4 DEF Window

-----------------------------------------------------------------------------
\* Time passes and partitions grow newer: what is said of jobs and pages stays.
LEMMA JobsKeep ==
  ASSUME NEW q, NEW now \in Nat, NEW later \in Nat, now <= later, NEW parts, NEW more,
         \A d \in Days : \A at \in Nat : StoredBy(parts, d, at) => StoredBy(more, d, at),
         JobSound(q, parts, now)
  PROVE  JobSound(q, more, later)
BY DEF JobSound

LEMMA EvidenceStarts == EvidenceInit => EvidenceInv
BY DEF EvidenceInit, EvidenceInv, PartitionSound, SnapshotSound, JobSound, PageSound

LEMMA TickKeeps == EvidenceInv /\ Tick => EvidenceInv'
<1> SUFFICES ASSUME EvidenceInv, Tick PROVE EvidenceInv'
  OBVIOUS
<1>1. clock' = clock + 1 /\ UNCHANGED <<partitions, index, snapshot, batch, page>> /\ clock \in Nat
  BY DEF Tick, EvidenceInv
<1>2. \A d \in DOMAIN partitions : partitions[d].updated <= clock'
  BY <1>1 DEF EvidenceInv, PartitionSound
<1>3. \A j \in Jobs : JobSound(batch[j], partitions, clock')
  <2>1. clock' \in Nat /\ clock <= clock' /\ \A d \in Days : \A at \in Nat : StoredBy(partitions, d, at) => StoredBy(partitions, d, at)
    BY <1>1
  <2> QED
    BY <1>1, <2>1, JobsKeep DEF EvidenceInv
<1>4. Minute(clock) \in Nat /\ Minute(clock') \in Nat /\ Minute(clock) <= Minute(clock')
  BY <1>1, MinuteIsNat, MinutesGrow
<1>5. \A p \in Pages : PageSound(page[p], clock')
  BY <1>4 DEF EvidenceInv, PageSound
<1> QED
  BY <1>1, <1>2, <1>3, <1>5 DEF EvidenceInv

LEMMA CollectKeeps ==
  ASSUME EvidenceInv, NEW j \in Jobs, Collect(j)
  PROVE  EvidenceInv'
<1>1. PICK d \in Days, upTo \in Days :
        \E answer \in Answers(Origin(d), Origin(upTo + 1)) :
          batch' = [batch EXCEPT ![j] = [pc |-> "persist", rows |-> answer, received |-> clock,
                     left |-> {DayOf(t) : t \in DOMAIN answer}, days |-> {DayOf(t) : t \in DOMAIN answer}]]
  BY DEF Collect
<1>2. PICK candles \in Answers(Origin(d), Origin(upTo + 1)) :
        batch' = [batch EXCEPT ![j] = [pc |-> "persist", rows |-> candles, received |-> clock,
                   left |-> {DayOf(t) : t \in DOMAIN candles}, days |-> {DayOf(t) : t \in DOMAIN candles}]]
  BY <1>1
<1>3. clock \in Nat /\ UNCHANGED <<clock, partitions, index, snapshot, page>>
  BY DEF Collect, EvidenceInv
<1> DEFINE days == {DayOf(t) : t \in DOMAIN candles}
           q == [pc |-> "persist", rows |-> candles, received |-> clock, left |-> days, days |-> days]
<1>4. days \subseteq Days
  BY <1>1, <1>2, <1>3, AnswersAreInDays
<1>5. GotBy(candles, clock)
  <2>1. Origin(d) \in Int /\ Origin(upTo + 1) \in Int
    BY <1>1, <1>2, EngineIsFixed
  <2>2. \A t \in DOMAIN candles : candles[t].got = clock
    BY <1>1, <1>2, <1>3, <2>1, AnswersAre
  <2> QED
    BY <1>3, <2>2 DEF GotBy
<1> HIDE DEF days
<1>6. JobSound(q, partitions, clock)
  BY <1>3, <1>4, <1>5 DEF JobSound
<1>7. batch' = [batch EXCEPT ![j] = q]
  BY <1>2 DEF days
<1> HIDE DEF q
<1>8. batch' = [k \in Jobs |-> batch'[k]] /\ \A k \in Jobs : JobSound(batch'[k], partitions, clock)
  BY <1>6, <1>7 DEF EvidenceInv
<1> QED
  BY <1>3, <1>8 DEF EvidenceInv

LEMMA PersistKeeps ==
  ASSUME EvidenceInv, NEW j \in Jobs, Persist(j)
  PROVE  EvidenceInv'
<1> DEFINE q == batch[j]
<1>1. PICK day \in q.left :
        /\ partitions' = [d \in DOMAIN partitions \cup {day} |-> IF d = day THEN Merged(q.rows, day) ELSE partitions[d]]
        /\ batch' = [batch EXCEPT ![j].left = @ \ {day}]
  BY DEF Persist
<1>2. clock \in Nat /\ UNCHANGED <<clock, index, snapshot, page>>
  BY DEF Persist, EvidenceInv
<1>3. /\ q = [pc |-> "persist", rows |-> q.rows, received |-> q.received, left |-> q.left, days |-> q.days]
      /\ q.received \in Nat /\ q.received <= clock /\ GotBy(q.rows, q.received)
      /\ q.left \subseteq q.days /\ q.days \subseteq Days
      /\ \A d \in q.days \ q.left : StoredBy(partitions, d, q.received)
  BY DEF Persist, EvidenceInv, JobSound, Resting
<1> DEFINE new == Merged(q.rows, day)
<1>4. /\ day \in Days
      /\ partitions' = [d \in DOMAIN partitions \cup {day} |-> IF d = day THEN new ELSE partitions[d]]
  BY <1>1, <1>3
<1>5. new.updated = clock /\ PartitionSound(new)
  <2> DEFINE mine == [t \in {u \in DOMAIN q.rows : DayOf(u) = day} |-> q.rows[t]]
             kept == IF day \in DOMAIN partitions THEN partitions[day].candles ELSE <<>>
             all == [t \in DOMAIN mine \cup DOMAIN kept |-> IF t \in DOMAIN mine THEN mine[t] ELSE kept[t]]
  <2>1. new = [updated |-> clock, candles |-> all]
    BY DEF Merged
  <2>2. \A t \in DOMAIN mine : mine[t].got \in Nat /\ mine[t].got <= clock
    BY <1>2, <1>3 DEF GotBy
  <2>3. \A t \in DOMAIN kept : kept[t].got \in Nat /\ kept[t].got <= clock
    <3>1. CASE day \notin DOMAIN partitions
      BY <3>1
    <3>2. CASE day \in DOMAIN partitions
      BY <1>2, <1>4, <3>2 DEF EvidenceInv, PartitionSound, GotBy
    <3> QED
      BY <3>1, <3>2
  <2>4. DOMAIN all = DOMAIN mine \cup DOMAIN kept /\ \A t \in DOMAIN all : all[t] = IF t \in DOMAIN mine THEN mine[t] ELSE kept[t]
    OBVIOUS
  <2> HIDE DEF mine, kept, all
  <2>5. GotBy(all, clock)
    BY <2>2, <2>3, <2>4 DEF GotBy
  <2>6. new.updated = clock /\ new.candles = all
    BY <2>1
  <2> HIDE DEF new
  <2> QED
    BY <1>2, <2>5, <2>6 DEF PartitionSound
<1> HIDE DEF new
<1>6. DOMAIN partitions' = DOMAIN partitions \cup {day} /\ partitions'[day] = new
      /\ \A d \in DOMAIN partitions \ {day} : partitions'[d] = partitions[d]
  BY <1>4
<1>7. \A d \in DOMAIN partitions' : PartitionSound(partitions'[d]) /\ partitions'[d].updated <= clock
  BY <1>2, <1>5, <1>6 DEF EvidenceInv
<1>8. \A d \in Days : \A at \in Nat : StoredBy(partitions, d, at) => StoredBy(partitions', d, at)
  <2> TAKE d \in Days
  <2> TAKE at \in Nat
  <2>1. CASE d # day
    BY <1>6, <2>1 DEF StoredBy
  <2>2. CASE d = day
    BY <1>2, <1>5, <1>6, <2>2 DEF StoredBy, EvidenceInv, PartitionSound
  <2> QED
    BY <2>1, <2>2
<1>9. \A d \in DOMAIN index : StoredBy(partitions', d, index[d])
  BY <1>8 DEF EvidenceInv
<1> DEFINE w == [pc |-> "persist", rows |-> q.rows, received |-> q.received, left |-> q.left \ {day}, days |-> q.days]
<1>10. batch' = [batch EXCEPT ![j] = w]
  <2>1. [q EXCEPT !.left = @ \ {day}] = w
    BY <1>3
  <2> QED
    BY <1>1, <2>1 DEF EvidenceInv
<1>11. JobSound(w, partitions', clock)
  <2>1. StoredBy(partitions', day, q.received)
    BY <1>3, <1>5, <1>6 DEF StoredBy
  <2>2. \A d \in q.days \ (q.left \ {day}) : StoredBy(partitions', d, q.received)
    BY <1>3, <1>8, <2>1
  <2> QED
    BY <1>3, <2>2 DEF JobSound
<1>12. \A k \in Jobs : JobSound(batch[k], partitions', clock)
  <2>1. clock <= clock
    BY <1>2
  <2> QED
    BY <1>2, <1>8, <2>1, JobsKeep DEF EvidenceInv
<1> HIDE DEF w
<1>13. batch' = [k \in Jobs |-> batch'[k]] /\ \A k \in Jobs : JobSound(batch'[k], partitions', clock)
  BY <1>10, <1>11, <1>12 DEF EvidenceInv
<1> QED
  BY <1>2, <1>7, <1>9, <1>13 DEF EvidenceInv

LEMMA PublishKeeps ==
  ASSUME EvidenceInv, NEW j \in Jobs, Publish(j)
  PROVE  EvidenceInv'
<1> DEFINE q == batch[j]
           named == DOMAIN index \cup q.days
           entry(d) == IF d \in q.days /\ (d \notin DOMAIN index \/ index[d] <= q.received)
                       THEN q.received ELSE index[d]
<1>1. /\ index' = [d \in Newest(IndexKept, named) |-> entry(d)]
      /\ batch' = [batch EXCEPT ![j] = Resting]
      /\ UNCHANGED <<clock, partitions, snapshot, page>>
  BY DEF Publish
<1>2. q.received \in Nat /\ q.days \subseteq Days /\ \A d \in q.days : StoredBy(partitions, d, q.received)
  <2>1. q.pc = "persist" /\ q.left = {}
    BY DEF Publish, Persisted
  <2>2. q.received \in Nat /\ q.days \subseteq Days /\ \A d \in q.days \ q.left : StoredBy(partitions, d, q.received)
    BY <2>1 DEF EvidenceInv, JobSound, Resting
  <2> QED
    BY <2>1, <2>2
<1>3. DOMAIN index' \subseteq named /\ named \subseteq Days
  BY <1>1, <1>2 DEF Newest, EvidenceInv
<1>4. \A d \in DOMAIN index' : index'[d] \in Nat /\ StoredBy(partitions, d, index'[d])
  <2> SUFFICES ASSUME NEW d \in DOMAIN index' PROVE index'[d] \in Nat /\ StoredBy(partitions, d, index'[d])
    OBVIOUS
  <2>1. index'[d] = entry(d) /\ d \in named
    BY <1>1, <1>3
  <2>2. CASE d \in q.days /\ (d \notin DOMAIN index \/ index[d] <= q.received)
    BY <1>2, <2>1, <2>2
  <2>3. CASE ~(d \in q.days /\ (d \notin DOMAIN index \/ index[d] <= q.received))
    <3>1. d \in DOMAIN index /\ index'[d] = index[d]
      BY <2>1, <2>3
    <3> QED
      BY <3>1 DEF EvidenceInv
  <2> QED
    BY <2>2, <2>3
<1>5. batch' = [k \in Jobs |-> batch'[k]] /\ \A k \in Jobs : JobSound(batch'[k], partitions, clock)
  BY <1>1 DEF EvidenceInv, JobSound
<1> QED
  BY <1>1, <1>3, <1>4, <1>5 DEF EvidenceInv

\* A page moves on, and perhaps a snapshot is replaced.
LEMMA PagesKeep ==
  ASSUME EvidenceInv, NEW p \in Pages, NEW q, PageSound(q, clock), page' = [page EXCEPT ![p] = q],
         UNCHANGED <<clock, partitions, index, batch>>,
         snapshot' = [k \in Kinds |-> snapshot'[k]], \A k \in Kinds : SnapshotSound(snapshot'[k])
  PROVE  EvidenceInv'
<1>1. page' = [r \in Pages |-> page'[r]] /\ \A r \in Pages : PageSound(page'[r], clock)
  BY DEF EvidenceInv
<1> QED
  BY <1>1 DEF EvidenceInv

LEMMA RefreshKeeps ==
  ASSUME EvidenceInv, NEW p \in Pages, Refresh(p)
  PROVE  EvidenceInv'
<1>1. PICK kind \in Kinds :
        page' = [page EXCEPT ![p] = [pc |-> "asked", kind |-> kind, day |-> Today, request |-> Window(kind),
                                     empty |-> kind = "session" /\ Outside(kind)]]
  BY DEF Refresh
<1> DEFINE q == [pc |-> "asked", kind |-> kind, day |-> Today, request |-> Window(kind),
                 empty |-> kind = "session" /\ Outside(kind)]
<1>2. clock \in Nat /\ Minute(clock) < EndOfDays
  BY DEF EvidenceInv, Refresh
<1>3. q.pc = "asked" /\ q.kind = kind /\ q.request = Window(kind) /\ q.empty \in BOOLEAN
  OBVIOUS
<1>4. PageSound(q, clock)
  BY <1>2, <1>3, WindowsAreOver DEF PageSound
<1> HIDE DEF q
<1>5. page' = [page EXCEPT ![p] = q]
  BY <1>1 DEF q
<1> QED
  BY <1>4, <1>5, PagesKeep DEF Refresh, EvidenceInv

LEMMA ReturnKeeps ==
  ASSUME EvidenceInv, NEW p \in Pages, Return(p)
  PROVE  EvidenceInv'
<1> DEFINE q == page[p]
<1>1. /\ q.kind \in Kinds /\ q.empty \in BOOLEAN
      /\ q.request.from \in Int /\ q.request.to \in Int /\ q.request.to <= Minute(clock)
  BY DEF Return, EvidenceInv, PageSound, Resting
<1>2. clock \in Nat /\ UNCHANGED <<clock, partitions, index, batch, snapshot>>
  BY DEF EvidenceInv, Return
<1>3. CASE page' = [page EXCEPT ![p] = Resting]
  BY <1>2, <1>3, PagesKeep DEF EvidenceInv, PageSound
<1>4. ASSUME NEW candles \in (IF q.empty THEN {<<>>} ELSE Answers(q.request.from, q.request.to)),
             page' = [page EXCEPT ![p] = [pc |-> "install", kind |-> q.kind,
                     record |-> [day |-> q.day, request |-> IF q.empty THEN NoValue ELSE q.request,
                                 received |-> clock, raw |-> candles]]]
      PROVE  EvidenceInv'
  <2> DEFINE doc == [day |-> q.day, request |-> IF q.empty THEN NoValue ELSE q.request, received |-> clock, raw |-> candles]
             w == [pc |-> "install", kind |-> q.kind, record |-> doc]
  <2>1. CASE q.empty
    <3>1. candles = <<>>
      BY <1>4, <2>1
    <3>2. DOMAIN candles = {}
      BY <3>1
    <3> QED
      <4>1. SnapshotSound(doc)
        BY <1>2, <2>1, <3>2 DEF SnapshotSound, GotBy
      <4>2. PageSound(w, clock)
        BY <1>1, <4>1 DEF PageSound
      <4> HIDE DEF w
      <4>3. page' = [page EXCEPT ![p] = w]
        BY <1>4 DEF w
      <4> QED
        BY <1>2, <4>2, <4>3, PagesKeep DEF EvidenceInv
  <2>2. CASE ~q.empty
    <3>1. candles \in Answers(q.request.from, q.request.to)
      BY <1>4, <2>2
    <3>2. /\ DOMAIN candles \subseteq q.request.from .. q.request.to
          /\ \A t \in DOMAIN candles : candles[t].got = clock /\ (t < Minute(clock) => candles[t].value = "final")
      BY <1>1, <1>2, <3>1, AnswersAre
    <3>3. GotBy(candles, clock)
      BY <1>2, <3>2 DEF GotBy
    <3>4. FinalBefore(candles, q.request.to)
      <4> SUFFICES ASSUME NEW t \in DOMAIN candles PROVE t \in Int /\ (t < q.request.to => candles[t].value = "final")
        BY DEF FinalBefore
      <4>1. t \in Int /\ Minute(clock) \in Int
        BY <1>1, <1>2, <3>2, MinuteIsNat
      <4> QED
        BY <1>1, <3>2, <4>1
    <3>5. doc.request = q.request /\ doc.received = clock /\ doc.raw = candles
      BY <2>2
    <3> HIDE DEF doc
    <3>6. SnapshotSound(doc)
      BY <1>1, <1>2, <3>3, <3>4, <3>5 DEF SnapshotSound
    <3>7. PageSound(w, clock)
      BY <1>1, <3>6 DEF PageSound
    <3> HIDE DEF w
    <3>8. page' = [page EXCEPT ![p] = w]
      BY <1>4 DEF w, doc
    <3> QED
      BY <1>2, <3>7, <3>8, PagesKeep DEF EvidenceInv
  <2> QED
    BY <2>1, <2>2, <1>1
<1> QED
  BY <1>3, <1>4 DEF Return

LEMMA InstallKeeps ==
  ASSUME EvidenceInv, NEW p \in Pages, Install(p)
  PROVE  EvidenceInv'
<1> DEFINE q == page[p]
           doc == Installed(q.kind, snapshot[q.kind], q.record)
<1>1. q.kind \in Kinds /\ SnapshotSound(q.record)
  BY DEF Install, EvidenceInv, PageSound, Resting
<1>2. /\ snapshot' = [snapshot EXCEPT ![q.kind] = doc]
      /\ page' = [page EXCEPT ![p] = Resting] /\ UNCHANGED <<clock, partitions, index, batch>>
  BY <1>1 DEF Install, EvidenceInv
<1>3. SnapshotSound(doc)
  BY <1>1 DEF Installed, EvidenceInv
<1> HIDE DEF doc
<1>4. snapshot' = [k \in Kinds |-> snapshot'[k]] /\ \A k \in Kinds : SnapshotSound(snapshot'[k])
  BY <1>1, <1>2, <1>3 DEF EvidenceInv
<1> QED
  BY <1>2, <1>4, PagesKeep DEF PageSound

LEMMA EvidenceSteps == EvidenceInv /\ [EvidenceNext]_evidenceVars => EvidenceInv'
<1> SUFFICES ASSUME EvidenceInv, [EvidenceNext]_evidenceVars PROVE EvidenceInv'
  OBVIOUS
<1>1. CASE UNCHANGED evidenceVars
  BY <1>1 DEF evidenceVars, EvidenceInv
<1>2. CASE Legacy
  BY <1>2 DEF Legacy, EvidenceInv
<1> QED
  BY <1>1, <1>2, TickKeeps, CollectKeeps, PersistKeeps, PublishKeeps, RefreshKeeps, ReturnKeeps, InstallKeeps DEF EvidenceNext

-----------------------------------------------------------------------------
LEMMA SupersededAre ==
  ASSUME NEW said, NEW doc, NEW at, NEW r \in Superseded(said, doc, at)
  PROVE  \/ r \in said
         \/ /\ doc # NoValue /\ doc.request # NoValue /\ ~(doc.received > at)
            /\ r \in Told("snapshot", InWindow(doc), at)
BY DEF Superseded

\* A row of a snapshot is final, and was received by the clock it is read at.
LEMMA SnapshotRows ==
  ASSUME NEW doc, SnapshotSound(doc), doc # NoValue, doc.request # NoValue, NEW at \in Nat, ~(doc.received > at),
         NEW r \in Told("snapshot", InWindow(doc), at)
  PROVE  r.value = "final" /\ r.got <= at /\ r.source = "snapshot"
<1> DEFINE candles == InWindow(doc)
<1>1. PICK t \in DOMAIN candles : r = [t |-> t, source |-> "snapshot", value |-> candles[t].value, got |-> candles[t].got]
  BY DEF Told
<1>2. t \in DOMAIN doc.raw /\ t \in doc.request.from .. doc.request.to - 1 /\ candles[t] = doc.raw[t]
  BY <1>1 DEF InWindow
<1>3. doc.request.to \in Int /\ doc.request.from \in Int /\ doc.received \in Nat
  BY DEF SnapshotSound
<1>4. t < doc.request.to
  BY <1>2, <1>3
<1>5. doc.raw[t].value = "final" /\ doc.raw[t].got \in Nat /\ doc.raw[t].got <= doc.received
  BY <1>2, <1>4 DEF SnapshotSound, FinalBefore, GotBy
<1>6. doc.raw[t].got <= at
  BY <1>3, <1>5
<1> QED
  BY <1>1, <1>2, <1>5, <1>6

LEMMA CollectedRows ==
  ASSUME EvidenceInv, NEW at \in Nat, NEW d \in HistoryDays(at),
         NEW r \in Told("collected", partitions[d].candles, at)
  PROVE  r.got <= at /\ r.source = "collected"
<1> DEFINE candles == partitions[d].candles
<1>1. PICK t \in DOMAIN candles : r = [t |-> t, source |-> "collected", value |-> candles[t].value, got |-> candles[t].got]
  BY DEF Told
<1>2. d \in DOMAIN partitions /\ partitions[d].updated <= at
  BY DEF HistoryDays, WrittenBy
<1>3. partitions[d].updated \in Nat /\ candles[t].got \in Nat /\ candles[t].got <= partitions[d].updated
  BY <1>1, <1>2 DEF EvidenceInv, PartitionSound, GotBy
<1>4. candles[t].got <= at
  BY <1>2, <1>3
<1> QED
  BY <1>1, <1>4

LEMMA SavedRows ==
  ASSUME EvidenceInv, NEW at \in Nat, NEW r \in SavedCandles(at)
  PROVE  /\ r.source = "snapshot" => r.value = "final"
         /\ r.source # "legacy" => r.got <= at
<1> DEFINE warm == Superseded(Retained(at), snapshot["warmup"], at)
<1>1. r \in Superseded(warm, snapshot["session"], at)
  BY DEF SavedCandles, Said
<1>2. SnapshotSound(snapshot["warmup"]) /\ SnapshotSound(snapshot["session"])
  BY DEF EvidenceInv, Kinds
<1>3. CASE r \in Retained(at)
  <2>1. \/ \E x \in legacy : r \in Told("legacy", x.rows, at)
        \/ \E d \in HistoryDays(at) : r \in Told("collected", partitions[d].candles, at)
    BY <1>3 DEF Retained
  <2>2. CASE \E x \in legacy : r \in Told("legacy", x.rows, at)
    BY <2>2 DEF Told
  <2>3. CASE \E d \in HistoryDays(at) : r \in Told("collected", partitions[d].candles, at)
    BY <2>3, CollectedRows
  <2> QED
    BY <2>1, <2>2, <2>3
<1>4. CASE r \notin Retained(at)
  <2>1. r \in warm \/ r \notin warm
    OBVIOUS
  <2>2. CASE r \in warm
    BY <1>2, <1>4, <2>2, SupersededAre, SnapshotRows
  <2> HIDE DEF warm
  <2>3. CASE r \notin warm
    BY <1>1, <1>2, <2>3, SupersededAre, SnapshotRows
  <2> QED
    BY <2>2, <2>3
<1> QED
  BY <1>3, <1>4

\* research.saved_candles, research_archive.py, session_chart.py: research reads
\* what was final and known at its clock, and the index names what is stored.
THEOREM EvidenceIsSound == EvidenceInit /\ [][EvidenceNext]_evidenceVars => []EvidenceSound
<1>1. EvidenceInv => EvidenceSound
  <2> SUFFICES ASSUME EvidenceInv PROVE EvidenceSound
    OBVIOUS
  <2>1. clock \in Nat
    BY DEF EvidenceInv
  <2>2. SnapshotIsFinal
    BY <2>1, SavedRows DEF SnapshotIsFinal
  <2>3. ReplaySeesNoLater
    BY <2>1, SavedRows DEF ReplaySeesNoLater
  <2>4. IndexBacked
    BY DEF EvidenceInv, IndexBacked, StoredBy
  <2> QED
    BY <2>2, <2>3, <2>4 DEF EvidenceSound
<1> QED
  BY <1>1, EvidenceStarts, EvidenceSteps, PTL

(***************************************************************************)
(* What the trading room shows and writes down, for any number of ticks,   *)
(* tabs and failures.                                                      *)
(*                                                                         *)
(* A feed that a refresh left unfinished is of an earlier minute than the  *)
(* newest tick, so the next tick does not take it for current; what is      *)
(* decided and what is shown are of one instant; and each tab holds the     *)
(* rows of all ticks in one order, out of which the batch in flight and    *)
(* the queue are the end.                                                  *)
(***************************************************************************)
Ticks == [pc : {"idle", "quote", "spot", "future", "record"}, now : Nat]
Feeds == [at : Nat \cup {Missing}, bars : Nat \cup {Missing}, vwap : Nat \cup {Missing}]
RoomTyped ==
  /\ instant \in Nat /\ failed \in BOOLEAN /\ overlapped \in BOOLEAN
  /\ feed \in Feeds /\ call \in [Callers -> Ticks]
  /\ \A c \in Callers : call[c].now <= instant
  /\ shown \in Features \cup {Missing} /\ decision \in Decisions \cup {Missing}

\* The decision is about what is shown; a failure has withdrawn its setup.
Decided ==
  decision # Missing => shown # Missing /\ decision.at = shown.at /\ (failed => decision.kind = "WAIT")
Answered ==
  /\ reply.at \in Nat \cup {Missing} /\ reply.when \in Nat
  /\ reply.kind = "SETUP" => reply.when <= reply.at + MaxAge

\* One tick at a time: the newest.  An unfinished refresh is of an earlier minute.
IsNewest(c) == \A d \in Callers : call[d].now <= call[c].now
Whole(f) == f.bars = f.at /\ f.vwap \in {Missing, f.at}
Old(f) == f.at = Missing \/ \E c \in Callers : f.at < MinuteOf(call[c].now)
Alone ==
  ~overlapped =>
    /\ \A c \in Callers : call[c].pc # "idle" => IsNewest(c) /\ \A d \in Callers \ {c} : call[d].pc = "idle"
    /\ Whole(feed) \/ Old(feed)
    /\ feed.at # Missing => \E c \in Callers : feed.at <= MinuteOf(call[c].now)
    /\ \A c \in Callers :
         /\ call[c].pc = "spot" => feed.bars = Missing /\ feed.vwap = Missing
         /\ call[c].pc = "future" =>
              feed.bars = MinuteOf(call[c].now) /\ feed.at = feed.bars /\ feed.vwap = Missing

LiveInv == RoomTyped /\ Decided /\ Answered /\ CurrentVwap /\ Alone

LEMMA MinutesOfInstants ==
  ASSUME NEW a \in Nat, NEW b \in Nat, a <= b
  PROVE  MinuteOf(a) \in Nat /\ MinuteOf(a) <= MinuteOf(b)
<1> DEFINE p == PerMinute
<1>1. p \in Nat \ {0}
  BY RoomAssumption
<1> HIDE DEF p
<1>2. \A t \in Nat : t \div p \in Int /\ t % p \in Int /\ 0 <= t % p /\ t % p < p /\ t = p * (t \div p) + (t % p)
  BY <1>1
<1> DEFINE k == a \div p
           l == b \div p
<1>3. /\ k \in Int /\ l \in Int /\ a = p * k + (a % p) /\ b = p * l + (b % p)
      /\ 0 <= a % p /\ a % p < p /\ 0 <= b % p /\ b % p < p /\ a % p \in Int /\ b % p \in Int
  BY <1>2
<1> DEFINE r == a % p
           s == b % p
<1>31. /\ k \in Int /\ l \in Int /\ a = p * k + r /\ b = p * l + s
      /\ 0 <= r /\ r < p /\ 0 <= s /\ s < p /\ r \in Int /\ s \in Int
  BY <1>3
<1> HIDE DEF k, l, r, s
<1>4. k >= 0
  <2>1. SUFFICES ASSUME k <= -1 PROVE FALSE
    BY <1>31
  <2>2. p * k <= -p
    BY <1>1, <1>31, <2>1
  <2> QED
    BY <1>1, <1>31, <2>2
<1>5. k <= l
  <2>1. SUFFICES ASSUME k >= l + 1 PROVE FALSE
    BY <1>31
  <2>2. p * k >= p * l + p
    BY <1>1, <1>31, <2>1
  <2> QED
    BY <1>1, <1>31, <2>2
<1> QED
  BY <1>31, <1>4, <1>5 DEF k, l, p, MinuteOf

\* The two halves of a missing value.
LEMMA MissingIsNone ==
  /\ Missing \notin Nat /\ Missing \notin Features /\ Missing \notin Decisions
  /\ MaxAge \in Nat /\ PerMinute \in Nat \ {0}
BY RoomAssumption

LEMMA RoomBegins == RoomInit => LiveInv
<1> SUFFICES ASSUME RoomInit PROVE LiveInv
  OBVIOUS
<1> USE DEF RoomInit, NoTick
<1>1. RoomTyped
  <2>1. call \in [Callers -> Ticks] /\ \A c \in Callers : call[c].now <= instant
    BY DEF Ticks
  <2>2. feed \in Feeds
    BY DEF Feeds
  <2> QED
    BY <2>1, <2>2 DEF RoomTyped
<1>2. Decided /\ Answered /\ CurrentVwap
  BY DEF Decided, Answered, CurrentVwap
<1>3. Alone
  BY DEF Alone, Whole
<1> QED
  BY <1>1, <1>2, <1>3 DEF LiveInv

\* An instant passes.
LEMMA PassKeeps == ASSUME LiveInv, Pass PROVE LiveInv'
<1> USE DEF LiveInv, Pass, feeding
<1>1. RoomTyped'
  BY DEF RoomTyped, Ticks
<1>2. Decided' /\ Answered' /\ CurrentVwap' /\ Alone'
  BY DEF Decided, Answered, CurrentVwap, Alone, IsNewest, Whole, Old
<1> QED
  BY <1>1, <1>2

\* What a reader gets is fresh: the gate withdraws the rest.
LEMMA GateIsSound ==
  ASSUME RoomTyped, Decided, NEW now \in Nat, NEW fail \in BOOLEAN
  PROVE  LET d == Refreshed(now, fail) IN
         /\ d \in Decisions \cup {Missing} /\ (decision # Missing => d # Missing)
         /\ d # Missing => decision # Missing /\ shown # Missing /\ d.at = shown.at
         /\ d # Missing /\ (fail \/ failed) => d.kind = "WAIT"
         /\ d # Missing /\ d.kind = "SETUP" => now <= d.at + MaxAge
<1>1. CASE decision = Missing
  BY <1>1, MissingIsNone DEF Refreshed, Decisions
<1>2. CASE decision # Missing
  <2>1. /\ decision \in Decisions /\ shown \in Features /\ decision.at = shown.at
        /\ decision.at \in Nat /\ decision.kind \in {"SETUP", "WAIT"}
    BY <1>2, MissingIsNone DEF RoomTyped, Decided, Decisions
  <2>2. shown.at \in Nat /\ shown # Missing
    BY <2>1, MissingIsNone DEF Features
  <2>3. CASE Blocked(now, fail)
    <3>1. Refreshed(now, fail) = [decision EXCEPT !.kind = "WAIT"]
      BY <1>2, <2>3 DEF Refreshed
    <3>2. Refreshed(now, fail) \in Decisions /\ Refreshed(now, fail).at = shown.at /\ Refreshed(now, fail).kind = "WAIT"
      BY <3>1, <2>1 DEF Decisions
    <3> QED
      BY <3>2, <1>2, <2>2, MissingIsNone
  <2>4. CASE ~Blocked(now, fail)
    <3>1. Refreshed(now, fail) = decision
      BY <2>4 DEF Refreshed
    <3>2. ~fail /\ now <= shown.at + MaxAge
      BY <2>2, <2>4, MissingIsNone DEF Blocked, Age
    <3> QED
      BY <3>1, <3>2, <1>2, <2>1, <2>2, MissingIsNone DEF Decided
  <2> QED
    BY <2>3, <2>4
<1> QED
  BY <1>1, <1>2

\* What a request of the dashboard, or its mirror, changes.
LEMMA ReadingKeeps ==
  ASSUME LiveInv, decision' = Refreshed(instant, failed),
         \/ reply' = [kind |-> decision'.kind, at |-> decision'.at, when |-> instant] /\ decision' # Missing
         \/ reply' = reply,
         UNCHANGED <<instant, feed, call, shown, failed, overlapped>>
  PROVE  LiveInv'
<1>1. RoomTyped /\ Decided /\ instant \in Nat /\ failed \in BOOLEAN
  BY DEF LiveInv, RoomTyped
<1>2. /\ decision' \in Decisions \cup {Missing}
      /\ decision' # Missing => shown # Missing /\ decision'.at = shown.at
      /\ decision' # Missing /\ failed => decision'.kind = "WAIT"
      /\ decision' # Missing /\ decision'.kind = "SETUP" => instant <= decision'.at + MaxAge
  BY <1>1, GateIsSound
<1>3. RoomTyped' /\ Decided'
  BY <1>1, <1>2 DEF RoomTyped, Decided
<1>4. Answered'
  <2>1. CASE reply' = [kind |-> decision'.kind, at |-> decision'.at, when |-> instant] /\ decision' # Missing
    BY <2>1, <1>1, <1>2 DEF Answered, Decisions
  <2>2. CASE reply' = reply
    BY <2>2 DEF LiveInv, Answered
  <2> QED
    BY <2>1, <2>2
<1>5. CurrentVwap' /\ Alone'
  BY DEF LiveInv, CurrentVwap, Alone, IsNewest, Whole, Old
<1> QED
  BY <1>3, <1>4, <1>5 DEF LiveInv

\* A tick begins with a time that none has.
LEMMA BeginKeeps == ASSUME LiveInv, NEW c \in Callers, Begin(c) PROVE LiveInv'
<1>1. /\ instant \in Nat /\ call \in [Callers -> Ticks] /\ RoomTyped /\ call[c].pc = "idle"
      /\ \A d \in Callers : call[d].now < instant /\ call[d].now \in Nat
      /\ call' = [call EXCEPT ![c] = [pc |-> "quote", now |-> instant]]
      /\ UNCHANGED <<instant, feed, shown, decision, failed, reply>>
      /\ overlapped' = (overlapped \/ \E d \in Callers : call[d].pc # "idle")
  BY DEF LiveInv, RoomTyped, Begin, Ticks
<1>2. /\ call'[c] = [pc |-> "quote", now |-> instant]
      /\ \A d \in Callers : d # c => call'[d] = call[d]
      /\ \A d \in Callers : call'[d].now \in Nat /\ call[d].now <= call'[d].now /\ call'[d].now <= instant
  BY <1>1
<1>3. RoomTyped'
  BY <1>1, <1>2 DEF RoomTyped, Ticks
<1>4. Decided' /\ Answered' /\ CurrentVwap'
  BY <1>1 DEF LiveInv, Decided, Answered, CurrentVwap
<1>5. Alone'
  <2>1. SUFFICES ASSUME ~overlapped'
                 PROVE  /\ \A e \in Callers : call'[e].pc # "idle" =>
                             (\A d \in Callers : call'[d].now <= call'[e].now)
                             /\ \A d \in Callers \ {e} : call'[d].pc = "idle"
                        /\ Whole(feed) \/ feed.at = Missing \/ \E e \in Callers : feed.at < MinuteOf(call'[e].now)
                        /\ feed.at # Missing => \E e \in Callers : feed.at <= MinuteOf(call'[e].now)
                        /\ \A e \in Callers : call'[e].pc \notin {"spot", "future"}
    BY <1>1 DEF Alone, IsNewest, Whole, Old
  <2>2. ~overlapped /\ \A d \in Callers : call[d].pc = "idle"
    BY <1>1, <2>1
  <2>3. \A d \in Callers : /\ MinuteOf(call[d].now) \in Nat /\ MinuteOf(call'[d].now) \in Nat
                           /\ MinuteOf(call[d].now) <= MinuteOf(call'[d].now)
    BY <1>1, <1>2, MinutesOfInstants
  <2>4. feed.at \in Nat \cup {Missing}
    BY <1>1 DEF RoomTyped, Feeds
  <2> QED
    BY <1>2, <2>2, <2>3, <2>4 DEF LiveInv, Alone, Old
<1> QED
  BY <1>3, <1>4, <1>5 DEF LiveInv

\* One caller goes on within its tick: what stays, and who is the newest.
LEMMA CallerIsNewest ==
  ASSUME LiveInv, NEW c \in Callers, call[c].pc # "idle", ~overlapped
  PROVE  /\ IsNewest(c) /\ \A d \in Callers \ {c} : call[d].pc = "idle"
         /\ MinuteOf(call[c].now) \in Nat
         /\ Old(feed) /\ feed.at # Missing => feed.at < MinuteOf(call[c].now)
         /\ feed.at # Missing => feed.at <= MinuteOf(call[c].now)
<1>1. /\ IsNewest(c) /\ \A d \in Callers \ {c} : call[d].pc = "idle"
      /\ feed.at # Missing => \E d \in Callers : feed.at <= MinuteOf(call[d].now)
  BY DEF LiveInv, Alone
<1>2. feed.at \in Nat \cup {Missing} /\ \A d \in Callers : call[d].now \in Nat
  BY DEF LiveInv, RoomTyped, Feeds, Ticks
<1>3. \A d \in Callers : /\ MinuteOf(call[d].now) \in Nat /\ MinuteOf(call[c].now) \in Nat
                         /\ MinuteOf(call[d].now) <= MinuteOf(call[c].now)
  BY <1>1, <1>2, MinutesOfInstants DEF IsNewest
<1> QED
  BY <1>1, <1>2, <1>3 DEF Old

\* The features and the decision of a tick.
LEMMA EvaluationKeeps ==
  ASSUME LiveInv, NEW c \in Callers, NEW f \in Feeds, call[c].pc # "idle", Evaluated(c, f),
         UNCHANGED <<instant, overlapped, reply>>,
         ~overlapped => f.bars = MinuteOf(call[c].now) /\ f.at = f.bars /\ f.vwap \in {Missing, f.bars}
  PROVE  LiveInv'
<1>1. /\ instant \in Nat /\ call \in [Callers -> Ticks] /\ RoomTyped /\ call[c].now \in Nat
      /\ call' = [call EXCEPT ![c].pc = "record"] /\ feed' = f /\ failed' = FALSE
      /\ shown' = [at |-> call[c].now, bars |-> f.bars, vwap |-> f.vwap]
      /\ \E kind \in {"SETUP", "WAIT"} : decision' = [kind |-> kind, at |-> call[c].now]
  BY DEF LiveInv, RoomTyped, Evaluated, Ticks
<1>2. /\ call' \in [Callers -> Ticks] /\ call'[c].pc = "record"
      /\ \A d \in Callers : d # c => call'[d] = call[d]
      /\ \A d \in Callers : call'[d].now = call[d].now /\ call[d].now \in Nat
  BY <1>1 DEF Ticks
<1>3. shown' \in Features /\ decision' \in Decisions /\ shown' # Missing /\ decision'.at = shown'.at
  <2>1. f.vwap \in Nat \cup {Missing} /\ f.bars \in Nat \cup {Missing}
    BY DEF Feeds
  <2> QED
    BY <1>1, <2>1, MissingIsNone DEF Features, Decisions
<1>4. RoomTyped'
  BY <1>1, <1>2, <1>3 DEF RoomTyped
<1>5. Decided'
  BY <1>1, <1>3 DEF Decided
<1>6. Answered'
  BY DEF LiveInv, Answered
<1>7. CurrentVwap'
  BY <1>1 DEF CurrentVwap
<1>8. Alone'
  <2>1. SUFFICES ASSUME ~overlapped
                 PROVE  /\ \A e \in Callers : call'[e].pc # "idle" =>
                             (\A d \in Callers : call'[d].now <= call'[e].now)
                             /\ \A d \in Callers \ {e} : call'[d].pc = "idle"
                        /\ Whole(f)
                        /\ \E e \in Callers : f.at <= MinuteOf(call'[e].now)
                        /\ \A e \in Callers : call'[e].pc \notin {"spot", "future"}
    BY <1>1 DEF Alone, IsNewest, Whole
  <2>2. /\ IsNewest(c) /\ \A d \in Callers \ {c} : call[d].pc = "idle"
        /\ MinuteOf(call[c].now) \in Nat
    BY <2>1, CallerIsNewest
  <2> QED
    BY <1>2, <2>1, <2>2 DEF IsNewest, Whole
<1> QED
  BY <1>4, <1>5, <1>6, <1>7, <1>8 DEF LiveInv

\* A refresh goes on to its next request, with less in the feed or more.
LEMMA AwaitingKeeps ==
  ASSUME LiveInv, NEW c \in Callers, NEW f \in Feeds, NEW pc \in {"spot", "future"}, call[c].pc # "idle",
         Awaits(c, pc), feed' = f, UNCHANGED <<instant, overlapped, reply>>,
         ~overlapped => /\ f.vwap = Missing
                        /\ \/ /\ pc = "spot" /\ f.bars = Missing
                              /\ f.at = Missing \/ f.at < MinuteOf(call[c].now)
                           \/ pc = "future" /\ f.bars = MinuteOf(call[c].now) /\ f.at = f.bars
  PROVE  LiveInv'
<1>1. /\ instant \in Nat /\ call \in [Callers -> Ticks] /\ RoomTyped /\ call[c].now \in Nat
      /\ call' = [call EXCEPT ![c].pc = pc] /\ UNCHANGED <<shown, decision, failed>>
  BY DEF LiveInv, RoomTyped, Awaits, Ticks
<1>2. /\ call' \in [Callers -> Ticks] /\ call'[c].pc = pc
      /\ \A d \in Callers : d # c => call'[d] = call[d]
      /\ \A d \in Callers : call'[d].now = call[d].now /\ call[d].now \in Nat
  BY <1>1 DEF Ticks
<1>3. RoomTyped'
  BY <1>1, <1>2 DEF RoomTyped
<1>4. Decided' /\ Answered' /\ CurrentVwap'
  BY <1>1 DEF LiveInv, Decided, Answered, CurrentVwap
<1>5. Alone'
  <2>1. SUFFICES ASSUME ~overlapped
                 PROVE  /\ \A e \in Callers : call'[e].pc # "idle" =>
                             (\A d \in Callers : call'[d].now <= call'[e].now)
                             /\ \A d \in Callers \ {e} : call'[d].pc = "idle"
                        /\ Whole(f) \/ f.at = Missing \/ \E e \in Callers : f.at < MinuteOf(call'[e].now)
                        /\ f.at # Missing => \E e \in Callers : f.at <= MinuteOf(call'[e].now)
                        /\ \A e \in Callers :
                             /\ call'[e].pc = "spot" => f.bars = Missing /\ f.vwap = Missing
                             /\ call'[e].pc = "future" =>
                                  f.bars = MinuteOf(call'[e].now) /\ f.at = f.bars /\ f.vwap = Missing
    BY DEF Alone, IsNewest, Whole, Old
  <2>2. /\ IsNewest(c) /\ \A d \in Callers \ {c} : call[d].pc = "idle"
        /\ MinuteOf(call[c].now) \in Nat
    BY <2>1, CallerIsNewest
  <2>3. f.at \in Nat \cup {Missing}
    BY DEF Feeds
  <2> QED
    BY <1>2, <2>1, <2>2, <2>3, MissingIsNone DEF IsNewest, Whole
<1> QED
  BY <1>3, <1>4, <1>5 DEF LiveInv

LEMMA QuotedKeeps == ASSUME LiveInv, NEW c \in Callers, Quoted(c) PROVE LiveInv'
<1>1. /\ feed \in Feeds /\ call[c].pc = "quote" /\ call[c].now \in Nat /\ UNCHANGED <<instant, overlapped, reply>>
      /\ RoomTyped
  BY DEF LiveInv, RoomTyped, Quoted, Ticks
<1>2. MinuteOf(call[c].now) \in Nat
  BY <1>1, MinutesOfInstants
<1>3. CASE feed.at = MinuteOf(call[c].now)
  <2>1. Evaluated(c, feed)
    BY <1>3 DEF Quoted
  <2>2. ~overlapped => Whole(feed)
    BY <1>1, <1>2, <1>3, CallerIsNewest, MissingIsNone DEF LiveInv, Alone
  <2> QED
    BY <1>1, <1>2, <1>3, <2>1, <2>2, EvaluationKeeps DEF Whole
<1>4. CASE feed.at # MinuteOf(call[c].now)
  <2>1. feed' = Cleared(feed) /\ Awaits(c, "spot")
    BY <1>4 DEF Quoted
  <2>2. Cleared(feed) \in Feeds /\ Cleared(feed).at = feed.at /\ Cleared(feed).bars = Missing /\ Cleared(feed).vwap = Missing
    BY <1>1 DEF Cleared, Feeds
  <2>3. ~overlapped => feed.at = Missing \/ feed.at < MinuteOf(call[c].now)
    BY <1>1, <1>2, <1>4, CallerIsNewest DEF Feeds
  <2> QED
    BY <1>1, <2>1, <2>2, <2>3, AwaitingKeeps
<1> QED
  BY <1>3, <1>4

LEMMA CandlesKeep ==
  ASSUME LiveInv, NEW c \in Callers, SpotCandles(c) \/ FutureCandles(c) PROVE LiveInv'
<1> DEFINE minute == MinuteOf(call[c].now)
           spot == [feed EXCEPT !.bars = minute, !.at = minute]
           future == [feed EXCEPT !.vwap = minute, !.at = minute]
<1>1. /\ feed \in Feeds /\ call[c].pc \in {"spot", "future"} /\ call[c].now \in Nat
      /\ UNCHANGED <<instant, overlapped, reply>>
  BY DEF LiveInv, RoomTyped, SpotCandles, FutureCandles, Ticks
<1>2. minute \in Nat
  BY <1>1, MinutesOfInstants
<1>3. spot \in Feeds /\ spot.bars = minute /\ spot.at = minute /\ spot.vwap = feed.vwap
  BY <1>1, <1>2 DEF Feeds
<1>4. future \in Feeds /\ future.bars = feed.bars /\ future.at = minute /\ future.vwap = minute
  BY <1>1, <1>2 DEF Feeds
<1>5. ~overlapped => /\ call[c].pc = "spot" => feed.vwap = Missing
                     /\ call[c].pc = "future" => feed.bars = minute
  BY DEF LiveInv, Alone
<1>6. CASE SpotCandles(c)
  <2>1. call[c].pc = "spot" /\ ((feed' = spot /\ Awaits(c, "future")) \/ Evaluated(c, spot))
    BY <1>6 DEF SpotCandles
  <2>2. ~overlapped => spot.vwap = Missing
    BY <1>3, <1>5, <2>1
  <2> HIDE DEF minute, spot
  <2>3. CASE feed' = spot /\ Awaits(c, "future")
    BY <1>1, <1>3, <2>1, <2>2, <2>3, AwaitingKeeps DEF minute
  <2>4. CASE Evaluated(c, spot)
    BY <1>1, <1>3, <2>1, <2>2, <2>4, EvaluationKeeps DEF minute
  <2> QED
    BY <2>1, <2>3, <2>4
<1>7. CASE FutureCandles(c)
  <2>1. call[c].pc = "future" /\ Evaluated(c, future)
    BY <1>7 DEF FutureCandles
  <2>2. ~overlapped => future.bars = minute
    BY <1>4, <1>5, <2>1
  <2> HIDE DEF minute, future
  <2> QED
    BY <1>1, <1>4, <2>1, <2>2, EvaluationKeeps DEF minute
<1> QED
  BY <1>6, <1>7

\* A failure, or the end of a tick.
LEMMA EndingKeeps ==
  ASSUME LiveInv, NEW c \in Callers, FeedFails(c) \/ Record(c) PROVE LiveInv'
<1>1. /\ instant \in Nat /\ call \in [Callers -> Ticks] /\ RoomTyped /\ Decided /\ call[c].now \in Nat
      /\ call' = [call EXCEPT ![c].pc = "idle"]
      /\ UNCHANGED <<instant, feed, shown, overlapped, reply>>
      /\ \/ failed' = TRUE /\ decision' = Refreshed(call[c].now, TRUE)
         \/ UNCHANGED <<decision, failed>>
  BY DEF LiveInv, RoomTyped, FeedFails, Record, Ticks
<1>2. /\ call' \in [Callers -> Ticks] /\ call'[c].pc = "idle"
      /\ \A d \in Callers : d # c => call'[d] = call[d]
      /\ \A d \in Callers : call'[d].now = call[d].now /\ call[d].now \in Nat
  BY <1>1 DEF Ticks
<1>3. RoomTyped' /\ Decided'
  <2>1. CASE failed' = TRUE /\ decision' = Refreshed(call[c].now, TRUE)
    <3>1. /\ decision' \in Decisions \cup {Missing}
          /\ decision' # Missing => shown # Missing /\ decision'.at = shown.at
          /\ decision' # Missing => decision'.kind = "WAIT"
      BY <1>1, <2>1, GateIsSound
    <3> QED
      BY <1>1, <1>2, <2>1, <3>1 DEF RoomTyped, Decided
  <2>2. CASE UNCHANGED <<decision, failed>>
    BY <1>1, <1>2, <2>2 DEF RoomTyped, Decided
  <2> QED
    BY <1>1, <2>1, <2>2
<1>4. Answered' /\ CurrentVwap'
  BY <1>1 DEF LiveInv, Answered, CurrentVwap
<1>5. Alone'
  <2>1. SUFFICES ASSUME ~overlapped
                 PROVE  /\ \A e \in Callers : call'[e].pc # "idle" =>
                             (\A d \in Callers : call'[d].now <= call'[e].now)
                             /\ \A d \in Callers \ {e} : call'[d].pc = "idle"
                        /\ Whole(feed) \/ feed.at = Missing \/ \E e \in Callers : feed.at < MinuteOf(call'[e].now)
                        /\ feed.at # Missing => \E e \in Callers : feed.at <= MinuteOf(call'[e].now)
                        /\ \A e \in Callers :
                             /\ call'[e].pc = "spot" => feed.bars = Missing /\ feed.vwap = Missing
                             /\ call'[e].pc = "future" =>
                                  feed.bars = MinuteOf(call'[e].now) /\ feed.at = feed.bars /\ feed.vwap = Missing
    BY <1>1 DEF Alone, IsNewest, Whole, Old
  <2> QED
    BY <1>2, <2>1 DEF LiveInv, Alone, IsNewest, Whole, Old
<1> QED
  BY <1>3, <1>4, <1>5 DEF LiveInv

LEMMA LiveStep == LiveInv /\ [RoomNext]_roomVars => LiveInv'
<1> SUFFICES ASSUME LiveInv, [RoomNext]_roomVars PROVE LiveInv'
  OBVIOUS
<1>1. CASE Pass
  BY <1>1, PassKeeps
<1>2. CASE Read
  <2>1. instant \in Nat /\ failed \in BOOLEAN /\ RoomTyped /\ Decided
    BY DEF LiveInv, RoomTyped
  <2>2. decision' # Missing
    BY <1>2, <2>1, GateIsSound DEF Read
  <2> QED
    BY <1>2, <2>2, ReadingKeeps DEF Read
<1>3. CASE SettingsRead
  <2>1. /\ decision' = Refreshed(instant, failed) /\ UNCHANGED <<instant, feed, call, shown, failed, overlapped>>
        /\ \/ reply' = [kind |-> decision'.kind, at |-> decision'.at, when |-> instant] /\ decision' # Missing
           \/ reply' = reply
    BY <1>3 DEF SettingsRead
  <2> QED
    BY <2>1, ReadingKeeps
<1>4. CASE TickNext
  BY <1>4, BeginKeeps, QuotedKeeps, CandlesKeep, EndingKeeps DEF TickNext
<1>5. CASE Flush \/ Appended \/ Mirrored \/ UNCHANGED roomVars
  <2>1. UNCHANGED <<instant, feeding, reply>>
    BY <1>5 DEF Flush, Appended, Mirrored, roomVars, feeding
  <2>2. UNCHANGED <<instant, feed, call, shown, decision, failed, overlapped, reply>>
    BY <2>1 DEF feeding
  <2>3. RoomTyped' /\ Decided' /\ Answered' /\ CurrentVwap'
    BY <2>2 DEF LiveInv, RoomTyped, Decided, Answered, CurrentVwap
  <2>4. Alone'
    BY <2>2 DEF LiveInv, Alone, IsNewest, Whole, Old
  <2> QED
    BY <2>3, <2>4 DEF LiveInv
<1> QED
  BY <1>1, <1>2, <1>3, <1>4, <1>5 DEF RoomNext

-----------------------------------------------------------------------------
(* The tabs of the sheet *)

Distinct(seq) == \A a, b \in DOMAIN seq : a < b => seq[a] # seq[b]
\* One tab: what is at Google, in flight and queued, with the rows of all ticks.
TabIs(written, flying, queued, lines) ==
  \E out \in Seq(Nat) :
    /\ ReadsAs(written, out)
    /\ (IF written = <<>> /\ flying = <<>> THEN lines ELSE <<HeaderRow>> \o lines) = out \o flying \o queued

LEMMA RepeatedRows ==
  ASSUME NEW taken \in Seq(Nat), taken # <<>>, NEW times \in Nat
  PROVE  /\ Repeated(taken, times) \in Seq(Nat) /\ Len(Repeated(taken, times)) = times * Len(taken)
         /\ times > 0 => times * Len(taken) >= Len(taken)
         /\ \A n \in 1 .. times * Len(taken) : \E a \in 1 .. Len(taken) :
              a <= n /\ Repeated(taken, times)[n] = taken[a]
         /\ times > 0 => \A a \in 1 .. Len(taken) : Repeated(taken, times)[a] = taken[a]
<1> DEFINE l == Len(taken)
           size == times * l
           row(n) == ((n - 1) % l) + 1
<1>1. l \in Nat \ {0}
  BY EmptySeq
<1>2. taken \in [1 .. l -> Nat]
  OBVIOUS
<1>3. size \in Nat /\ (times > 0 => size >= l)
  <2>0. l \in Nat
    BY <1>1
  <2> HIDE DEF l
  <2>1. size \in Nat
    BY <2>0
  <2>2. ASSUME times > 0 PROVE size >= l
    <3>1. times >= 1
      BY <2>2
    <3> QED
      BY <2>0, <3>1
  <2> QED
    BY <2>1, <2>2
<1> HIDE DEF l, size
<1>4. \A n \in Nat : n >= 1 => row(n) \in 1 .. l
  BY <1>1
<1>5. \A n \in 1 .. l : row(n) = n
  <2> SUFFICES ASSUME NEW n \in 1 .. l PROVE (n - 1) % l = n - 1
    BY <1>1
  <2>1. n - 1 \in Nat /\ n - 1 < l
    BY <1>1
  <2> QED
    BY <1>1, <2>1
<1>6. \A n \in Nat : n >= 1 => row(n) <= n
  <2> SUFFICES ASSUME NEW n \in Nat, n >= 1 PROVE (n - 1) % l <= n - 1
    BY <1>1
  <2> DEFINE m == n - 1
             q == m \div l
             r == m % l
  <2>1. m \in Nat
    OBVIOUS
  <2> HIDE DEF m
  <2>2. q \in Int /\ r \in Int /\ 0 <= r /\ r < l /\ m = l * q + r
    BY <1>1, <2>1
  <2> HIDE DEF q, r
  <2>3. q >= 0
    <3>1. SUFFICES ASSUME q <= -1 PROVE FALSE
      BY <2>2
    <3>2. l * q <= -l
      BY <1>1, <2>2, <3>1
    <3> QED
      BY <1>1, <2>1, <2>2, <3>2
  <2>4. l * q >= 0
    BY <1>1, <2>2, <2>3
  <2>5. r <= m
    BY <1>1, <2>1, <2>2, <2>4
  <2> QED
    BY <2>5 DEF m, r
<1>7. Repeated(taken, times) = [n \in 1 .. size |-> taken[row(n)]]
  BY DEF Repeated, l, size
<1> HIDE DEF row
<1>8. \A n \in 1 .. size : row(n) \in 1 .. l /\ row(n) <= n /\ taken[row(n)] \in Nat
  BY <1>2, <1>3, <1>4, <1>6
<1>9. [n \in 1 .. size |-> taken[row(n)]] \in Seq(Nat)
  BY <1>3, <1>8
<1>10. Len([n \in 1 .. size |-> taken[row(n)]]) = size
  BY <1>3
<1>11. Repeated(taken, times) \in Seq(Nat) /\ Len(Repeated(taken, times)) = size
  BY <1>7, <1>9, <1>10
<1>12. \A n \in 1 .. size : \E a \in 1 .. l : a <= n /\ Repeated(taken, times)[n] = taken[a]
  BY <1>7, <1>8
<1>13. times > 0 => \A a \in 1 .. l : Repeated(taken, times)[a] = taken[a]
  <2> SUFFICES ASSUME times > 0, NEW a \in 1 .. l PROVE Repeated(taken, times)[a] = taken[a]
    OBVIOUS
  <2>1. a \in 1 .. size
    BY <1>1, <1>3
  <2> QED
    BY <1>5, <1>7, <2>1
<1> QED
  BY <1>3, <1>11, <1>12, <1>13 DEF l, size

\* ReadsAs by its elements.
LEMMA ReadsMeans ==
  ASSUME NEW seq \in Seq(Nat), NEW out \in Seq(Nat), ReadsAs(seq, out)
  PROVE  /\ \A n \in 1 .. Len(seq) : \E a \in 1 .. Len(out) : out[a] = seq[n]
         /\ \A a \in 1 .. Len(out) : \E n \in 1 .. Len(seq) : seq[n] = out[a]
         /\ \A a, b \in 1 .. Len(out) : a < b => \A q \in 1 .. Len(seq) :
              seq[q] = out[b] => \E p \in 1 .. q : seq[p] = out[a]
<1>1. DOMAIN seq = 1 .. Len(seq) /\ DOMAIN out = 1 .. Len(out)
  OBVIOUS
<1>2. {seq[q] : q \in 1 .. Len(seq)} = {out[a] : a \in 1 .. Len(out)}
  BY <1>1 DEF ReadsAs
<1>3. \A n \in 1 .. Len(seq) : seq[n] \in {out[a] : a \in 1 .. Len(out)}
  BY <1>2
<1>4. \A a \in 1 .. Len(out) : out[a] \in {seq[q] : q \in 1 .. Len(seq)}
  BY <1>2
<1>5. \A a, b \in 1 .. Len(out) : a < b => \A q \in 1 .. Len(seq) :
        seq[q] = out[b] => \E p \in 1 .. q : seq[p] = out[a]
  <2> SUFFICES ASSUME NEW a \in 1 .. Len(out), NEW b \in 1 .. Len(out), a < b,
                      NEW q \in 1 .. Len(seq), seq[q] = out[b]
               PROVE  \E p \in 1 .. q : seq[p] = out[a]
    OBVIOUS
  <2>1. a \in DOMAIN out /\ b \in DOMAIN out /\ q \in DOMAIN seq
    BY <1>1
  <2> QED
    BY <2>1 DEF ReadsAs
<1>6. \A n \in 1 .. Len(seq) : \E a \in 1 .. Len(out) : out[a] = seq[n]
  BY ONLY <1>3
<1>7. \A a \in 1 .. Len(out) : \E n \in 1 .. Len(seq) : seq[n] = out[a]
  BY ONLY <1>4
<1> QED
  BY ONLY <1>5, <1>6, <1>7

\* The positions of a sequence of l elements with m more behind it.
LEMMA Positions ==
  ASSUME NEW l \in Nat, NEW m \in Nat
  PROVE  /\ 1 .. (l + m) \subseteq Nat \ {0} /\ \A q \in 1 .. l : 1 .. q \subseteq 1 .. l
         /\ \A n \in 1 .. l, k \in 1 .. m : n \in 1 .. (l + k) /\ n < l + k
         /\ \A e, k \in 1 .. m : e <= k => l + e \in 1 .. (l + k)
         /\ \A e, k \in 1 .. m : l + e < l + k => e < k
<1>1. 1 .. (l + m) \subseteq Nat \ {0}
  OBVIOUS
<1>2. \A q \in 1 .. l : 1 .. q \subseteq 1 .. l
  OBVIOUS
<1>3. \A n \in 1 .. l, k \in 1 .. m : n \in 1 .. (l + k) /\ n < l + k
  OBVIOUS
<1>4. \A e, k \in 1 .. m : e <= k => l + e \in 1 .. (l + k)
  OBVIOUS
<1>5. \A e, k \in 1 .. m : l + e < l + k => e < k
  OBVIOUS
<1> QED
  BY <1>1, <1>2, <1>3, <1>4, <1>5

\* The elements of a concatenation, by the part they stand in.
LEMMA ConcatParts ==
  ASSUME NEW head \in Seq(Nat), NEW tail \in Seq(Nat)
  PROVE  /\ head \o tail \in Seq(Nat) /\ DOMAIN (head \o tail) = 1 .. Len(head) + Len(tail)
         /\ \A n \in 1 .. Len(head) : n \in DOMAIN (head \o tail) /\ (head \o tail)[n] = head[n]
         /\ \A k \in 1 .. Len(tail) : /\ Len(head) + k \in DOMAIN (head \o tail)
                                      /\ (head \o tail)[Len(head) + k] = tail[k]
OBVIOUS

LEMMA ReadsGrow ==
  ASSUME NEW seq \in Seq(Nat), NEW out \in Seq(Nat), ReadsAs(seq, out),
         NEW taken \in Seq(Nat), taken # <<>>, NEW times \in Nat \ {0}, Distinct(out \o taken)
  PROVE  seq \o Repeated(taken, times) \in Seq(Nat) /\ seq \o Repeated(taken, times) # <<>>
         /\ ReadsAs(seq \o Repeated(taken, times), out \o taken)
<1> DEFINE more == Repeated(taken, times)
           s == seq \o more
           o == out \o taken
<1>1. /\ more \in Seq(Nat) /\ Len(more) >= Len(taken) /\ DOMAIN more = 1 .. Len(more)
      /\ \A n \in 1 .. Len(more) : \E a \in 1 .. Len(taken) : a <= n /\ more[n] = taken[a]
      /\ \A a \in 1 .. Len(taken) : more[a] = taken[a]
  <2>1. times \in Nat /\ times > 0 /\ Len(taken) \in Nat
    OBVIOUS
  <2>2. /\ more \in Seq(Nat) /\ Len(more) = times * Len(taken) /\ times * Len(taken) >= Len(taken)
        /\ \A n \in 1 .. times * Len(taken) : \E a \in 1 .. Len(taken) : a <= n /\ more[n] = taken[a]
        /\ \A a \in 1 .. Len(taken) : more[a] = taken[a]
    BY <2>1, RepeatedRows
  <2> HIDE DEF more
  <2>3. DOMAIN more = 1 .. Len(more)
    BY <2>2
  <2> DEFINE size == times * Len(taken)
  <2>4. Len(more) = size /\ size >= Len(taken) /\ \A n \in 1 .. size : \E a \in 1 .. Len(taken) : a <= n /\ more[n] = taken[a]
    BY <2>2
  <2> HIDE DEF size
  <2> QED
    BY <2>2, <2>3, <2>4
<1>0. /\ \A n \in 1 .. Len(seq) : \E a \in 1 .. Len(out) : out[a] = seq[n]
      /\ \A a \in 1 .. Len(out) : \E n \in 1 .. Len(seq) : seq[n] = out[a]
      /\ \A a, b \in 1 .. Len(out) : a < b => \A q \in 1 .. Len(seq) :
              seq[q] = out[b] => \E p \in 1 .. q : seq[p] = out[a]
  BY ReadsMeans
<1>01. \A a, b \in DOMAIN o : a < b => o[a] # o[b]
  BY DEF Distinct
<1> HIDE DEF more
<1>20. /\ Len(seq) \in Nat /\ DOMAIN seq = 1 .. Len(seq) /\ Len(out) \in Nat /\ DOMAIN out = 1 .. Len(out)
       /\ Len(taken) \in Nat \ {0} /\ Len(more) \in Nat
  <2>1. Len(taken) \in Nat \ {0}
    BY EmptySeq
  <2> QED
    BY <1>1, <2>1
<1> DEFINE at(k) == Len(seq) + k
           to(k) == Len(out) + k
<1>2. /\ s \in Seq(Nat) /\ DOMAIN s = 1 .. Len(seq) + Len(more)
      /\ \A n \in 1 .. Len(seq) : n \in DOMAIN s /\ s[n] = seq[n]
      /\ \A k \in 1 .. Len(more) : at(k) \in DOMAIN s /\ s[at(k)] = more[k]
  <2>1. more \in Seq(Nat)
    BY ONLY <1>1
  <2> QED
    BY <2>1, ConcatParts, Zenon
<1>3. /\ o \in Seq(Nat) /\ DOMAIN o = 1 .. Len(out) + Len(taken)
      /\ \A a \in 1 .. Len(out) : a \in DOMAIN o /\ o[a] = out[a]
      /\ \A k \in 1 .. Len(taken) : to(k) \in DOMAIN o /\ o[to(k)] = taken[k]
  BY ConcatParts, Zenon
<1>4. \A n \in DOMAIN s : n \in 1 .. Len(seq) \/ \E k \in 1 .. Len(more) : n = at(k)
  <2> HIDE DEF s
  <2> SUFFICES ASSUME NEW n \in DOMAIN s, n \notin 1 .. Len(seq) PROVE \E k \in 1 .. Len(more) : n = at(k)
    OBVIOUS
  <2>1. n - Len(seq) \in 1 .. Len(more) /\ n = at(n - Len(seq))
    BY <1>2, <1>20
  <2> QED
    BY <2>1
<1>5. \A a \in DOMAIN o : a \in 1 .. Len(out) \/ \E k \in 1 .. Len(taken) : a = to(k)
  <2> HIDE DEF o
  <2> SUFFICES ASSUME NEW a \in DOMAIN o, a \notin 1 .. Len(out) PROVE \E k \in 1 .. Len(taken) : a = to(k)
    OBVIOUS
  <2>1. a - Len(out) \in 1 .. Len(taken) /\ a = to(a - Len(out))
    BY <1>3, <1>20
  <2> QED
    BY <2>1
\* Positions, once for all.
<1>6. /\ DOMAIN s \subseteq Nat \ {0} /\ DOMAIN o \subseteq Nat
      /\ \A q \in 1 .. Len(seq) : 1 .. q \subseteq 1 .. Len(seq)
      /\ \A n \in 1 .. Len(seq), k \in 1 .. Len(more) : n \in 1 .. at(k)
      /\ \A e, k \in 1 .. Len(more) : e <= k => at(e) \in 1 .. at(k)
      /\ \A e, k \in 1 .. Len(taken) : to(e) < to(k) => e < k
      /\ \A a \in 1 .. Len(out), k \in 1 .. Len(taken) : a < to(k)
      /\ 1 .. Len(taken) \subseteq 1 .. Len(more)
      /\ \A e, d \in 1 .. Len(taken), k \in 1 .. Len(more) : e < d /\ d <= k => e <= k
  <2>1. /\ DOMAIN s \subseteq Nat \ {0} /\ \A q \in 1 .. Len(seq) : 1 .. q \subseteq 1 .. Len(seq)
        /\ \A n \in 1 .. Len(seq), k \in 1 .. Len(more) : n \in 1 .. at(k)
        /\ \A e, k \in 1 .. Len(more) : e <= k => at(e) \in 1 .. at(k)
    <3> HIDE DEF s
    <3> QED
      BY <1>2, <1>20, Positions
  <2>2. /\ DOMAIN o \subseteq Nat
        /\ \A e, k \in 1 .. Len(taken) : to(e) < to(k) => e < k
        /\ \A a \in 1 .. Len(out), k \in 1 .. Len(taken) : a < to(k)
    <3> HIDE DEF o
    <3> QED
      BY <1>3, <1>20, Positions
  <2>3. Len(taken) \in Nat /\ Len(more) \in Nat /\ Len(taken) <= Len(more)
    BY <1>1, <1>20
  <2>4. 1 .. Len(taken) \subseteq 1 .. Len(more)
    BY <2>3
  <2>5. \A e, d \in 1 .. Len(taken), k \in 1 .. Len(more) : e < d /\ d <= k => e <= k
    BY <2>3
  <2> QED
    BY <2>1, <2>2, <2>4, <2>5
<1>7. \A a, b \in DOMAIN o : o[a] = o[b] => a = b
  <2> HIDE DEF o
  <2> SUFFICES ASSUME NEW a \in DOMAIN o, NEW b \in DOMAIN o, a # b PROVE o[a] # o[b]
    OBVIOUS
  <2>1. a < b \/ b < a
    BY <1>6
  <2> QED
    BY <1>01, <2>1
<1> HIDE DEF s, o, at, to
<1>8. \A n \in DOMAIN s : \E a \in DOMAIN o : o[a] = s[n]
  <2> SUFFICES ASSUME NEW n \in DOMAIN s PROVE \E a \in DOMAIN o : o[a] = s[n]
    OBVIOUS
  <2>1. CASE n \in 1 .. Len(seq)
    <3>1. PICK a \in 1 .. Len(out) : out[a] = seq[n]
      BY <1>0, <2>1
    <3> QED
      BY <1>2, <1>3, <2>1, <3>1
  <2>2. CASE \E k \in 1 .. Len(more) : n = at(k)
    <3>1. PICK k \in 1 .. Len(more) : n = at(k)
      BY <2>2
    <3>2. PICK a \in 1 .. Len(taken) : more[k] = taken[a]
      BY <1>1
    <3> QED
      BY <1>2, <1>3, <3>1, <3>2
  <2> QED
    BY <1>4, <2>1, <2>2
<1>9. \A a \in DOMAIN o : \E n \in DOMAIN s : s[n] = o[a]
  <2> SUFFICES ASSUME NEW a \in DOMAIN o PROVE \E n \in DOMAIN s : s[n] = o[a]
    OBVIOUS
  <2>1. CASE a \in 1 .. Len(out)
    <3>1. PICK n \in 1 .. Len(seq) : out[a] = seq[n]
      BY <1>0, <2>1
    <3> QED
      BY <1>2, <1>3, <2>1, <3>1
  <2>2. CASE \E k \in 1 .. Len(taken) : a = to(k)
    <3>1. PICK k \in 1 .. Len(taken) : a = to(k)
      BY <2>2
    <3>2. k \in 1 .. Len(more) /\ more[k] = taken[k]
      BY <1>1, <1>6
    <3> QED
      BY <1>2, <1>3, <3>1, <3>2
  <2> QED
    BY <1>5, <2>1, <2>2
<1>10. ASSUME NEW a \in DOMAIN o, NEW b \in DOMAIN o, a < b
       PROVE  o[a] # o[b] /\ \A q \in DOMAIN s : s[q] = o[b] => \E p \in 1 .. q : s[p] = o[a]
  <2>1. o[a] # o[b]
    BY <1>6, <1>7, <1>10
  <2>2. SUFFICES ASSUME NEW q \in DOMAIN s, s[q] = o[b] PROVE \E p \in 1 .. q : s[p] = o[a]
    BY <2>1
  <2>4. CASE q \in 1 .. Len(seq)
    <3>1. PICK d \in 1 .. Len(out) : out[d] = seq[q]
      BY <1>0, <2>4
    <3>2. d = b
      BY <1>2, <1>3, <1>7, <2>2, <2>4, <3>1
    <3>3. a \in 1 .. Len(out)
      BY <1>3, <1>6, <1>10, <1>20, <3>2
    <3>4. PICK p \in 1 .. q : seq[p] = out[a]
      BY <1>0, <1>10, <2>4, <3>1, <3>2, <3>3
    <3>5. p \in 1 .. Len(seq)
      BY <1>6, <2>4
    <3> QED
      BY <1>2, <1>3, <3>3, <3>4, <3>5
  <2>5. CASE \E k \in 1 .. Len(more) : q = at(k)
    <3>1. PICK k \in 1 .. Len(more) : q = at(k)
      BY <2>5
    <3>2. PICK d \in 1 .. Len(taken) : d <= k /\ more[k] = taken[d]
      BY <1>1
    <3>3. b = to(d)
      BY <1>2, <1>3, <1>7, <2>2, <3>1, <3>2
    <3>4. CASE a \in 1 .. Len(out)
      <4>1. PICK p \in 1 .. Len(seq) : out[a] = seq[p]
        BY <1>0, <3>4
      <4> QED
        BY <1>2, <1>3, <1>6, <3>1, <3>4, <4>1
    <3>5. CASE \E e \in 1 .. Len(taken) : a = to(e)
      <4>1. PICK e \in 1 .. Len(taken) : a = to(e)
        BY <3>5
      <4>2. e < d
        BY <1>6, <1>10, <3>3, <4>1
      <4>3. e \in 1 .. Len(more) /\ e <= k
        BY <1>6, <3>2, <4>2
      <4>4. at(e) \in 1 .. q
        BY <1>6, <3>1, <4>3
      <4>5. s[at(e)] = o[a]
        BY <1>1, <1>2, <1>3, <4>1, <4>3
      <4> QED
        BY <4>4, <4>5
    <3> QED
      BY <1>5, <3>4, <3>5
  <2> QED
    BY <1>4, <2>4, <2>5
<1>11. {s[q] : q \in DOMAIN s} = {o[a] : a \in DOMAIN o}
  BY <1>8, <1>9
<1>12. ReadsAs(s, o)
  BY <1>10, <1>11 DEF ReadsAs
<1>13. s \in Seq(Nat) /\ s # <<>>
  <2>1. 1 \in DOMAIN s
    BY <1>1, <1>2, <1>20
  <2> QED
    BY <1>2, <2>1
<1> QED
  BY <1>12, <1>13 DEF s, o, more

\* The batch of a tab is taken: header, if it was not written yet, and queue.
LEMMA TabTaken ==
  ASSUME NEW written \in Seq(Nat), NEW queued \in Seq(Nat), NEW lines \in Seq(Nat), queued # <<>>,
         NEW head \in {<<>>, <<HeaderRow>>}, head = <<>> <=> written # <<>>,
         TabIs(written, <<>>, queued, lines)
  PROVE  /\ head \o queued \in Seq(Nat) /\ head \o queued # <<>>
         /\ TabIs(written, head \o queued, <<>>, lines)
<1> DEFINE flying == head \o queued
<1>1. head \in Seq(Nat) /\ flying \in Seq(Nat) /\ flying # <<>> /\ <<HeaderRow>> \in Seq(Nat)
  <2>0. <<HeaderRow>> \in Seq(Nat) /\ <<>> \in Seq(Nat)
    BY DEF HeaderRow
  <2>1. head \in Seq(Nat)
    BY <2>0, Zenon
  <2> QED
    BY <2>0, <2>1, ConcatProperties, ConcatEqualIffEmpty
<1>2. PICK out \in Seq(Nat) :
        /\ ReadsAs(written, out)
        /\ (IF written = <<>> THEN lines ELSE <<HeaderRow>> \o lines) = out \o <<>> \o queued
  BY DEF TabIs
<1>3. out \o <<>> = out
  BY ConcatEmptySeq
<1>4. <<HeaderRow>> \o lines = out \o flying
  <2>1. CASE written = <<>>
    <3>1. out = <<>>
      <4>1. {written[q] : q \in DOMAIN written} = {}
        BY <2>1
      <4>2. \A a \in DOMAIN out : out[a] \in {written[q] : q \in DOMAIN written}
        BY <1>2 DEF ReadsAs
      <4>3. DOMAIN out = {}
        BY <4>1, <4>2
      <4>4. DOMAIN out = 1 .. Len(out) /\ Len(out) \in Nat
        OBVIOUS
      <4>5. Len(out) = 0
        BY <4>3, <4>4
      <4> QED
        BY <4>5, EmptySeq
    <3>2. lines = queued
      BY <1>2, <1>3, <2>1, <3>1, ConcatEmptySeq
    <3>3. flying = <<HeaderRow>> \o queued
      BY <2>1
    <3> QED
      BY <1>1, <3>1, <3>2, <3>3, ConcatEmptySeq
  <2>2. CASE written # <<>>
    <3>1. flying = queued
      BY <2>2, ConcatEmptySeq
    <3> QED
      BY <1>2, <1>3, <2>2, <3>1
  <2> QED
    BY <2>1, <2>2
<1>5. (out \o flying) \o <<>> = out \o flying
  BY <1>1, ConcatProperties, ConcatEmptySeq
<1> HIDE DEF flying
<1>6. TabIs(written, flying, <<>>, lines)
  BY <1>1, <1>2, <1>4, <1>5 DEF TabIs
<1> QED
  BY <1>1, <1>6 DEF flying

\* A request that was applied once or more.
LEMMA TabWritten ==
  ASSUME NEW written \in Seq(Nat), NEW flying \in Seq(Nat), NEW queued \in Seq(Nat), NEW lines \in Seq(Nat),
         flying # <<>>, Distinct(<<HeaderRow>> \o lines), NEW times \in Nat \ {0},
         TabIs(written, flying, queued, lines)
  PROVE  /\ written \o Repeated(flying, times) \in Seq(Nat) /\ written \o Repeated(flying, times) # <<>>
         /\ TabIs(written \o Repeated(flying, times), <<>>, queued, lines)
<1>1. PICK out \in Seq(Nat) :
        ReadsAs(written, out) /\ <<HeaderRow>> \o lines = out \o flying \o queued
  BY DEF TabIs
<1>2. Distinct(out \o flying)
  <2> DEFINE all == out \o flying
  <2>0. Distinct(out \o flying \o queued)
    BY <1>1, Zenon
  <2>1. all \in Seq(Nat) /\ Distinct(all \o queued)
    BY <2>0, ConcatProperties
  <2> HIDE DEF all
  <2>2. \A a \in DOMAIN all : a \in DOMAIN (all \o queued) /\ (all \o queued)[a] = all[a]
    BY <2>1
  <2>3. Distinct(all)
    BY <2>1, <2>2 DEF Distinct
  <2> QED
    BY <2>3 DEF all
<1> DEFINE now == written \o Repeated(flying, times)
           told == out \o flying
<1>3. now \in Seq(Nat) /\ now # <<>> /\ ReadsAs(now, told)
  BY <1>1, <1>2, ReadsGrow
<1>4. told \in Seq(Nat) /\ told \o <<>> = told
  BY ConcatProperties, ConcatEmptySeq
<1>5. <<HeaderRow>> \o lines = told \o <<>> \o queued
  BY <1>1, <1>4
<1> HIDE DEF now, told
<1>6. TabIs(now, <<>>, queued, lines)
  BY <1>3, <1>4, <1>5 DEF TabIs
<1> QED
  BY <1>3, <1>6 DEF now

LEMMA Associates ==
  \A s \in Seq(Nat) : \A t \in Seq(Nat) : \A u \in Seq(Nat) : (s \o t) \o u = s \o (t \o u)
<1> SUFFICES ASSUME NEW s \in Seq(Nat), NEW t \in Seq(Nat), NEW u \in Seq(Nat)
             PROVE  (s \o t) \o u = s \o (t \o u)
  OBVIOUS
<1> QED
  OBVIOUS

\* A tick queues its row.
LEMMA TabGrows ==
  ASSUME NEW written \in Seq(Nat), NEW flying \in Seq(Nat), NEW queued \in Seq(Nat), NEW lines \in Seq(Nat),
         NEW row \in Nat, TabIs(written, flying, queued, lines)
  PROVE  TabIs(written, flying, Append(queued, row), Append(lines, row))
<1>0. <<HeaderRow>> \in Seq(Nat) /\ <<row>> \in Seq(Nat)
  BY DEF HeaderRow
<1>1. PICK out \in Seq(Nat) :
    /\ ReadsAs(written, out)
    /\ (IF written = <<>> /\ flying = <<>> THEN lines ELSE <<HeaderRow>> \o lines) = out \o flying \o queued
  BY DEF TabIs
<1>2. Append(queued, row) = queued \o <<row>> /\ Append(lines, row) = lines \o <<row>>
  BY AppendIsConcat
<1>3. out \o flying \in Seq(Nat)
  BY ConcatProperties
<1>4. (out \o flying \o queued) \o <<row>> = (out \o flying) \o (queued \o <<row>>)
  <2> DEFINE all == out \o flying
  <2>1. all \in Seq(Nat)
    BY <1>3
  <2> DEFINE last == <<row>>
  <2>2. last \in Seq(Nat)
    BY <1>0
  <2> HIDE DEF all, last
  <2>3. (all \o queued) \o last = all \o (queued \o last)
    <3>1. queued \in Seq(Nat)
      OBVIOUS
    <3>2. \A t \in Seq(Nat) : \A u \in Seq(Nat) : (all \o t) \o u = all \o (t \o u)
      BY ONLY <2>1, Associates, Zenon
    <3>3. \A u \in Seq(Nat) : (all \o queued) \o u = all \o (queued \o u)
      BY ONLY <3>1, <3>2, Zenon
    <3> QED
      BY ONLY <2>2, <3>3, Zenon
  <2> QED
    BY ONLY <2>3, Zenon DEF all, last
<1>5. (<<HeaderRow>> \o lines) \o <<row>> = <<HeaderRow>> \o (lines \o <<row>>)
  BY <1>0, ConcatAssociative
<1>6. (IF written = <<>> /\ flying = <<>> THEN lines \o <<row>> ELSE <<HeaderRow>> \o (lines \o <<row>>))
        = (out \o flying) \o (queued \o <<row>>)
  BY <1>1, <1>4, <1>5
<1>7. TabIs(written, flying, queued \o <<row>>, lines \o <<row>>)
  BY <1>1, <1>6 DEF TabIs
<1> QED
  BY <1>2, <1>7

\* The next tab, if there is one.
LEMMA NextIsATab ==
  ASSUME NEW i \in Nat, NextTab(i) # 0
  PROVE  NextTab(i) \in DOMAIN Tabs /\ NextTab(i) > i /\ queue[NextTab(i)] # <<>>
<1> DEFINE later == {j \in DOMAIN Tabs : j > i /\ queue[j] # <<>>}
<1>1. later # {} /\ later \subseteq Nat
  BY RoomAssumption DEF NextTab
<1>2. PICK j \in later : \A k \in later : ~ (<<k, j>> \in OpToRel(<, Nat))
  BY <1>1, NatLessThanWellFounded, WFMin
<1>3. \A k \in later : j <= k
  <2> SUFFICES ASSUME NEW k \in later PROVE j <= k
    OBVIOUS
  <2>1. j \in Nat /\ k \in Nat /\ <<k, j>> \in Nat \X Nat
    BY <1>1
  <2>2. ~(k < j)
    BY <1>2, <2>1 DEF OpToRel
  <2> QED
    BY <2>1, <2>2
<1>4. NextTab(i) \in later
  BY <1>1, <1>3 DEF NextTab
<1> QED
  BY <1>4

\* Rows carry the times of different ticks, and no tick that runs has queued its own.
RowsApart ==
  /\ call \in [Callers -> [pc : {"idle", "quote", "spot", "future", "record"}, now : Nat]] /\ instant \in Nat
  /\ rows \in Seq(Nat) /\ Distinct(<<HeaderRow>> \o rows)
  /\ \A a \in DOMAIN rows : \E c \in Callers : rows[a] <= call[c].now
  /\ \A c \in Callers : call[c].pc # "idle" =>
       /\ call[c].now > 0 /\ \A a \in DOMAIN rows : rows[a] # call[c].now
       /\ \A d \in Callers \ {c} : call[d].pc # "idle" => call[d].now # call[c].now
SheetTyped ==
  /\ queue \in [DOMAIN Tabs -> Seq(Nat)] /\ sheet \in [DOMAIN Tabs -> Seq(Nat)]
  /\ flusher \in [pc : {"sleep", "append", "settings", "mirror"}, tab : Nat, batch : Seq(Nat)]
  /\ flusher.pc = "append" => flusher.tab \in DOMAIN Tabs /\ flusher.batch # <<>>
  /\ headers \subseteq DOMAIN Tabs /\ error \in BOOLEAN
TabsSound ==
  connected /\ ~error => \A i \in DOMAIN Tabs :
    /\ i \in headers <=> sheet[i] # <<>> \/ InFlight(i) # <<>>
    /\ TabIs(sheet[i], InFlight(i), queue[i], rows)
SheetInv == RowsApart /\ SheetTyped /\ TabsSound

LEMMA SheetBegins == RoomInit => SheetInv
<1> SUFFICES ASSUME RoomInit PROVE SheetInv
  OBVIOUS
<1> USE DEF RoomInit, NoTick, NoFlush
<1>1. SheetTyped
  <2>1. flusher \in [pc : {"sleep", "append", "settings", "mirror"}, tab : Nat, batch : Seq(Nat)] /\ flusher.pc = "sleep"
    BY EmptySeq
  <2>2. queue \in [DOMAIN Tabs -> Seq(Nat)] /\ sheet \in [DOMAIN Tabs -> Seq(Nat)]
    BY EmptySeq
  <2> QED
    BY <2>1, <2>2 DEF SheetTyped
<1>2. RowsApart
  <2>1. Distinct(<<HeaderRow>> \o <<>>)
    BY DEF Distinct, HeaderRow
  <2>2. call \in [Callers -> [pc : {"idle", "quote", "spot", "future", "record"}, now : Nat]]
    OBVIOUS
  <2> QED
    BY <2>1, <2>2 DEF RowsApart
<1>3. ReadsAs(<<>>, <<>>) /\ <<>> = <<>> \o <<>> \o <<>>
  BY DEF ReadsAs
<1>4. TabIs(<<>>, <<>>, <<>>, <<>>)
  <2>1. <<>> \in Seq(Nat)
    OBVIOUS
  <2> QED
    BY <1>3, <2>1, Zenon DEF TabIs
<1>5. TabsSound
  <2>1. \A i \in DOMAIN Tabs : sheet[i] = <<>> /\ InFlight(i) = <<>> /\ queue[i] = <<>>
    BY DEF InFlight
  <2> QED
    BY <1>4, <2>1 DEF TabsSound
<1> QED
  BY <1>1, <1>2, <1>5 DEF SheetInv

\* What the sheet side does not touch.
LEMMA RowsStay == ASSUME RowsApart, UNCHANGED <<instant, call, rows>> PROVE RowsApart'
BY DEF RowsApart, Distinct, HeaderRow
LEMMA TabsStay ==
  ASSUME SheetTyped, TabsSound, UNCHANGED <<flusher, queue, headers, connected, sheet, rows>>, error' \in {error, TRUE}
  PROVE  SheetTyped' /\ TabsSound'
BY DEF SheetTyped, TabsSound, InFlight

\* The flusher takes the batch of the next tab; tabs are what they were.
LEMMA TakingKeeps ==
  ASSUME NEW i \in Nat, RowsApart, TakeAfter(i), UNCHANGED <<connected, rows>>,
         \* the tabs, with nothing in flight, before the step and as far as they are written
         queue \in [DOMAIN Tabs -> Seq(Nat)], sheet' \in [DOMAIN Tabs -> Seq(Nat)],
         headers \subseteq DOMAIN Tabs, error' \in BOOLEAN,
         connected /\ ~error' => \A j \in DOMAIN Tabs :
           /\ j \in headers <=> sheet'[j] # <<>>
           /\ TabIs(sheet'[j], <<>>, queue[j], rows)
  PROVE  SheetTyped' /\ TabsSound'
<1>0. rows \in Seq(Nat)
  BY DEF RowsApart
<1>1. CASE NextTab(i) = 0
  <2>1. /\ flusher' = [NoFlush EXCEPT !.pc = "settings"] /\ UNCHANGED <<queue, headers>>
    BY <1>1 DEF TakeAfter
  <2>2. flusher' = [pc |-> "settings", tab |-> 0, batch |-> <<>>]
    BY <2>1 DEF NoFlush
  <2>21. <<>> \in Seq(Nat)
    OBVIOUS
  <2>22. flusher' \in [pc : {"sleep", "append", "settings", "mirror"}, tab : Nat, batch : Seq(Nat)]
         /\ flusher'.pc = "settings"
    BY <2>2, <2>21
  <2>3. SheetTyped'
    BY <2>1, <2>22 DEF SheetTyped
  <2>4. TabsSound'
    BY <2>1, <2>2 DEF TabsSound, InFlight
  <2> QED
    BY <2>3, <2>4
<1>2. CASE NextTab(i) # 0
  <2> DEFINE t == NextTab(i)
             taken == Header(t) \o queue[t]
  <2>1. t \in DOMAIN Tabs /\ queue[t] # <<>> /\ t \in Nat
    BY <1>2, NextIsATab, RoomAssumption
  <2>2. /\ flusher' = [pc |-> "append", tab |-> t, batch |-> taken]
        /\ queue' = [queue EXCEPT ![t] = <<>>] /\ headers' = headers \cup {t}
    BY <1>2 DEF TakeAfter, Emptied
  <2>3. Header(t) \in {<<>>, <<HeaderRow>>} /\ (Header(t) = <<>> <=> t \in headers)
    BY DEF Header
  <2>41. Header(t) \in Seq(Nat)
    <3>1. <<>> \in Seq(Nat) /\ <<HeaderRow>> \in Seq(Nat)
      BY DEF HeaderRow
    <3> QED
      BY <2>3, <3>1, Zenon
  <2>4. queue[t] \in Seq(Nat) /\ sheet'[t] \in Seq(Nat) /\ Header(t) \in Seq(Nat)
    BY <2>1, <2>41
  <2>5. taken \in Seq(Nat) /\ taken # <<>>
    BY <2>1, <2>4, ConcatProperties, ConcatEqualIffEmpty
  <2>6. ASSUME connected, ~error' PROVE TabIs(sheet'[t], taken, <<>>, rows)
    <3>1. (t \in headers <=> sheet'[t] # <<>>) /\ TabIs(sheet'[t], <<>>, queue[t], rows)
      BY <2>1, <2>6
    <3> QED
      BY <1>0, <2>1, <2>3, <2>4, <3>1, TabTaken
  <2> HIDE DEF t, taken
  <2>7. SheetTyped'
    BY <2>1, <2>2, <2>5 DEF SheetTyped
  <2>8. \A j \in DOMAIN Tabs : /\ j = t => InFlight(j)' = taken /\ queue'[j] = <<>>
                               /\ j # t => InFlight(j)' = <<>> /\ queue'[j] = queue[j]
    BY <2>2 DEF InFlight
  <2>9. TabsSound'
    <3> SUFFICES ASSUME connected, ~error', NEW j \in DOMAIN Tabs
                 PROVE  /\ j \in headers' <=> sheet'[j] # <<>> \/ InFlight(j)' # <<>>
                        /\ TabIs(sheet'[j], InFlight(j)', queue'[j], rows)
      BY DEF TabsSound
    <3>1. CASE j = t
      BY <2>2, <2>5, <2>6, <2>8, <3>1
    <3>2. CASE j # t
      BY <2>2, <2>8, <3>2
    <3> QED
      BY <3>1, <3>2
  <2> QED
    BY <2>7, <2>9
<1> QED
  BY <1>1, <1>2

LEMMA FlushKeeps == ASSUME SheetInv, Flush PROVE SheetInv'
<1>1. RowsApart'
  BY RowsStay DEF SheetInv, Flush, feeding
<1>2. CASE connected
  <2>1. TakeAfter(0) /\ UNCHANGED <<error, connected, sheet, rows>> /\ flusher.pc = "sleep"
    BY <1>2 DEF Flush
  <2>2. \A j \in DOMAIN Tabs : InFlight(j) = <<>>
    BY <2>1 DEF InFlight
  <2>3. connected /\ ~error' => \A j \in DOMAIN Tabs :
           /\ j \in headers <=> sheet'[j] # <<>>
           /\ TabIs(sheet'[j], <<>>, queue[j], rows)
    BY <2>1, <2>2 DEF SheetInv, TabsSound
  <2> QED
    BY <1>1, <2>1, <2>3, TakingKeeps DEF SheetInv, SheetTyped
<1>3. CASE ~connected
  <2>1. /\ queue' = [i \in DOMAIN Tabs |-> <<>>] /\ UNCHANGED <<flusher, headers, error, connected, sheet, rows>>
    BY <1>3 DEF Flush
  <2>2. SheetTyped'
    BY <2>1 DEF SheetInv, SheetTyped
  <2>3. TabsSound'
    BY <1>3, <2>1 DEF TabsSound
  <2> QED
    BY <1>1, <2>2, <2>3 DEF SheetInv
<1> QED
  BY <1>2, <1>3

LEMMA AppendedKeeps == ASSUME SheetInv, Appended PROVE SheetInv'
<1>1. RowsApart'
  BY RowsStay DEF SheetInv, Appended, feeding
<1>2. PICK times \in 0 .. MaxRetries, ok \in BOOLEAN :
       /\ ok => times > 0
       /\ sheet' = [sheet EXCEPT ![flusher.tab] = @ \o Repeated(flusher.batch, times)]
       /\ error' = (error \/ ~ok)
  BY DEF Appended
<1> DEFINE t == flusher.tab
           more == Repeated(flusher.batch, times)
<1>3. /\ flusher.pc = "append" /\ TakeAfter(t) /\ UNCHANGED <<connected, rows>>
      /\ t \in DOMAIN Tabs /\ t \in Nat /\ flusher.batch \in Seq(Nat) /\ flusher.batch # <<>>
      /\ rows \in Seq(Nat) /\ Distinct(<<HeaderRow>> \o rows) /\ times \in Nat
      /\ queue \in [DOMAIN Tabs -> Seq(Nat)] /\ sheet \in [DOMAIN Tabs -> Seq(Nat)]
      /\ headers \subseteq DOMAIN Tabs /\ error' \in BOOLEAN
  BY <1>2, RoomAssumption DEF Appended, SheetInv, SheetTyped, RowsApart
<1>4. more \in Seq(Nat) /\ sheet[t] \o more \in Seq(Nat)
  BY <1>3, RepeatedRows, ConcatProperties
<1>5. sheet' \in [DOMAIN Tabs -> Seq(Nat)] /\ sheet'[t] = sheet[t] \o more /\ \A j \in DOMAIN Tabs : j # t => sheet'[j] = sheet[j]
  BY <1>2, <1>3, <1>4
<1>6. ASSUME connected, ~error', NEW j \in DOMAIN Tabs
      PROVE  /\ j \in headers <=> sheet'[j] # <<>>
             /\ TabIs(sheet'[j], <<>>, queue[j], rows)
  <2>0. ~error /\ ok
    BY <1>2, <1>6, Zenon
  <2>1. /\ ~error /\ times \in Nat \ {0}
    BY <1>2, <1>3, <2>0
  <2>2. /\ j \in headers <=> sheet[j] # <<>> \/ InFlight(j) # <<>>
        /\ TabIs(sheet[j], InFlight(j), queue[j], rows)
    BY <1>6, <2>1 DEF SheetInv, TabsSound
  <2>3. CASE j = t
    <3>1. InFlight(j) = flusher.batch /\ sheet[j] \in Seq(Nat) /\ queue[j] \in Seq(Nat)
      BY <1>3, <2>3 DEF InFlight
    <3> DEFINE was == sheet[t]
               flying == flusher.batch
               queued == queue[t]
    <3>2. /\ was \in Seq(Nat) /\ flying \in Seq(Nat) /\ queued \in Seq(Nat) /\ flying # <<>>
          /\ TabIs(was, flying, queued, rows) /\ t \in headers /\ sheet'[t] = was \o Repeated(flying, times)
      BY <1>3, <1>5, <2>2, <2>3, <3>1
    <3> HIDE DEF was, flying, queued
    <3>3. was \o Repeated(flying, times) # <<>> /\ TabIs(was \o Repeated(flying, times), <<>>, queued, rows)
      BY <1>3, <2>1, <3>2, TabWritten
    <3> QED
      BY <2>3, <3>2, <3>3 DEF queued
  <2>4. CASE j # t
    <3>1. InFlight(j) = <<>>
      BY <2>4 DEF InFlight
    <3> QED
      BY <1>5, <2>2, <2>4, <3>1
  <2> QED
    BY <2>3, <2>4
<1> HIDE DEF t, more
<1>7. SheetTyped' /\ TabsSound'
  BY <1>3, <1>5, <1>6, TakingKeeps DEF SheetInv
<1> QED
  BY <1>1, <1>7 DEF SheetInv

\* A tick begins, runs or fails; the sheet is not concerned.
LEMMA TickRuns ==
  ASSUME SheetInv, NEW c \in Callers,
         Begin(c) \/ Quoted(c) \/ SpotCandles(c) \/ FutureCandles(c) \/ FeedFails(c)
  PROVE  SheetInv'
<1>1. UNCHANGED <<instant, rows, queue, flusher, headers, error, connected, sheet>>
  BY DEF Begin, Quoted, SpotCandles, FutureCandles, FeedFails, sheets
<1>2. SheetTyped' /\ TabsSound'
  BY <1>1, TabsStay DEF SheetInv
<1>3. /\ call \in [Callers -> [pc : {"idle", "quote", "spot", "future", "record"}, now : Nat]] /\ RowsApart
  BY DEF SheetInv, RowsApart
<1>4. CASE Begin(c)
  <2>1. /\ call' = [call EXCEPT ![c] = [pc |-> "quote", now |-> instant]]
        /\ \A d \in Callers : call[d].now < instant /\ call[d].now \in Nat
    BY <1>3, <1>4 DEF Begin
  <2>2. /\ call'[c].now = instant /\ instant \in Nat /\ instant > 0
        /\ \A d \in Callers : d # c => call'[d] = call[d]
        /\ \A d \in Callers : call'[d].now \in Nat /\ call[d].now <= call'[d].now
    BY <1>3, <2>1 DEF RowsApart
  <2>3. \A a \in DOMAIN rows : rows[a] \in Nat /\ rows[a] # instant /\ \E d \in Callers : rows[a] <= call'[d].now
    <3> SUFFICES ASSUME NEW a \in DOMAIN rows
                 PROVE  rows[a] \in Nat /\ rows[a] # instant /\ \E d \in Callers : rows[a] <= call'[d].now
      OBVIOUS
    <3>1. rows[a] \in Nat
      BY <1>3 DEF RowsApart
    <3>2. PICK d \in Callers : rows[a] <= call[d].now
      BY <1>3 DEF RowsApart
    <3>3. call[d].now < instant /\ call[d].now <= call'[d].now /\ call[d].now \in Nat /\ call'[d].now \in Nat
      BY <2>1, <2>2
    <3> QED
      BY <2>2, <3>1, <3>2, <3>3
  <2>4. call' \in [Callers -> [pc : {"idle", "quote", "spot", "future", "record"}, now : Nat]]
    BY <1>3, <2>1, <2>2
  <2>5. \A d \in Callers : call'[d].pc # "idle" =>
          /\ call'[d].now > 0 /\ \A a \in DOMAIN rows : rows[a] # call'[d].now
          /\ \A e \in Callers \ {d} : call'[e].pc # "idle" => call'[e].now # call'[d].now
    <3> SUFFICES ASSUME NEW d \in Callers, call'[d].pc # "idle"
                 PROVE  /\ call'[d].now > 0 /\ \A a \in DOMAIN rows : rows[a] # call'[d].now
                        /\ \A e \in Callers \ {d} : call'[e].pc # "idle" => call'[e].now # call'[d].now
      OBVIOUS
    <3>1. CASE d = c
      BY <2>1, <2>2, <2>3, <3>1
    <3>2. CASE d # c
      BY <1>3, <2>1, <2>2, <3>2 DEF RowsApart
    <3> QED
      BY <3>1, <3>2
  <2>6. RowsApart'
    BY <1>1, <1>3, <2>3, <2>4, <2>5 DEF RowsApart, Distinct, HeaderRow
  <2> QED
    BY <1>2, <2>6 DEF SheetInv
<1>5. CASE ~Begin(c)
  <2>1. \E pc \in {"idle", "spot", "future", "record"} : call' = [call EXCEPT ![c].pc = pc]
    BY <1>5 DEF Quoted, SpotCandles, FutureCandles, FeedFails, Evaluated, Awaits
  <2>2. call[c].pc # "idle"
    BY <1>5 DEF Quoted, SpotCandles, FutureCandles, FeedFails
  <2>3. /\ call' \in [Callers -> [pc : {"idle", "quote", "spot", "future", "record"}, now : Nat]]
        /\ \A d \in Callers : call'[d].now = call[d].now /\ (call'[d].pc # "idle" => call[d].pc # "idle")
    BY <1>3, <2>1, <2>2
  <2>4. RowsApart'
    BY <1>1, <1>3, <2>3 DEF RowsApart, Distinct, HeaderRow
  <2> QED
    BY <1>2, <2>4 DEF SheetInv
<1> QED
  BY <1>4, <1>5

\* One more row, unlike the others.
LEMMA DistinctGrows ==
  ASSUME NEW lines \in Seq(Nat), Distinct(<<HeaderRow>> \o lines), NEW row \in Nat, row > 0,
         \A a \in DOMAIN lines : lines[a] # row
  PROVE  Distinct(<<HeaderRow>> \o Append(lines, row))
<1> DEFINE all == <<HeaderRow>> \o lines
           more == <<HeaderRow>> \o Append(lines, row)
           l == Len(lines) + 1
<1>1. l \in Nat /\ l >= 1 /\ HeaderRow = 0
  BY DEF HeaderRow
<1>2. /\ DOMAIN all = 1 .. l /\ all[1] = 0 /\ \A a \in 2 .. l : a - 1 \in DOMAIN lines /\ all[a] = lines[a - 1]
  BY <1>1
<1>3. /\ DOMAIN more = 1 .. l + 1 /\ more[l + 1] = row
      /\ \A a \in 1 .. l : more[a] = all[a]
  <2>1. Append(lines, row) \in Seq(Nat) /\ Len(Append(lines, row)) = l
    OBVIOUS
  <2>2. DOMAIN more = 1 .. l + 1 /\ more[l + 1] = row
    BY <1>1
  <2>3. ASSUME NEW a \in 1 .. l PROVE more[a] = all[a]
    <3>1. CASE a = 1
      BY <1>1, <3>1
    <3>2. CASE a # 1
      <4>1. a - 1 \in 1 .. Len(lines)
        BY <3>2
      <4> QED
        BY <4>1
    <3> QED
      BY <3>1, <3>2
  <2> QED
    BY <2>2, <2>3
<1>4. \A a \in 1 .. l : all[a] # row
  <2> HIDE DEF all
  <2> SUFFICES ASSUME NEW a \in 1 .. l PROVE all[a] # row
    OBVIOUS
  <2>1. CASE a = 1
    BY <1>2, <2>1
  <2>2. CASE a # 1
    <3>1. a \in 2 .. l
      BY <1>1, <2>2
    <3> QED
      BY <1>2, <3>1
  <2> QED
    BY <2>1, <2>2
<1>5. \A a, b \in 1 .. l : a < b => all[a] # all[b]
  <2>1. Distinct(all)
    OBVIOUS
  <2> HIDE DEF all
  <2> QED
    BY <1>2, <2>1 DEF Distinct
<1> HIDE DEF all, more, l
<1>6. \A a, b \in 1 .. l + 1 : a < b => more[a] # more[b]
  <2> SUFFICES ASSUME NEW a \in 1 .. l + 1, NEW b \in 1 .. l + 1, a < b PROVE more[a] # more[b]
    OBVIOUS
  <2>1. a \in 1 .. l
    BY <1>1
  <2>2. CASE b = l + 1
    BY <1>3, <1>4, <2>1, <2>2
  <2>3. CASE b # l + 1
    <3>1. b \in 1 .. l
      BY <1>1, <2>3
    <3> QED
      BY <1>3, <1>5, <2>1, <3>1
  <2> QED
    BY <2>2, <2>3
<1>7. Distinct(more)
  BY <1>3, <1>6 DEF Distinct
<1> QED
  BY <1>7 DEF more

LEMMA RecordKeeps == ASSUME SheetInv, NEW c \in Callers, Record(c) PROVE SheetInv'
<1> DEFINE row == call[c].now
<1>1. /\ call[c].pc = "record" /\ call' = [call EXCEPT ![c].pc = "idle"] /\ rows' = Append(rows, row)
      /\ queue' = [i \in DOMAIN Tabs |-> Append(queue[i], row)]
      /\ UNCHANGED <<instant, flusher, headers, error, connected, sheet>>
      /\ RowsApart /\ SheetTyped /\ TabsSound
  BY DEF SheetInv, Record, sheets
<1>2. /\ call \in [Callers -> [pc : {"idle", "quote", "spot", "future", "record"}, now : Nat]] /\ rows \in Seq(Nat)
      /\ row \in Nat /\ row > 0 /\ \A a \in DOMAIN rows : rows[a] # row
      /\ \A d \in Callers \ {c} : call[d].pc # "idle" => call[d].now # row
  BY <1>1 DEF RowsApart
<1>3. /\ call' \in [Callers -> [pc : {"idle", "quote", "spot", "future", "record"}, now : Nat]]
      /\ \A d \in Callers : call'[d].now = call[d].now /\ (call'[d].pc # "idle" => d # c /\ call[d].pc # "idle")
  BY <1>1, <1>2
<1> HIDE DEF row
<1>4. /\ rows' \in Seq(Nat) /\ DOMAIN rows' = 1 .. Len(rows) + 1 /\ DOMAIN rows = 1 .. Len(rows) /\ Len(rows) \in Nat
      /\ rows'[Len(rows) + 1] = row /\ \A a \in DOMAIN rows : rows'[a] = rows[a]
  BY <1>1, <1>2
<1>5. RowsApart'
  <2>1. Distinct(<<HeaderRow>> \o rows')
    BY <1>1, <1>2, DistinctGrows DEF RowsApart
  <2>2. \A a \in DOMAIN rows' : a = Len(rows) + 1 \/ a \in DOMAIN rows
    BY <1>4
  <2>3. ASSUME NEW a \in DOMAIN rows' PROVE \E d \in Callers : rows'[a] <= call'[d].now
    <3>1. CASE a = Len(rows) + 1
      <4>1. call'[c].now = row
        BY <1>3 DEF row
      <4>2. rows'[a] = row /\ row <= row
        BY <1>2, <1>4, <3>1
      <4> QED
        BY <4>1, <4>2
    <3>2. CASE a \in DOMAIN rows
      <4>1. PICK d \in Callers : rows[a] <= call[d].now
        BY <1>1, <3>2 DEF RowsApart
      <4> QED
        BY <1>3, <1>4, <3>2, <4>1
    <3> QED
      BY <2>2, <3>1, <3>2
  <2>4. ASSUME NEW d \in Callers, call'[d].pc # "idle"
        PROVE  /\ call'[d].now > 0 /\ \A a \in DOMAIN rows' : rows'[a] # call'[d].now
               /\ \A e \in Callers \ {d} : call'[e].pc # "idle" => call'[e].now # call'[d].now
    <3>1. d # c /\ call[d].pc # "idle" /\ call'[d].now = call[d].now
      BY <1>3, <2>4
    <3>2. /\ call[d].now > 0 /\ \A a \in DOMAIN rows : rows[a] # call[d].now
          /\ \A e \in Callers \ {d} : call[e].pc # "idle" => call[e].now # call[d].now
      BY <1>1, <3>1 DEF RowsApart
    <3>3. ASSUME NEW a \in DOMAIN rows' PROVE rows'[a] # call[d].now
      <4>1. CASE a = Len(rows) + 1
        <5>1. rows'[a] = row /\ call[d].now # row
          BY <1>2, <1>4, <3>1, <4>1
        <5> QED
          BY <5>1
      <4>2. CASE a \in DOMAIN rows
        BY <1>4, <3>2, <4>2
      <4> QED
        BY <2>2, <4>1, <4>2
    <3> QED
      BY <1>3, <3>1, <3>2, <3>3
  <2>5. instant' \in Nat
    BY <1>1 DEF RowsApart
  <2> QED
    BY <1>3, <1>4, <2>1, <2>3, <2>4, <2>5 DEF RowsApart
<1>6. SheetTyped'
  <2>1. queue' \in [DOMAIN Tabs -> Seq(Nat)]
    BY <1>1, <1>2 DEF SheetTyped
  <2> QED
    BY <1>1, <2>1 DEF SheetTyped
<1>7. TabsSound'
  <2> SUFFICES ASSUME connected, ~error, NEW i \in DOMAIN Tabs
               PROVE  /\ i \in headers <=> sheet[i] # <<>> \/ InFlight(i) # <<>>
                      /\ TabIs(sheet[i], InFlight(i), queue'[i], rows')
    BY <1>1 DEF TabsSound, InFlight
  <2>1. /\ i \in headers <=> sheet[i] # <<>> \/ InFlight(i) # <<>>
        /\ TabIs(sheet[i], InFlight(i), queue[i], rows)
    BY <1>1 DEF TabsSound
  <2>2. sheet[i] \in Seq(Nat) /\ InFlight(i) \in Seq(Nat) /\ queue[i] \in Seq(Nat)
    BY <1>1, EmptySeq DEF SheetTyped, InFlight
  <2>3. TabIs(sheet[i], InFlight(i), Append(queue[i], row), Append(rows, row))
    BY <1>2, <2>1, <2>2, TabGrows
  <2> QED
    BY <1>1, <2>1, <2>3
<1> QED
  BY <1>5, <1>6, <1>7 DEF SheetInv

LEMMA SheetStep == SheetInv /\ [RoomNext]_roomVars => SheetInv'
<1> SUFFICES ASSUME SheetInv, [RoomNext]_roomVars PROVE SheetInv'
  OBVIOUS
<1>1. CASE Pass
  <2>1. instant' = instant + 1 /\ UNCHANGED <<call, rows, flusher, queue, headers, error, connected, sheet>>
    BY <1>1 DEF Pass, feeding, sheets
  <2>2. RowsApart'
    BY <2>1 DEF SheetInv, RowsApart, Distinct, HeaderRow
  <2> QED
    BY <2>1, <2>2, TabsStay DEF SheetInv
<1>2. CASE TickNext
  BY <1>2, TickRuns, RecordKeeps DEF TickNext
<1>3. CASE Flush \/ Appended
  BY <1>3, FlushKeeps, AppendedKeeps
<1>4. CASE SettingsRead \/ Mirrored
  <2>1. /\ UNCHANGED <<instant, call, rows, queue, headers, connected, sheet>> /\ error' \in {error, TRUE}
        /\ flusher.pc \in {"settings", "mirror"}
        /\ flusher' = [flusher EXCEPT !.pc = "mirror"] \/ flusher' = NoFlush
    BY <1>4 DEF SettingsRead, Mirrored, feeding
  <2>2. SheetTyped /\ TabsSound /\ RowsApart'
    BY <2>1, RowsStay DEF SheetInv
  <2>21. <<>> \in Seq(Nat)
    OBVIOUS
  <2>22. flusher' \in [pc : {"sleep", "append", "settings", "mirror"}, tab : Nat, batch : Seq(Nat)]
         /\ flusher'.pc \in {"mirror", "sleep"}
    <3>1. CASE flusher' = [flusher EXCEPT !.pc = "mirror"]
      BY <2>2, <3>1 DEF SheetTyped
    <3>2. CASE flusher' = NoFlush
      BY <2>21, <3>2 DEF NoFlush
    <3> QED
      BY <2>1, <3>1, <3>2
  <2>3. SheetTyped'
    BY <2>1, <2>2, <2>22 DEF SheetTyped
  <2>4. \A i \in DOMAIN Tabs : InFlight(i) = <<>> /\ InFlight(i)' = <<>>
    <3>1. flusher'.pc \in {"mirror", "sleep"}
      BY <2>1, <2>2 DEF NoFlush, SheetTyped
    <3> QED
      BY <2>1, <3>1 DEF InFlight
  <2>5. TabsSound'
    <3>1. ~error' => ~error
      BY <2>1, <2>2 DEF SheetTyped
    <3> QED
      BY <2>1, <2>2, <2>4, <3>1 DEF TabsSound
  <2> QED
    BY <2>2, <2>3, <2>5 DEF SheetInv
<1>5. CASE Read \/ UNCHANGED roomVars
  <2>1. UNCHANGED <<instant, call, rows, flusher, queue, headers, error, connected, sheet>>
    BY <1>5 DEF Read, roomVars, sheets, feeding
  <2> QED
    BY <2>1, TabsStay, RowsStay DEF SheetInv
<1> QED
  BY <1>1, <1>2, <1>3, <1>4, <1>5 DEF RoomNext

\* A tab that reads as it should is one of the property.
LEMMA TabsAreTheQueue == SheetInv => SheetIsTheQueue
<1> SUFFICES ASSUME SheetInv, connected, ~error, NEW i \in DOMAIN Tabs
             PROVE  \E n \in 0 .. Len(Lines(i)) :
                      /\ ReadsAs(sheet[i], SubSeq(Lines(i), 1, n))
                      /\ Lines(i) = SubSeq(Lines(i), 1, n) \o InFlight(i) \o queue[i]
  BY DEF SheetIsTheQueue
<1>1. PICK out \in Seq(Nat) : ReadsAs(sheet[i], out) /\ Lines(i) = out \o InFlight(i) \o queue[i]
  BY DEF SheetInv, TabsSound, TabIs, Lines
<1> DEFINE rest == InFlight(i) \o queue[i]
<1>2. InFlight(i) \in Seq(Nat) /\ queue[i] \in Seq(Nat) /\ rest \in Seq(Nat)
  BY EmptySeq DEF SheetInv, SheetTyped, InFlight
<1>3. Lines(i) = out \o rest
  BY <1>1, <1>2, Associates, Zenon
<1> HIDE DEF rest
<1>4. Len(out) \in 0 .. Len(out \o rest) /\ SubSeq(out \o rest, 1, Len(out)) = out
  <2>1. out \o rest \in Seq(Nat) /\ Len(out \o rest) = Len(out) + Len(rest) /\ Len(out) \in Nat /\ Len(rest) \in Nat
    BY <1>2
  <2> DEFINE w == SubSeq(out \o rest, 1, Len(out))
  <2>2. \A a \in 1 .. Len(out) : (out \o rest)[a] \in Nat
    BY <1>2
  <2>3. w \in Seq(Nat) /\ Len(w) = Len(out) /\ \A a \in 1 .. Len(out) : w[a] = out[a]
    BY <1>2, <2>1, <2>2
  <2> QED
    BY <2>1, <2>3, SeqEqual
<1> QED
  BY <1>1, <1>3, <1>4

-----------------------------------------------------------------------------

(* The theorem *)

LEMMA RoomConclusion == LiveInv /\ SheetInv => RoomSound
<1> SUFFICES ASSUME LiveInv, SheetInv PROVE RoomSound
  OBVIOUS
<1>1. CurrentVwap /\ SheetIsTheQueue
  BY TabsAreTheQueue DEF LiveInv
<1>2. NoStaleSetup
  BY DEF LiveInv, Decided, Answered, NoStaleSetup
<1> QED
  BY <1>1, <1>2 DEF RoomSound

\* The room shows nothing stale, and each tab holds the rows of all ticks.
THEOREM RoomIsSound == RoomInit /\ [][RoomNext]_roomVars => []RoomSound
<1>1. RoomInit => LiveInv /\ SheetInv
  BY RoomBegins, SheetBegins
<1>2. LiveInv /\ SheetInv /\ [RoomNext]_roomVars => (LiveInv /\ SheetInv)'
  BY LiveStep, SheetStep
<1> QED
  BY <1>1, <1>2, RoomConclusion, PTL

LEMMA DisabledStep ==
  ASSUME LiveInv, [RoomNext]_roomVars, ~enabled
  PROVE  ~enabled' /\ (decision' # decision => decision'.kind = "WAIT")
<1>1. ASSUME NEW now \in Nat, NEW fail \in BOOLEAN, decision' = Refreshed(now, fail)
      PROVE  decision' # decision => decision'.kind = "WAIT"
  <2>1. CASE Blocked(now, fail) /\ decision # Missing
    <3>1. decision \in Decisions
      BY <2>1 DEF LiveInv, RoomTyped
    <3> QED
      BY <1>1, <2>1, <3>1 DEF Refreshed, Decisions
  <2>2. CASE ~(Blocked(now, fail) /\ decision # Missing)
    BY <1>1, <2>2 DEF Refreshed
  <2> QED
    BY <2>1, <2>2
<1>2. /\ instant \in Nat /\ failed \in BOOLEAN /\ \A c \in Callers : call[c].now \in Nat
  BY DEF LiveInv, RoomTyped, Ticks
<1>3. CASE Read
  BY <1>1, <1>2, <1>3 DEF Read
<1>4. CASE SettingsRead
  <2>1. ~enabled'
    BY <1>4, Zenon DEF SettingsRead, SettingsFromSheet
  <2>2. decision' = Refreshed(instant, failed)
    BY <1>4 DEF SettingsRead
  <2> QED
    BY <1>1, <1>2, <2>1, <2>2
<1>5. ASSUME NEW c \in Callers, NEW f, Evaluated(c, f) PROVE decision'.kind = "WAIT"
  BY <1>5 DEF Evaluated
<1>6. CASE TickNext
  <2>1. PICK c \in Callers : Begin(c) \/ Quoted(c) \/ SpotCandles(c) \/ FutureCandles(c) \/ FeedFails(c) \/ Record(c)
    BY <1>6 DEF TickNext
  <2>2. UNCHANGED enabled
    BY <2>1 DEF Begin, Quoted, SpotCandles, FutureCandles, FeedFails, Record
  <2>3. CASE FeedFails(c)
    <3>1. decision' = Refreshed(call[c].now, TRUE) /\ TRUE \in BOOLEAN /\ call[c].now \in Nat
      BY <1>2, <2>3 DEF FeedFails
    <3>2. decision' # decision => decision'.kind = "WAIT"
      BY <1>1, <3>1
    <3> QED
      BY <2>2, <3>2, Zenon
  <2>4. CASE Quoted(c) \/ SpotCandles(c) \/ FutureCandles(c)
    <3>1. UNCHANGED decision \/ \E f : Evaluated(c, f)
      BY <2>4 DEF Quoted, SpotCandles, FutureCandles, Awaits
    <3>2. UNCHANGED decision \/ decision'.kind = "WAIT"
      BY <1>5, <3>1, Zenon
    <3> QED
      BY <2>2, <3>2, Zenon
  <2>5. CASE Begin(c) \/ Record(c)
    BY <2>2, <2>5 DEF Begin, Record
  <2> QED
    BY <2>1, <2>3, <2>4, <2>5
<1>7. CASE Pass \/ Flush \/ Appended \/ Mirrored \/ UNCHANGED roomVars
  <2>1. UNCHANGED <<enabled, decision>>
    BY <1>7 DEF Pass, Flush, Appended, Mirrored, roomVars, feeding
  <2> QED
    BY <2>1, Zenon
<1> QED
  BY <1>3, <1>4, <1>6, <1>7 DEF RoomNext

\* Once the sheet has disabled the system, no setup is decided until the next
\* process, whatever the sheet says later.
THEOREM DisablingHolds == RoomInit /\ [][RoomNext]_roomVars => DisableHolds
<1>1. RoomInit => LiveInv
  BY RoomBegins
<1>2. LiveInv /\ [RoomNext]_roomVars => LiveInv'
  BY LiveStep
<1>3. LiveInv /\ [RoomNext]_roomVars => [~enabled => ~enabled' /\ (decision' # decision => decision'.kind = "WAIT")]_roomVars
  BY DisabledStep
<1> QED
  BY <1>1, <1>2, <1>3, PTL DEF DisableHolds
=============================================================================
