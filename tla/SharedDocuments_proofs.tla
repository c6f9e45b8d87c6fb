----------------------- MODULE SharedDocuments_proofs -----------------------
(***************************************************************************)
(* Documents that several processes read and write side by side: the budget *)
(* of the provider, the scan of the system doctor, the catalogue with its   *)
(* directory, the ledger of paper trades, the schedules of the data system. *)
(* They share nothing but that; what is proved of each stands in a part of  *)
(* its own.                                                                *)
(***************************************************************************)
EXTENDS ProviderBudget, SystemDoctor, InstrumentDirectory, PaperLedger, DataSystem,
        FiniteSetTheorems, WellFoundedInduction, TLAPS

(***************************************************************************)
(* The shared document spaces the calls of every process, for any number   *)
(* of processes and families of endpoints and any spacing.                 *)
(*                                                                         *)
(* A booking is made from a document that was read some time ago; the      *)
(* version says that it is still the document of now, so everything that   *)
(* was booked before is in it.                                             *)
(***************************************************************************)

Document == [version : Nat, day : Int, calls : Int, global : Nat,
             families : [Endpoints -> Nat], cooldown : Nat]
Start == [by : Callers, at : Nat, family : Endpoints, day : Int]
Limit == [from : Nat, to : Nat]

(* A call of a process: none or on its way, waiting for a start, or writing *)
(* a document it decided from the version it read.                          *)
Resting == [pc : {"idle", "request", "backoff"}]
Waits == [pc : {"reserve", "asleep"}, family : Endpoints, today : Int, tries : Int]
Write == [pc : {"write"}, family : Endpoints, today : Int, tries : Int,
          version : Nat, doc : Document, at : Nat]
WriteBack == [pc : {"write backoff"}, version : Nat, doc : Document, at : Nat]
Call == Resting \cup Waits \cup Write \cup WriteBack

TypeInv ==
  /\ budget \in Document /\ now \in Nat /\ caller \in [Callers -> Call]
  /\ starts \subseteq Start /\ limited \subseteq Limit

(* A document d books start s, and remembers the 429 l. *)
Books(d, s) == /\ d.global >= s.at + GlobalSpacing
               /\ d.families[s.family] >= s.at + Spacing[s.family]
Remembers(d, l) == d.cooldown >= l.from + Cooldown

(* The document d that follows b books a start of a family at a time at, or *)
(* puts off the starts after a 429; nothing booked before is forgotten.     *)
BooksOneMore(d, b, family, at) ==
  /\ at >= b.global /\ at >= b.families[family] /\ at >= b.cooldown
  /\ d.global = at + GlobalSpacing /\ d.cooldown = b.cooldown
  /\ d.families = [b.families EXCEPT ![family] = at + Spacing[family]]
PutsOff(d, b, at) ==
  /\ d.global = b.global /\ d.families = b.families
  /\ d.cooldown >= b.cooldown /\ d.cooldown >= at + Cooldown

(* A write x whose version is current was decided from the document b of    *)
(* now, the time t.                                                         *)
WriteSound(x, b, t) ==
  /\ x.pc \in {"write", "write backoff"} => x.at <= t /\ x.version <= b.version
  /\ x.pc = "write" /\ x.version = b.version => BooksOneMore(x.doc, b, x.family, x.at)
  /\ x.pc = "write backoff" /\ x.version = b.version => PutsOff(x.doc, b, x.at)

BudgetInv ==
  /\ \A c \in Callers : WriteSound(caller[c], budget, now)
  /\ \A s \in starts : s.at <= now /\ Books(budget, s)
  /\ \A l \in limited : Remembers(budget, l)

-----------------------------------------------------------------------------

LEMMA LargerType == \A a, b \in Nat : Larger(a, b) \in Nat /\ Larger(a, b) >= a /\ Larger(a, b) >= b
BY DEF Larger

LEMMA DayType == \A t \in Nat : Day(t) \in Int
BY SpacingAssumption DEF Day

\* What reserve writes is a document that books its start.
LEMMA BookedMeans ==
  ASSUME TypeInv, NEW family \in Endpoints, NEW date \in Int, NextStart(budget, family) <= now
  PROVE  /\ Booked(budget, family, date) \in Document
         /\ BooksOneMore(Booked(budget, family, date), budget, family, now)
<1>1. /\ budget.global \in Nat /\ budget.families[family] \in Nat /\ budget.cooldown \in Nat
      /\ now \in Nat /\ Spacing[family] \in Nat /\ GlobalSpacing \in Nat
  BY SpacingAssumption DEF TypeInv, Document
<1>2. now >= budget.global /\ now >= budget.families[family] /\ now >= budget.cooldown
  <2> DEFINE g == budget.global
             f == budget.families[family]
             k == budget.cooldown
  <2>1. g \in Nat /\ f \in Nat /\ k \in Nat /\ Larger(Larger(g, f), k) <= now
    BY <1>1 DEF NextStart
  <2> HIDE DEF g, f, k
  <2>2. g <= now /\ f <= now /\ k <= now
    BY <1>1, <2>1 DEF Larger
  <2> QED
    BY <2>2 DEF g, f, k
<1>3. BooksOneMore(Booked(budget, family, date), budget, family, now)
  BY <1>1, <1>2 DEF TypeInv, Document, Booked, BooksOneMore
<1>4. Used(budget, date) + 1 \in Int
  BY DEF TypeInv, Document, Used
<1>5. /\ now + GlobalSpacing \in Nat
      /\ [budget.families EXCEPT ![family] = now + Spacing[family]] \in [Endpoints -> Nat]
  BY <1>1 DEF TypeInv, Document
<1>6. Booked(budget, family, date) \in Document
  BY <1>4, <1>5 DEF TypeInv, Document, Booked
<1> QED
  BY <1>3, <1>6

\* What rate_backoff writes is a document with a longer cooldown.
LEMMA BackedOffMeans ==
  ASSUME TypeInv
  PROVE  BackedOff(budget) \in Document /\ PutsOff(BackedOff(budget), budget, now)
<1>1. budget.cooldown \in Nat /\ now + Cooldown \in Nat
  BY SpacingAssumption DEF TypeInv, Document
<1>2. /\ Larger(budget.cooldown, now + Cooldown) \in Nat
      /\ Larger(budget.cooldown, now + Cooldown) >= budget.cooldown
      /\ Larger(budget.cooldown, now + Cooldown) >= now + Cooldown
  BY <1>1, LargerType
<1> QED
  BY <1>2 DEF TypeInv, Document, BackedOff, PutsOff

\* Installing a document gives it the next version and nothing else.
LEMMA InstallMeans ==
  ASSUME TypeInv, NEW doc \in Document, Install(doc)
  PROVE  /\ budget' \in Document /\ budget'.version = budget.version + 1
         /\ budget'.global = doc.global /\ budget'.families = doc.families
         /\ budget'.cooldown = doc.cooldown
BY DEF TypeInv, Document, Install

LEMMA BudgetTypeInit == BudgetInit => TypeInv
<1> SUFFICES ASSUME BudgetInit PROVE TypeInv
  OBVIOUS
<1>1. budget \in Document
  BY DEF BudgetInit, Document
<1>2. caller \in [Callers -> Call]
  BY DEF BudgetInit, Call, Resting, Waiting
<1> QED
  BY <1>1, <1>2 DEF BudgetInit, TypeInv

\* One call moves: the others keep what they hold.
LEMMA BecomeMeans ==
  ASSUME TypeInv, NEW c \in Callers, NEW r, Become(c, r)
  PROVE  /\ caller'[c] = r
         /\ r \in Call => caller' \in [Callers -> Call]
         /\ \A d \in Callers \ {c} : caller'[d] = caller[d]
BY DEF TypeInv, Become

\* What a call at each of its places is.
LEMMA CallParts ==
  ASSUME TypeInv, NEW c \in Callers
  PROVE  /\ caller[c] \in Call
         /\ caller[c].pc \in {"reserve", "asleep"} => caller[c] \in Waits
         /\ caller[c].pc = "write" => caller[c] \in Write
         /\ caller[c].pc = "write backoff" => caller[c] \in WriteBack
BY DEF TypeInv, Call, Resting, Waits, Write, WriteBack

\* What reserve makes of the document it reads.
LEMMA ReserveMeans ==
  ASSUME TypeInv, NEW c \in Callers, Reserve(c)
  PROVE  \/ Become(c, Waiting)
         \/ \E r \in Waits : Become(c, r)
         \/ \E r \in Write : /\ Become(c, r) /\ r.at = now /\ r.version = budget.version
                            /\ BooksOneMore(r.doc, budget, r.family, r.at)
<1> DEFINE r == caller[c]
           asleep == [r EXCEPT !.pc = "asleep"]
           doc == Booked(budget, r.family, r.today)
           write == [pc |-> "write", family |-> r.family, today |-> r.today, tries |-> r.tries,
                     version |-> budget.version, doc |-> doc, at |-> now]
<1>1. r \in Waits
  BY CallParts DEF Reserve
<1>2. asleep \in Waits
  BY <1>1 DEF Waits
<1>3. ASSUME ~(NextStart(budget, r.family) > now)
      PROVE  /\ write \in Write /\ write.at = now /\ write.version = budget.version
             /\ BooksOneMore(write.doc, budget, write.family, write.at)
  <2>1. r.family \in Endpoints /\ r.today \in Int /\ r.tries \in Int
    BY <1>1 DEF Waits
  <2>2. NextStart(budget, r.family) <= now
    <3>1. budget.global \in Nat /\ budget.families[r.family] \in Nat /\ budget.cooldown \in Nat
      BY <2>1 DEF TypeInv, Document
    <3> QED
      BY <1>3, <3>1 DEF TypeInv, NextStart, Larger
  <2>3. doc \in Document /\ BooksOneMore(doc, budget, r.family, now)
    BY <2>1, <2>2, BookedMeans
  <2> HIDE DEF doc
  <2>4. budget.version \in Nat /\ now \in Nat
    BY DEF TypeInv, Document
  <2> QED
    BY <2>1, <2>3, <2>4 DEF Write
<1>4. \/ Become(c, Waiting)
      \/ Become(c, asleep)
      \/ Become(c, write) /\ ~(NextStart(budget, r.family) > now)
  BY DEF Reserve
<1> HIDE DEF asleep, write
<1> QED
  BY <1>2, <1>3, <1>4

LEMMA BudgetTypeStep == TypeInv /\ [BudgetNext]_budgetVars => TypeInv'
<1> SUFFICES ASSUME TypeInv, [BudgetNext]_budgetVars PROVE TypeInv'
  OBVIOUS
<1>1. ASSUME NEW c \in Callers, NEW r \in Call, Become(c, r), UNCHANGED <<budget, now, starts, limited>>
      PROVE  TypeInv'
  BY <1>1, BecomeMeans DEF TypeInv
<1>2. Waiting \in Call
  BY DEF Waiting, Call, Resting
<1>3. CASE Clock
  BY <1>3 DEF Clock, TypeInv
<1>4. ASSUME NEW c \in Callers, Post(c) PROVE TypeInv'
  <2>1. PICK f \in Endpoints :
          Become(c, [pc |-> "reserve", family |-> f, today |-> Day(now), tries |-> Tries])
    BY <1>4 DEF Post
  <2> DEFINE r == [pc |-> "reserve", family |-> f, today |-> Day(now), tries |-> Tries]
  <2>2. r \in Call
    BY DayType, SpacingAssumption DEF TypeInv, Call, Waits
  <2>3. Become(c, r)
    BY <2>1
  <2> HIDE DEF r
  <2> QED
    BY <1>1, <1>4, <2>2, <2>3 DEF Post
<1>5. ASSUME NEW c \in Callers, Reserve(c) PROVE TypeInv'
  <2>1. PICK r \in Call : Become(c, r)
    BY <1>2, <1>5, ReserveMeans DEF Call
  <2> QED
    BY <1>1, <1>5, <2>1 DEF Reserve
<1>6. ASSUME NEW c \in Callers, Awake(c) PROVE TypeInv'
  <2> DEFINE r == [caller[c] EXCEPT !.pc = "reserve", !.today = Day(now), !.tries = Tries]
  <2>1. r \in Waits
    <3>1. caller[c] \in Waits /\ Day(now) \in Int /\ Tries \in Int
      <4>1. caller[c].pc = "asleep" /\ now \in Nat
        BY <1>6 DEF Awake, TypeInv
      <4>2. caller[c] \in Waits
        BY <4>1, CallParts
      <4>3. Day(now) \in Int
        BY <4>1, DayType
      <4> QED
        BY <4>2, <4>3, SpacingAssumption
    <3> QED
      BY <3>1 DEF Waits
  <2>2. r \in Call
    BY <2>1 DEF Call
  <2>3. Become(c, r)
    BY <1>6 DEF Awake
  <2> HIDE DEF r
  <2> QED
    BY <1>1, <1>6, <2>2, <2>3 DEF Awake
<1>7. ASSUME NEW c \in Callers, Granted(c) PROVE TypeInv'
  <2>1. caller[c] \in Write
    BY <1>7, CallParts DEF Granted
  <2>2. PICK r \in Call : Become(c, r)
    <3>1. [pc |-> "request"] \in Call
      BY DEF Call, Resting
    <3>2. [pc |-> "reserve", family |-> caller[c].family, today |-> caller[c].today,
           tries |-> caller[c].tries - 1] \in Waits
      BY <2>1 DEF Write, Waits
    <3> QED
      BY <1>7, <3>1, <3>2 DEF Granted, Retry, Call
  <2>3. caller' \in [Callers -> Call]
    BY <2>2, BecomeMeans
  <2>4. caller[c].doc \in Document
    BY <2>1 DEF Write
  <2>5. budget' \in Document
    BY <1>7, <2>4, InstallMeans DEF Granted, TypeInv
  <2>6. starts' \subseteq Start
    BY <1>7, <2>1 DEF Granted, TypeInv, Write, Start
  <2> QED
    BY <1>7, <2>3, <2>5, <2>6 DEF Granted, TypeInv
<1>8. ASSUME NEW c \in Callers, Answered(c) PROVE TypeInv'
  <2>1. PICK r \in Call : Become(c, r)
    BY <1>2, <1>8 DEF Answered, Call, Resting
  <2> QED
    BY <1>1, <1>8, <2>1 DEF Answered
<1>9. ASSUME NEW c \in Callers, ReadBackoff(c) PROVE TypeInv'
  <2> DEFINE r == [pc |-> "write backoff", version |-> budget.version, doc |-> BackedOff(budget), at |-> now]
  <2>1. r \in Call
    BY BackedOffMeans DEF TypeInv, Document, Call, WriteBack
  <2> QED
    BY <1>1, <1>9, <2>1 DEF ReadBackoff
<1>10. ASSUME NEW c \in Callers, WriteBackoff(c) PROVE TypeInv'
  <2>1. caller[c] \in WriteBack
    BY <1>10, CallParts DEF WriteBackoff
  <2>2. caller[c].doc \in Document /\ caller[c].at \in Nat
    BY <2>1 DEF WriteBack
  <2>3. PICK r \in Call : Become(c, r)
    BY <1>2, <1>10 DEF WriteBackoff, Call, Resting
  <2>4. caller' \in [Callers -> Call]
    BY <2>3, BecomeMeans
  <2>5. budget' \in Document
    BY <1>10, <2>2, InstallMeans DEF WriteBackoff, TypeInv
  <2>6. limited' \subseteq Limit
    <3>1. [from |-> caller[c].at, to |-> now] \in Limit
      BY <2>2 DEF TypeInv, Limit
    <3>2. limited' \in {limited, limited \cup {[from |-> caller[c].at, to |-> now]}}
      BY <1>10 DEF WriteBackoff
    <3> QED
      BY <3>1, <3>2 DEF TypeInv
  <2> QED
    BY <1>10, <2>4, <2>5, <2>6 DEF WriteBackoff, TypeInv
<1>11. CASE UNCHANGED budgetVars
  BY <1>11 DEF budgetVars, TypeInv
<1> QED
  BY <1>3, <1>4, <1>5, <1>6, <1>7, <1>8, <1>9, <1>10, <1>11 DEF BudgetNext

-----------------------------------------------------------------------------
(* The booking *)

LEMMA NextNumber == ASSUME NEW v \in Nat, NEW w \in Nat, v <= w PROVE v <= w + 1 /\ v # w + 1
  OBVIOUS

LEMMA BudgetInvInit == BudgetInit => BudgetInv
<1> SUFFICES ASSUME BudgetInit PROVE BudgetInv
  OBVIOUS
<1>1. ASSUME NEW c \in Callers PROVE WriteSound(caller[c], budget, now)
  <2>1. caller[c].pc = "idle"
    BY DEF BudgetInit, Waiting
  <2> QED
    BY <2>1 DEF WriteSound
<1>2. starts = {} /\ limited = {}
  BY DEF BudgetInit
<1> QED
  BY <1>1, <1>2 DEF BudgetInv

\* A write that was decided from an older document is known by its version.
LEMMA OldWrites ==
  ASSUME TypeInv, BudgetInv, NEW c \in Callers, NEW b, b.version = budget.version + 1
  PROVE  WriteSound(caller[c], b, now)
<1>1. WriteSound(caller[c], budget, now)
  BY DEF BudgetInv
<1>2. budget.version \in Nat
  BY DEF TypeInv, Document
<1>3. caller[c].pc \in {"write", "write backoff"} => caller[c].version \in Nat
  BY CallParts DEF Write, WriteBack
<1>4. caller[c].pc \in {"write", "write backoff"} =>
        caller[c].at <= now /\ caller[c].version <= b.version /\ caller[c].version # b.version
  <2> SUFFICES ASSUME caller[c].pc \in {"write", "write backoff"}
               PROVE  caller[c].at <= now /\ caller[c].version <= b.version /\ caller[c].version # b.version
    OBVIOUS
  <2>1. caller[c].at <= now /\ caller[c].version <= budget.version
    BY <1>1 DEF WriteSound
  <2>2. caller[c].version <= budget.version + 1 /\ caller[c].version # budget.version + 1
    BY <1>2, <1>3, <2>1, NextNumber
  <2> QED
    BY <2>1, <2>2
<1> QED
  BY <1>4 DEF WriteSound

\* A call moves to r and the document stays or is replaced: no write is misled.
LEMMA WritesSound ==
  ASSUME TypeInv, BudgetInv, NEW c \in Callers, NEW r, Become(c, r), WriteSound(r, budget', now'),
         now' = now, budget' = budget \/ budget'.version = budget.version + 1
  PROVE  \A d \in Callers : WriteSound(caller'[d], budget', now')
<1> SUFFICES ASSUME NEW d \in Callers, d # c PROVE WriteSound(caller[d], budget', now)
  BY BecomeMeans
<1>1. CASE budget' = budget
  BY <1>1 DEF BudgetInv
<1>2. CASE budget'.version = budget.version + 1
  BY <1>2, OldWrites
<1> QED
  BY <1>1, <1>2

\* A call that writes nothing is sound.
LEMMA RestSound ==
  ASSUME NEW r, r.pc \notin {"write", "write backoff"}, NEW b, NEW t
  PROVE  WriteSound(r, b, t)
BY DEF WriteSound

\* What is booked stays booked in the document that follows.
LEMMA StillBooked ==
  ASSUME TypeInv, BudgetInv, NEW d \in Document, NEW s \in starts, NEW at \in Nat,
         \/ \E f \in Endpoints : BooksOneMore(d, budget, f, at)
         \/ PutsOff(d, budget, at)
  PROVE  Books(d, s)
<1>1. /\ s.family \in Endpoints /\ s.at \in Nat /\ GlobalSpacing \in Nat /\ Spacing[s.family] \in Nat
      /\ budget.global \in Nat /\ budget.families[s.family] \in Nat
  BY SpacingAssumption DEF TypeInv, Start, Document
<1>2. /\ budget.global >= s.at + GlobalSpacing
      /\ budget.families[s.family] >= s.at + Spacing[s.family]
  BY DEF BudgetInv, Books
<1>3. ASSUME NEW f \in Endpoints, BooksOneMore(d, budget, f, at) PROVE Books(d, s)
  <2>1. d.global >= s.at + GlobalSpacing
    BY <1>1, <1>2, <1>3 DEF BooksOneMore
  <2>2. d.families[s.family] = IF s.family = f THEN at + Spacing[f] ELSE budget.families[s.family]
    BY <1>1, <1>3 DEF BooksOneMore, TypeInv, Document
  <2>3. f = s.family => at >= s.at + Spacing[s.family]
    BY <1>1, <1>2, <1>3 DEF BooksOneMore
  <2> QED
    BY <1>1, <1>2, <2>1, <2>2, <2>3 DEF Books
<1> QED
  BY <1>2, <1>3 DEF PutsOff, Books

\* So is what was put off.
LEMMA StillPutOff ==
  ASSUME TypeInv, BudgetInv, NEW d \in Document, NEW l \in limited, NEW at \in Nat,
         \/ \E f \in Endpoints : BooksOneMore(d, budget, f, at)
         \/ PutsOff(d, budget, at)
  PROVE  Remembers(d, l)
<1>1. budget.cooldown \in Nat /\ d.cooldown \in Nat /\ l.from \in Nat /\ Cooldown \in Nat
  BY SpacingAssumption DEF TypeInv, Document, Limit
<1>2. budget.cooldown >= l.from + Cooldown
  BY DEF BudgetInv, Remembers
<1>3. ASSUME NEW f \in Endpoints, BooksOneMore(d, budget, f, at) PROVE d.cooldown >= budget.cooldown
  BY <1>1, <1>3 DEF BooksOneMore
<1>4. ASSUME PutsOff(d, budget, at) PROVE d.cooldown >= budget.cooldown
  BY <1>4 DEF PutsOff
<1>5. d.cooldown >= budget.cooldown
  BY <1>3, <1>4
<1> QED
  BY <1>1, <1>2, <1>5 DEF Remembers

LEMMA BudgetInvStep == TypeInv /\ BudgetInv /\ [BudgetNext]_budgetVars => BudgetInv'
<1> SUFFICES ASSUME TypeInv, BudgetInv, [BudgetNext]_budgetVars PROVE BudgetInv'
  OBVIOUS
\* A call moves, the document and the time stay.
<1>1. ASSUME NEW c \in Callers, NEW r, Become(c, r), WriteSound(r, budget, now),
             UNCHANGED <<budget, now, starts, limited>>
      PROVE  BudgetInv'
  <2>1. \A d \in Callers : WriteSound(caller'[d], budget', now')
    BY <1>1, WritesSound
  <2> QED
    BY <1>1, <2>1 DEF BudgetInv
<1>2. WriteSound(Waiting, budget, now)
  BY RestSound DEF Waiting
<1>3. CASE Clock
  <2>1. \A c \in Callers : caller[c].pc \in {"write", "write backoff"} => caller[c].at \in Nat
    BY CallParts DEF Write, WriteBack
  <2>2. ASSUME NEW c \in Callers PROVE WriteSound(caller[c], budget, now + 1)
    <3>1. WriteSound(caller[c], budget, now)
      BY DEF BudgetInv
    <3>2. caller[c].pc \in {"write", "write backoff"} => caller[c].at <= now + 1
      <4> SUFFICES ASSUME caller[c].pc \in {"write", "write backoff"} PROVE caller[c].at <= now + 1
        OBVIOUS
      <4>1. caller[c].at \in Nat /\ now \in Nat /\ caller[c].at <= now
        BY <2>1, <3>1 DEF TypeInv, WriteSound
      <4> QED
        BY <4>1, NextNumber
    <3> QED
      BY <3>1, <3>2 DEF WriteSound
  <2>3. \A s \in starts : s.at <= now + 1
    BY DEF BudgetInv, TypeInv, Start
  <2> QED
    BY <1>3, <2>1, <2>2, <2>3 DEF Clock, BudgetInv
<1>4. ASSUME NEW c \in Callers, Post(c) PROVE BudgetInv'
  <2>1. PICK f \in Endpoints :
          Become(c, [pc |-> "reserve", family |-> f, today |-> Day(now), tries |-> Tries])
    BY <1>4 DEF Post
  <2> DEFINE r == [pc |-> "reserve", family |-> f, today |-> Day(now), tries |-> Tries]
  <2>2. Become(c, r) /\ r.pc = "reserve"
    BY <2>1
  <2> HIDE DEF r
  <2>3. WriteSound(r, budget, now)
    BY <2>2, RestSound
  <2> QED
    BY <1>1, <1>4, <2>2, <2>3 DEF Post
<1>5. ASSUME NEW c \in Callers, Reserve(c) PROVE BudgetInv'
  <2>1. ASSUME NEW r \in Waits PROVE WriteSound(r, budget, now)
    BY RestSound DEF Waits
  <2>2. ASSUME NEW r \in Write, r.at = now, r.version = budget.version,
               BooksOneMore(r.doc, budget, r.family, r.at)
        PROVE  WriteSound(r, budget, now)
    <3>1. r.pc = "write" /\ r.at <= now /\ r.version <= budget.version
      BY <2>2 DEF TypeInv, Document, Write
    <3> QED
      BY <2>2, <3>1 DEF WriteSound
  <2>3. PICK r : Become(c, r) /\ WriteSound(r, budget, now)
    BY <1>2, <1>5, <2>1, <2>2, ReserveMeans
  <2> QED
    BY <1>1, <1>5, <2>3 DEF Reserve
<1>6. ASSUME NEW c \in Callers, Awake(c) PROVE BudgetInv'
  <2> DEFINE r == [caller[c] EXCEPT !.pc = "reserve", !.today = Day(now), !.tries = Tries]
  <2>1. Become(c, r) /\ r.pc = "reserve"
    BY <1>6, CallParts DEF Awake, Waits
  <2> HIDE DEF r
  <2>2. WriteSound(r, budget, now)
    BY <2>1, RestSound
  <2> QED
    BY <1>1, <1>6, <2>1, <2>2 DEF Awake
<1>7. ASSUME NEW c \in Callers, Granted(c) PROVE BudgetInv'
  <2> DEFINE w == caller[c]
  <2>1. /\ w \in Write /\ w.doc \in Document /\ w.at \in Nat /\ w.family \in Endpoints
    BY <1>7, CallParts DEF Granted, Write
  <2>2. now' = now /\ limited' = limited
    BY <1>7 DEF Granted
  <2>3. PICK r : Become(c, r) /\ r.pc \in {"request", "reserve"}
    BY <1>7 DEF Granted, Retry
  <2>4. WriteSound(r, budget', now')
    BY <2>3, RestSound
  <2>5. CASE UNCHANGED <<budget, starts>>
    BY <1>1, <2>2, <2>3, <2>4, <2>5
  <2>6. CASE Current(w) /\ Install(w.doc) /\ starts' \subseteq starts \cup {[by |-> c, at |-> w.at, family |-> w.family, day |-> w.today]}
    <3>1. /\ w.at <= now /\ BooksOneMore(w.doc, budget, w.family, w.at)
      BY <1>7, <2>6 DEF Granted, Current, BudgetInv, WriteSound
    <3>2. /\ budget' \in Document /\ budget'.version = budget.version + 1
          /\ BooksOneMore(budget', budget, w.family, w.at)
      BY <2>1, <2>6, <3>1, InstallMeans DEF BooksOneMore
    <3>3. \A d \in Callers : WriteSound(caller'[d], budget', now')
      BY <2>2, <2>3, <2>4, <3>2, WritesSound
    <3>4. \A s \in starts : Books(budget', s)
      BY <2>1, <3>2, StillBooked
    <3>5. ASSUME NEW s \in starts', s \notin starts PROVE s.at <= now /\ Books(budget', s)
      <4>1. s.at = w.at /\ s.family = w.family
        BY <2>6, <3>5
      <4>2. budget'.families[w.family] = w.at + Spacing[w.family] /\ budget'.global = w.at + GlobalSpacing
        BY <2>1, <3>2 DEF BooksOneMore, TypeInv, Document
      <4>3. w.at + Spacing[w.family] \in Nat /\ w.at + GlobalSpacing \in Nat
        BY <2>1, SpacingAssumption
      <4> QED
        BY <3>1, <4>1, <4>2, <4>3 DEF Books
    <3>6. \A l \in limited : Remembers(budget', l)
      BY <2>1, <3>2, StillPutOff
    <3> QED
      BY <2>2, <3>3, <3>4, <3>5, <3>6 DEF BudgetInv
  <2> QED
    BY <1>7, <2>5, <2>6 DEF Granted
<1>8. ASSUME NEW c \in Callers, Answered(c) PROVE BudgetInv'
  <2>1. PICK r : Become(c, r) /\ r.pc \in {"idle", "backoff"}
    BY <1>8 DEF Answered, Waiting
  <2>2. WriteSound(r, budget, now)
    BY <2>1, RestSound
  <2> QED
    BY <1>1, <1>8, <2>1, <2>2 DEF Answered
<1>9. ASSUME NEW c \in Callers, ReadBackoff(c) PROVE BudgetInv'
  <2> DEFINE doc == BackedOff(budget)
             r == [pc |-> "write backoff", version |-> budget.version, doc |-> doc, at |-> now]
  <2>1. PutsOff(doc, budget, now)
    BY BackedOffMeans
  <2>2. now <= now /\ budget.version <= budget.version
    BY DEF TypeInv, Document
  <2> HIDE DEF doc
  <2>3. WriteSound(r, budget, now)
    BY <2>1, <2>2 DEF WriteSound
  <2>4. Become(c, r)
    BY <1>9 DEF ReadBackoff, doc
  <2> HIDE DEF r
  <2> QED
    BY <1>1, <1>9, <2>3, <2>4 DEF ReadBackoff
<1>10. ASSUME NEW c \in Callers, WriteBackoff(c) PROVE BudgetInv'
  <2> DEFINE w == caller[c]
  <2>1. /\ w \in WriteBack /\ w.doc \in Document /\ w.at \in Nat
    BY <1>10, CallParts DEF WriteBackoff, WriteBack
  <2>2. now' = now /\ starts' = starts
    BY <1>10 DEF WriteBackoff
  <2>3. PICK r : Become(c, r) /\ r.pc \in {"idle", "backoff"}
    <3>1. Become(c, Waiting) \/ Become(c, [pc |-> "backoff"])
      BY <1>10 DEF WriteBackoff
    <3>2. Waiting.pc = "idle"
      BY DEF Waiting
    <3> QED
      BY <3>1, <3>2
  <2>4. WriteSound(r, budget', now')
    BY <2>3, RestSound
  <2>5. CASE UNCHANGED <<budget, limited>>
    BY <1>1, <2>2, <2>3, <2>4, <2>5
  <2>6. CASE /\ Current(w) /\ Install(w.doc)
             /\ limited' = limited \cup {[from |-> w.at, to |-> now]}
    <3>1. PutsOff(w.doc, budget, w.at)
      BY <1>10, <2>6 DEF WriteBackoff, Current, BudgetInv, WriteSound
    <3>2. /\ budget' \in Document /\ budget'.version = budget.version + 1
          /\ PutsOff(budget', budget, w.at)
      BY <2>1, <2>6, <3>1, InstallMeans DEF PutsOff
    <3>3. \A d \in Callers : WriteSound(caller'[d], budget', now')
      BY <2>2, <2>3, <2>4, <3>2, WritesSound
    <3>4. \A s \in starts : Books(budget', s)
      BY <2>1, <3>2, StillBooked
    <3>5. \A l \in limited : Remembers(budget', l)
      BY <2>1, <3>2, StillPutOff
    <3>6. Remembers(budget', [from |-> w.at, to |-> now])
      BY <3>2 DEF PutsOff, Remembers
    <3> QED
      BY <2>2, <2>6, <3>3, <3>4, <3>5, <3>6 DEF BudgetInv
  <2> QED
    BY <1>10, <2>5, <2>6 DEF WriteBackoff
<1>11. CASE UNCHANGED budgetVars
  BY <1>11 DEF budgetVars, BudgetInv
<1> QED
  BY <1>3, <1>4, <1>5, <1>6, <1>7, <1>8, <1>9, <1>10, <1>11 DEF BudgetNext

-----------------------------------------------------------------------------
(* What the document promises *)

\* A new start keeps its distance from the others.
LEMMA StartsStep ==
  TypeInv /\ BudgetInv /\ StartsSpaced /\ [BudgetNext]_budgetVars => StartsSpaced'
<1> SUFFICES ASSUME TypeInv, BudgetInv, StartsSpaced, [BudgetNext]_budgetVars PROVE StartsSpaced'
  OBVIOUS
<1>1. CASE starts' = starts
  BY <1>1 DEF StartsSpaced
<1>2. ASSUME NEW c \in Callers, Granted(c), starts' # starts PROVE StartsSpaced'
  <2> DEFINE w == caller[c]
             new == [by |-> c, at |-> w.at, family |-> w.family, day |-> w.today]
  <2>1. /\ w \in Write /\ w.at \in Nat /\ w.family \in Endpoints
        /\ Current(w) /\ starts' = starts \cup {new}
    BY <1>2, CallParts DEF Granted, Write
  <2>2. BooksOneMore(w.doc, budget, w.family, w.at)
    BY <1>2, <2>1 DEF Granted, Current, BudgetInv, WriteSound
  <2>3. ASSUME NEW s \in starts
        PROVE  /\ s.at \in Nat /\ s.family \in Endpoints
               /\ w.at >= s.at + GlobalSpacing
               /\ s.family = w.family => w.at >= s.at + Spacing[s.family]
    <3>1. s.at \in Nat /\ s.family \in Endpoints /\ Books(budget, s)
      BY DEF TypeInv, Start, BudgetInv
    <3>2. /\ GlobalSpacing \in Nat /\ Spacing[s.family] \in Nat
          /\ budget.global \in Nat /\ budget.families[s.family] \in Nat
      BY <3>1, SpacingAssumption DEF TypeInv, Document
    <3> QED
      BY <2>1, <2>2, <3>1, <3>2 DEF Books, BooksOneMore
  <2> SUFFICES ASSUME NEW s \in starts', NEW u \in starts', s # u, s.at <= u.at
               PROVE  /\ u.at - s.at >= GlobalSpacing
                      /\ s.family = u.family => u.at - s.at >= Spacing[s.family]
    BY DEF StartsSpaced
  <2>4. new.at = w.at /\ new.family = w.family
    OBVIOUS
  <2> HIDE DEF w, new
  <2>5. CASE s \in starts /\ u \in starts
    BY <2>5 DEF StartsSpaced
  <2>6. CASE s \in starts /\ u = new
    BY <2>1, <2>3, <2>4, <2>6, SpacingAssumption
  <2>7. CASE s = new /\ u \in starts
    BY <2>1, <2>3, <2>4, <2>7, SpacingAssumption
  <2> QED
    BY <2>1, <2>5, <2>6, <2>7
<1> QED
  BY <1>1, <1>2 DEF BudgetNext, Clock, Post, Reserve, Awake, Answered, ReadBackoff, WriteBackoff, budgetVars

\* A new start waits for the cooldowns recorded before, a new cooldown has no start
\* behind it.
LEMMA CooldownStep ==
  TypeInv /\ BudgetInv /\ CooldownHolds /\ [BudgetNext]_budgetVars => CooldownHolds'
<1> SUFFICES ASSUME TypeInv, BudgetInv, CooldownHolds, [BudgetNext]_budgetVars PROVE CooldownHolds'
  OBVIOUS
<1>1. CASE starts' = starts /\ limited' = limited
  BY <1>1 DEF CooldownHolds
<1>2. ASSUME NEW c \in Callers, Granted(c), starts' # starts PROVE CooldownHolds'
  <2> DEFINE w == caller[c]
             new == [by |-> c, at |-> w.at, family |-> w.family, day |-> w.today]
  <2>1. /\ w \in Write /\ w.at \in Nat /\ limited' = limited
        /\ Current(w) /\ starts' = starts \cup {new} /\ new.at = w.at
    BY <1>2, CallParts DEF Granted, Write
  <2>2. w.at >= budget.cooldown
    BY <1>2, <2>1 DEF Granted, Current, BudgetInv, WriteSound, BooksOneMore
  <2>3. ASSUME NEW l \in limited PROVE w.at >= l.from + Cooldown
    <3>1. budget.cooldown \in Nat /\ l.from \in Nat /\ budget.cooldown >= l.from + Cooldown
      BY DEF TypeInv, Document, Limit, BudgetInv, Remembers
    <3> QED
      BY <2>1, <2>2, <3>1, SpacingAssumption
  <2> HIDE DEF w, new
  <2> QED
    BY <2>1, <2>3 DEF CooldownHolds
<1>3. ASSUME NEW c \in Callers, WriteBackoff(c), limited' # limited PROVE CooldownHolds'
  <2> DEFINE new == [from |-> caller[c].at, to |-> now]
  <2>1. limited' = limited \cup {new} /\ starts' = starts /\ new.to = now
    BY <1>3 DEF WriteBackoff
  <2>2. \A s \in starts : ~(s.at > now)
    BY DEF BudgetInv, TypeInv, Start
  <2> HIDE DEF new
  <2> QED
    BY <2>1, <2>2 DEF CooldownHolds
<1> QED
  BY <1>1, <1>2, <1>3
     DEF BudgetNext, Clock, Post, Reserve, Awake, Granted, Answered, ReadBackoff, WriteBackoff, budgetVars

\* Whatever the processes do between a read and its write, and although a write that
\* took effect may be reported as lost: two starts keep the spacing of their family
\* and the global one, and no start falls into a cooldown that was recorded before.
THEOREM BudgetIsKept == BudgetSpec => []BudgetHolds
<1>1. BudgetInit => StartsSpaced /\ CooldownHolds
  BY DEF BudgetInit, StartsSpaced, CooldownHolds
<1> QED
  BY <1>1, BudgetTypeInit, BudgetTypeStep, BudgetInvInit, BudgetInvStep, StartsStep, CooldownStep, PTL
     DEF BudgetSpec, BudgetHolds

(***************************************************************************)
(* A scan keeps up with what is stored, for any number of namespaces, keys, *)
(* workers, scans and faults and every size of a page.                      *)
(*                                                                         *)
(* A tick works on a copy of the scan it read before; until it writes, that *)
(* copy must stay as true of what has been inspected and noted as the scan  *)
(* itself.  What it holds of a scan that has been replaced since has no     *)
(* effect: scans never come back to an id.                                  *)
(***************************************************************************)

Phases == {"checks", "inventory", "repair", "verify", "finished"}
States == {"NOT_STARTED", "QUEUED", "SCANNING", "REPAIRING", "VERIFYING", "STOPPED", "FINISHED_WITH_FINDINGS"}
ScanState == [id : Nat, state : States, phase : Phases, repair : BOOLEAN, ns : Nat, cursor : Nat,
              lease : Workers \cup {None}, retry : BOOLEAN]
Tick == [pc : {"idle"}] \cup [pc : {"claim", "work", "release"}, scan : ScanState]
        \cup [pc : {"details", "update", "release"}, scan : ScanState, new : ScanState,
              details : SUBSET (Nat \X Namespaces \X Keys)]

DoctorTypes ==
  /\ scan \in ScanState /\ archive \in [Namespaces -> SUBSET Keys]
  /\ ticks \in [Workers -> Tick] /\ known \subseteq Stored

(* A scan s that has its inventory before it stands in a namespace; one that *)
(* is finished is not pending.                                              *)
WellFormed(s) ==
  /\ s.phase \in {"checks", "inventory"} => s.ns \in Namespaces
  /\ s.phase = "finished" => ~Pending(s)

(* Every record kn that lies behind the cursor of s has been inspected, and *)
(* its finding is in the pages; after the inventory that is every record.   *)
Passed(s, r) == r[1] < s.ns \/ (r[1] = s.ns /\ r[2] <= s.cursor)
Covered(s, insp, pgs, kn) ==
  /\ s.phase \in {"repair", "verify", "finished"} => \A r \in kn : Passed(s, r)
  /\ \A r \in kn : Passed(s, r) => r \in insp /\ (r \in Broken => <<s.id, r[1], r[2]>> \in pgs)

(* What a tick t holds of the scan it began with, and of the one it will    *)
(* write; nothing when another scan has been started meanwhile.             *)
TickSound(t, id, insp, pgs, kn) ==
  /\ t.pc # "idle" => t.scan.id <= id /\ WellFormed(t.scan) /\ Pending(t.scan)
  /\ t.pc \in {"details", "update"} => t.new.id = t.scan.id /\ WellFormed(t.new)
  /\ t.pc \in {"claim", "work"} /\ t.scan.id = id => Covered(t.scan, insp, pgs, kn)
  /\ t.pc = "details" /\ t.scan.id = id => Covered(t.new, insp, pgs \cup t.details, kn)
  /\ t.pc = "update" /\ t.scan.id = id => Covered(t.new, insp, pgs, kn)

DoctorSound ==
  /\ WellFormed(scan) /\ Covered(scan, inspected, pages, known)
  /\ \A w \in Workers : TickSound(ticks[w], scan.id, inspected, pages, known)
DoctorInv == DoctorTypes /\ DoctorSound

USE RecordsOrdered

-----------------------------------------------------------------------------
(* Pages                                                                   *)

\* Keys are numbers, and there are finitely many.
LEMMA KeysFinite ==
  ASSUME NEW S \in SUBSET Keys
  PROVE  IsFiniteSet(S) /\ Cardinality(S) \in Nat /\ S \subseteq Nat
<1>1. IsFiniteSet(Keys) /\ Keys \subseteq Nat
  <2> DEFINE n == Cardinality(Keys)
  <2>1. Keys = 1 .. n /\ n \in Nat
    OBVIOUS
  <2> HIDE DEF n
  <2>2. IsFiniteSet(1 .. n)
    BY <2>1, FS_Interval
  <2> QED
    BY <2>1, <2>2
<1>2. IsFiniteSet(S)
  BY <1>1, FS_Subset
<1> QED
  BY <1>1, <1>2, FS_CardinalityType

\* Of some keys one is the least, and one the greatest.
LEMMA LeastKey ==
  ASSUME NEW S \in SUBSET Keys, S # {}
  PROVE  \E k \in S : \A j \in S : k <= j
<1>1. S \subseteq Nat
  BY KeysFinite
<1>2. PICK k \in S : \A j \in S : ~(<<j, k>> \in OpToRel(<, Nat))
  BY <1>1, NatLessThanWellFounded, WFMin
<1>3. ASSUME NEW j \in S PROVE k <= j
  <2>1. j \in Nat /\ k \in Nat /\ <<j, k>> \in Nat \X Nat
    BY <1>1
  <2>2. ~(j < k)
    BY <1>2, <2>1 DEF OpToRel
  <2> QED
    BY <2>1, <2>2
<1> QED
  BY <1>3

LEMMA GreatestKey ==
  ASSUME NEW S \in SUBSET Keys, S # {}
  PROVE  Last(S) \in S /\ \A j \in S : j <= Last(S)
<1> DEFINE bounds == {b \in Keys : \A j \in S : j <= b}
<1>1. Cardinality(Keys) \in bounds
  <2>1. \A j \in S : j \in 1 .. Cardinality(Keys)
    OBVIOUS
  <2>2. Cardinality(Keys) >= 1
    BY <2>1
  <2> QED
    BY <2>1, <2>2
<1>2. PICK k \in bounds : \A b \in bounds : k <= b
  BY <1>1, LeastKey
<1>3. k \in S
  <2> SUFFICES ASSUME k \notin S PROVE FALSE
    OBVIOUS
  <2>1. \A j \in S : j <= k - 1 /\ j >= 1
    BY <1>2, KeysFinite
  <2>2. k - 1 \in bounds
    BY <1>2, <2>1
  <2> QED
    BY <1>2, <2>2
<1>4. \E g \in S : \A j \in S : j <= g
  BY <1>2, <1>3
<1> QED
  BY <1>4 DEF Last

\* A page holds what comes before any of its records, and a page that is not
\* full holds all that is left.
LEMMA PageIsPrefix ==
  ASSUME NEW s, NEW k \in Page(s), NEW j \in archive[s.ns], archive[s.ns] \subseteq Keys, s.cursor \in Nat,
         j > s.cursor, j <= k
  PROVE  j \in Page(s)
<1> DEFINE after == {i \in archive[s.ns] : i > s.cursor}
           before(i) == {h \in after : h < i}
<1>1. after \subseteq Keys /\ j \in after /\ k \in after /\ Cardinality(before(k)) < PageSize
  BY DEF Page
<1>2. before(j) \subseteq before(k)
  BY <1>1, KeysFinite
<1>3. IsFiniteSet(before(k)) /\ Cardinality(before(k)) \in Nat
  BY <1>1, KeysFinite
<1>4. Cardinality(before(j)) <= Cardinality(before(k)) /\ Cardinality(before(j)) \in Nat
  BY <1>1, <1>2, <1>3, KeysFinite, FS_Subset
<1>5. Cardinality(before(j)) < PageSize
  BY <1>1, <1>3, <1>4, PagesAdvance
<1> QED
  BY <1>1, <1>5 DEF Page

LEMMA ShortPageIsAll ==
  ASSUME NEW s, archive[s.ns] \subseteq Keys, s.cursor \in Nat, Cardinality(Page(s)) < PageSize
  PROVE  \A k \in archive[s.ns] : k > s.cursor => k \in Page(s)
<1> DEFINE after == {i \in archive[s.ns] : i > s.cursor}
           before(i) == {h \in after : h < i}
           waiting == after \ Page(s)
<1>1. after \subseteq Keys /\ Page(s) \subseteq Keys
  BY DEF Page
<1> SUFFICES ASSUME waiting # {} PROVE FALSE
  OBVIOUS
<1>2. PICK k \in waiting : \A j \in waiting : k <= j
  BY <1>1, LeastKey
<1>3. before(k) \subseteq Page(s)
  BY <1>1, <1>2, KeysFinite
<1>4. IsFiniteSet(Page(s)) /\ Cardinality(Page(s)) \in Nat
  BY <1>1, KeysFinite
<1>5. Cardinality(before(k)) <= Cardinality(Page(s)) /\ Cardinality(before(k)) \in Nat
  BY <1>1, <1>3, <1>4, KeysFinite, FS_Subset
<1>6. Cardinality(before(k)) < PageSize
  BY <1>4, <1>5, PagesAdvance
<1> QED
  BY <1>2, <1>6 DEF Page

\* What a step of the inventory leaves behind it was there or is inspected now.
LEMMA AdvanceCovers ==
  ASSUME NEW s \in ScanState, s.ns \in Namespaces, archive \in [Namespaces -> SUBSET Keys],
         NEW visited \in Prefixes(Page(s)), NEW n \in Namespaces, NEW k \in archive[n],
         n < Advance(s, Page(s), visited).ns
           \/ (n = Advance(s, Page(s), visited).ns /\ k <= Advance(s, Page(s), visited).cursor)
  PROVE  Passed(s, <<n, k>>) \/ (n = s.ns /\ k \in visited)
<1> DEFINE names == Page(s)
           at == Advance(s, names, visited)
           finished == Cardinality(names) < PageSize /\ visited = names
<1>1. s.ns \in Nat /\ s.cursor \in Nat /\ n \in Nat /\ k \in Nat /\ k >= 1 /\ archive[s.ns] \subseteq Keys
  BY DEF ScanState
<1>2. CASE finished
  <2>1. at.ns = s.ns + 1 /\ at.cursor = 0
    BY <1>2 DEF Advance
  <2>2. n < s.ns \/ n = s.ns
    BY <1>1, <2>1
  <2>3. n = s.ns /\ k > s.cursor => k \in visited
    BY <1>1, <1>2, ShortPageIsAll
  <2> QED
    BY <1>1, <2>2, <2>3 DEF Passed
<1>3. CASE ~finished
  <2>1. at.ns = s.ns + 0 /\ at.cursor = Last(visited)
    BY <1>3 DEF Advance
  <2>2. at.ns = s.ns
    BY <1>1, <2>1
  <2>3. visited \subseteq names /\ names \subseteq Keys
    BY <1>1 DEF Prefixes, Page
  <2>4. visited # {}
    <3>1. names # {} => visited # {}
      BY DEF Prefixes
    <3>2. Cardinality({}) < PageSize
      BY FS_EmptySet, PagesAdvance
    <3> QED
      BY <1>3, <2>3, <3>1, <3>2
  <2>5. Last(visited) \in visited /\ Last(visited) \in Nat
    BY <2>3, <2>4, GreatestKey, KeysFinite
  <2>6. CASE n < s.ns
    BY <2>6 DEF Passed
  <2>7. CASE n = s.ns /\ k <= s.cursor
    BY <2>7 DEF Passed
  <2>8. CASE n = s.ns /\ k > s.cursor
    <3>1. k <= Last(visited)
      BY <1>1, <2>1, <2>2, <2>8
    <3>2. k \in names
      BY <1>1, <2>3, <2>5, <2>8, <3>1, PageIsPrefix
    <3>3. k < Last(visited) => k \in visited
      BY <2>5, <3>2 DEF Prefixes
    <3> QED
      BY <1>1, <2>5, <2>8, <3>1, <3>3
  <2> QED
    BY <1>1, <2>2, <2>6, <2>7, <2>8
<1> QED
  BY <1>2, <1>3

-----------------------------------------------------------------------------
(* Scans and ticks                                                         *)

\* What is covered stays so while more is inspected and noted.
LEMMA CoveredGrows ==
  ASSUME NEW s, NEW insp, NEW pgs, NEW kn, NEW insp2, NEW pgs2,
         Covered(s, insp, pgs, kn), insp \subseteq insp2, pgs \subseteq pgs2
  PROVE  Covered(s, insp2, pgs2, kn)
BY DEF Covered

\* Lease and retry are no part of where a scan stands.
LEMMA SameStand ==
  ASSUME NEW s, NEW r, NEW insp, NEW pgs, NEW kn,
         r.id = s.id, r.ns = s.ns, r.cursor = s.cursor, r.phase = s.phase
  PROVE  /\ Covered(s, insp, pgs, kn) => Covered(r, insp, pgs, kn)
         /\ WellFormed(s) /\ (Pending(r) => Pending(s)) => WellFormed(r)
BY DEF Covered, WellFormed, Passed

LEMMA TickParts ==
  ASSUME NEW t \in Tick
  PROVE  /\ t.pc # "idle" => t.scan \in ScanState
         /\ t.pc \in {"details", "update"} =>
              t.new \in ScanState /\ t.details \subseteq Nat \X Namespaces \X Keys
BY DEF Tick

\* A tick that goes on holds what it held.
LEMMA TickGoesOn ==
  ASSUME NEW t \in Tick, NEW pc,
         \/ t.pc \in {"work", "update"} /\ pc = "release"
         \/ t.pc = "details" /\ pc \in {"update", "release"}
  PROVE  /\ [t EXCEPT !.pc = pc] \in Tick
         /\ [t EXCEPT !.pc = pc].pc = pc /\ [t EXCEPT !.pc = pc].scan = t.scan
         /\ pc = "update" => [t EXCEPT !.pc = pc].new = t.new
<1>1. CASE t.pc = "work"
  <2>1. t \in [pc : {"claim", "work", "release"}, scan : ScanState]
    BY <1>1 DEF Tick
  <2>2. [t EXCEPT !.pc = pc] \in [pc : {"claim", "work", "release"}, scan : ScanState]
    BY <1>1, <2>1
  <2> QED
    BY <1>1, <2>1, <2>2 DEF Tick
<1>2. CASE t.pc \in {"details", "update"}
  <2>1. t \in [pc : {"details", "update", "release"}, scan : ScanState, new : ScanState,
               details : SUBSET (Nat \X Namespaces \X Keys)]
    BY <1>2 DEF Tick
  <2>2. [t EXCEPT !.pc = pc] \in [pc : {"details", "update", "release"}, scan : ScanState, new : ScanState,
                                  details : SUBSET (Nat \X Namespaces \X Keys)]
    BY <1>2, <2>1
  <2> QED
    BY <1>2, <2>1, <2>2 DEF Tick
<1> QED
  BY <1>1, <1>2

\* The scan after an update is the new one or, when the update does not apply,
\* the old one.
LEMMA UpdateSound ==
  ASSUME NEW id \in Nat, NEW new \in ScanState, NEW insp, NEW pgs, NEW kn, new.id = id,
         scan \in ScanState, WellFormed(scan), Covered(scan, insp, pgs, kn), WellFormed(new),
         id = scan.id => Covered(new, insp, pgs, kn), scan' = Updated(id, new)
  PROVE  /\ scan' \in ScanState /\ scan'.id = scan.id
         /\ WellFormed(scan') /\ Covered(scan', insp, pgs, kn)
<1>1. CASE Mine(scan, id)
  <2> DEFINE r == [new EXCEPT !.id = scan.id, !.lease = scan.lease]
  <2>1. r \in ScanState /\ r.id = scan.id /\ r.ns = new.ns /\ r.cursor = new.cursor /\ r.phase = new.phase
        /\ r.state = new.state
    BY DEF ScanState
  <2>2. scan' = r /\ id = scan.id
    BY <1>1 DEF Updated, Mine
  <2>3. Pending(r) => Pending(new)
    BY <2>1 DEF Pending
  <2> HIDE DEF r
  <2>4. Covered(r, insp, pgs, kn) /\ WellFormed(r)
    BY <2>1, <2>2, <2>3, SameStand
  <2> QED
    BY <2>1, <2>2, <2>4
<1>2. CASE ~Mine(scan, id)
  BY <1>2 DEF Updated
<1> QED
  BY <1>1, <1>2

\* One tick moves, or none; the others keep what they hold.
LEMMA OthersKeep ==
  ASSUME DoctorSound, scan'.id = scan.id, inspected \subseteq inspected', pages \subseteq pages', known' = known,
         NEW v \in Workers
  PROVE  TickSound(ticks[v], scan'.id, inspected', pages', known')
<1>1. TickSound(ticks[v], scan.id, inspected, pages, known)
  BY DEF DoctorSound
<1> DEFINE t == ticks[v]
<1>2. t.pc \in {"claim", "work"} /\ t.scan.id = scan.id => Covered(t.scan, inspected', pages', known)
  BY <1>1, CoveredGrows DEF TickSound
<1>3. t.pc = "details" /\ t.scan.id = scan.id => Covered(t.new, inspected', pages' \cup t.details, known)
  <2>1. pages \cup t.details \subseteq pages' \cup t.details
    OBVIOUS
  <2> QED
    BY <1>1, <2>1, CoveredGrows DEF TickSound
<1>4. t.pc = "update" /\ t.scan.id = scan.id => Covered(t.new, inspected', pages', known)
  BY <1>1, CoveredGrows DEF TickSound
<1> QED
  BY <1>1, <1>2, <1>3, <1>4 DEF TickSound

LEMMA TickMoves ==
  ASSUME DoctorTypes, DoctorSound, NEW w \in Workers, NEW t \in Tick, Go(w, t), scan'.id = scan.id,
         inspected \subseteq inspected', pages \subseteq pages', known' = known,
         TickSound(t, scan.id, inspected', pages', known)
  PROVE  /\ ticks' \in [Workers -> Tick]
         /\ \A v \in Workers : TickSound(ticks'[v], scan'.id, inspected', pages', known')
<1>1. ticks \in [Workers -> Tick] /\ ticks' = [ticks EXCEPT ![w] = t]
  BY DEF DoctorTypes, Go
<1>2. ASSUME NEW v \in Workers PROVE TickSound(ticks'[v], scan'.id, inspected', pages', known')
  <2>1. CASE v = w
    BY <1>1, <2>1
  <2>2. CASE v # w
    <3>1. ticks'[v] = ticks[v]
      BY <1>1, <2>2
    <3> QED
      BY <3>1, OthersKeep
  <2> QED
    BY <2>1, <2>2
<1> QED
  BY <1>1, <1>2

\* A tick that rests, or has nothing left to write.
LEMMA RestingTicks ==
  /\ Idle \in Tick
  /\ \A id, insp, pgs, kn : TickSound(Idle, id, insp, pgs, kn)
<1>1. Idle.pc = "idle"
  BY DEF Idle
<1> QED
  BY <1>1 DEF Idle, Tick, TickSound

LEMMA DoctorSoundNext ==
  ASSUME WellFormed(scan'), Covered(scan', inspected', pages', known'),
         \A v \in Workers : TickSound(ticks'[v], scan'.id, inspected', pages', known')
  PROVE  DoctorSound'
BY DEF DoctorSound

LEMMA DoctorTypesNext ==
  ASSUME scan' \in ScanState, archive' = archive, ticks' \in [Workers -> Tick], known' = known, DoctorTypes
  PROVE  DoctorTypes'
BY DEF DoctorTypes, Stored

-----------------------------------------------------------------------------

LEMMA NoScanStands ==
  /\ NoScan \in ScanState /\ WellFormed(NoScan)
  /\ \A r \in Namespaces \X Keys : ~Passed(NoScan, r)
<1>1. NoScan.ns = 1 /\ NoScan.cursor = 0 /\ NoScan.phase = "checks"
  BY DEF NoScan
<1>2. 1 \in Namespaces
  OBVIOUS
<1>3. ASSUME NEW r \in Namespaces \X Keys PROVE r[1] >= 1 /\ r[2] >= 1 /\ r[1] \in Nat /\ r[2] \in Nat
  <2>1. r[1] \in 1 .. Cardinality(Namespaces) /\ r[2] \in 1 .. Cardinality(Keys)
    OBVIOUS
  <2> QED
    BY <2>1
<1> QED
  BY <1>1, <1>2, <1>3 DEF NoScan, ScanState, States, Phases, WellFormed, Passed

LEMMA DoctorBegins == DoctorInit => DoctorInv
<1> SUFFICES ASSUME DoctorInit PROVE DoctorInv
  OBVIOUS
<1>1. DoctorTypes
  BY NoScanStands, RestingTicks DEF DoctorInit, DoctorTypes
<1>2. Covered(scan, inspected, pages, known)
  BY DEF DoctorInit, Covered, NoScan
<1>3. \A w \in Workers : TickSound(ticks[w], scan.id, inspected, pages, known)
  BY RestingTicks DEF DoctorInit
<1> QED
  BY <1>1, <1>2, <1>3, NoScanStands DEF DoctorInv, DoctorSound, DoctorInit

-----------------------------------------------------------------------------
(* Steps                                                                   *)

\* A change of the scan that is no change of where it stands.
LEMMA ScanStays ==
  ASSUME DoctorInv, scan' \in ScanState, scan'.id = scan.id, scan'.ns = scan.ns, scan'.cursor = scan.cursor,
         scan'.phase = scan.phase, Pending(scan') => Pending(scan),
         UNCHANGED <<archive, pages, ticks, inspected, known>>
  PROVE  DoctorInv'
<1> USE DEF DoctorInv
<1>1. WellFormed(scan') /\ Covered(scan', inspected', pages', known')
  BY SameStand DEF DoctorSound
<1>2. \A v \in Workers : TickSound(ticks'[v], scan'.id, inspected', pages', known')
  BY OthersKeep
<1>3. DoctorTypes'
  BY DoctorTypesNext DEF DoctorTypes
<1> QED
  BY <1>1, <1>2, <1>3, DoctorSoundNext

\* A tick moves, and neither the scan nor a page changes.
LEMMA OnlyTicks ==
  ASSUME DoctorInv, NEW w \in Workers, NEW t \in Tick, Go(w, t),
         TickSound(t, scan.id, inspected, pages, known), UNCHANGED <<scan, archive, pages, inspected, known>>
  PROVE  DoctorInv'
<1> USE DEF DoctorInv
<1>1. /\ ticks' \in [Workers -> Tick]
      /\ \A v \in Workers : TickSound(ticks'[v], scan'.id, inspected', pages', known')
  BY TickMoves
<1> QED
  BY <1>1, DoctorSoundNext, DoctorTypesNext DEF DoctorSound, DoctorTypes

LEMMA StartKeeps == DoctorInv /\ StartScan => DoctorInv'
<1> SUFFICES ASSUME DoctorInv, StartScan PROVE DoctorInv'
  OBVIOUS
<1> USE DEF DoctorInv
<1>1. scan.id \in Nat
  BY DEF DoctorTypes, ScanState
<1>2. /\ scan' \in ScanState /\ scan'.id = scan.id + 1 /\ scan'.ns = NoScan.ns /\ scan'.cursor = NoScan.cursor
      /\ scan'.phase = NoScan.phase /\ scan'.phase = "checks"
  <2> DEFINE b == scan.id + 1 \in Repairs
  <2>1. b \in BOOLEAN
    OBVIOUS
  <2>2. scan' = [NoScan EXCEPT !.id = scan.id + 1, !.state = "QUEUED", !.repair = b]
    BY DEF StartScan
  <2> HIDE DEF b
  <2>3. NoScan \in ScanState /\ NoScan.phase = "checks"
    BY NoScanStands DEF NoScan
  <2>4. scan.id + 1 \in Nat
    BY <1>1
  <2>5. scan' \in ScanState
    BY <2>1, <2>2, <2>3, <2>4 DEF ScanState, States
  <2>6. scan'.id = scan.id + 1
    BY <2>2, <2>3 DEF ScanState
  <2>7. scan'.ns = NoScan.ns /\ scan'.cursor = NoScan.cursor
    BY <2>2, <2>3 DEF ScanState
  <2>8. scan'.phase = NoScan.phase
    BY <2>2, <2>3 DEF ScanState
  <2> QED
    BY <2>3, <2>5, <2>6, <2>7, <2>8
<1>3. known' = Stored /\ known' \subseteq Namespaces \X Keys
  BY DEF StartScan, Stored
<1>4. WellFormed(scan') /\ Covered(scan', inspected', pages', known')
  BY <1>2, <1>3, NoScanStands DEF WellFormed, Covered, Passed, NoScan
<1>5. ASSUME NEW v \in Workers PROVE TickSound(ticks'[v], scan'.id, inspected', pages', known')
  <2>1. ticks'[v] = ticks[v] /\ ticks[v] \in Tick
    BY DEF StartScan, DoctorTypes
  <2>2. TickSound(ticks[v], scan.id, inspected, pages, known)
    BY DEF DoctorSound
  <2>3. ticks[v].pc # "idle" => ticks[v].scan.id \in Nat
    BY <2>1, TickParts DEF ScanState
  <2>4. ticks[v].pc # "idle" => ticks[v].scan.id <= scan'.id /\ ticks[v].scan.id # scan'.id
    BY <1>1, <1>2, <2>2, <2>3 DEF TickSound
  <2> QED
    BY <2>1, <2>2, <2>4 DEF TickSound
<1>6. DoctorTypes'
  BY <1>2, <1>3 DEF StartScan, DoctorTypes, Stored
<1> QED
  BY <1>4, <1>5, <1>6, DoctorSoundNext

LEMMA ScanChangesKeep ==
  ASSUME DoctorInv, StopScan \/ LeaseEnds \/ RetryDue
  PROVE  DoctorInv'
<1>1. scan \in ScanState
  BY DEF DoctorInv, DoctorTypes
<1>2. CASE StopScan
  <2>1. scan' \in ScanState /\ scan'.id = scan.id /\ scan'.ns = scan.ns /\ scan'.cursor = scan.cursor
        /\ scan'.phase = scan.phase /\ Pending(scan)
    BY <1>1, <1>2 DEF StopScan, ScanState, States
  <2> QED
    BY <1>2, <2>1, ScanStays DEF StopScan
<1>3. CASE LeaseEnds
  <2>1. scan' \in ScanState /\ scan'.id = scan.id /\ scan'.ns = scan.ns /\ scan'.cursor = scan.cursor
        /\ scan'.phase = scan.phase /\ scan'.state = scan.state
    BY <1>1, <1>3 DEF LeaseEnds, ScanState
  <2> QED
    BY <1>3, <2>1, ScanStays DEF LeaseEnds, Pending
<1>4. CASE RetryDue
  <2>1. scan' \in ScanState /\ scan'.id = scan.id /\ scan'.ns = scan.ns /\ scan'.cursor = scan.cursor
        /\ scan'.phase = scan.phase /\ scan'.state = scan.state
    BY <1>1, <1>4 DEF RetryDue, ScanState
  <2> QED
    BY <1>4, <2>1, ScanStays DEF RetryDue, Pending
<1> QED
  BY <1>2, <1>3, <1>4

\* What is known stays stored.
LEMMA AddKeeps == DoctorInv /\ AddRecord => DoctorInv'
<1> SUFFICES ASSUME DoctorInv, AddRecord PROVE DoctorInv'
  OBVIOUS
<1> USE DEF DoctorInv
<1>1. PICK r \in Later \ Stored : archive' = [archive EXCEPT ![r[1]] = @ \cup {r[2]}]
  BY DEF AddRecord
<1>2. r[1] \in Namespaces /\ r[2] \in Keys /\ archive \in [Namespaces -> SUBSET Keys]
  BY DEF DoctorTypes
<1>3. archive' \in [Namespaces -> SUBSET Keys]
  BY <1>1, <1>2
<1>4. \A n \in Namespaces : archive[n] \subseteq archive'[n]
  BY <1>1, <1>2
<1>5. known' \subseteq Stored'
  BY <1>4 DEF AddRecord, DoctorTypes, Stored
<1>6. DoctorTypes'
  BY <1>3, <1>5 DEF DoctorTypes, AddRecord
<1>7. DoctorSound'
  BY OthersKeep, DoctorSoundNext DEF DoctorSound, AddRecord
<1> QED
  BY <1>6, <1>7

LEMMA ReadKeeps ==
  ASSUME DoctorInv, NEW w \in Workers, ReadScan(w)
  PROVE  DoctorInv'
<1> DEFINE t == [pc |-> "claim", scan |-> scan]
<1>1. scan \in ScanState /\ scan.id <= scan.id
  BY DEF DoctorInv, DoctorTypes, ScanState
<1>2. t \in Tick /\ t.pc = "claim" /\ t.scan = scan
  BY <1>1 DEF Tick
<1>3. Go(w, t) /\ Pending(scan) /\ UNCHANGED <<scan, archive, pages, inspected, known>>
  BY DEF ReadScan
<1> HIDE DEF t
<1>4. TickSound(t, scan.id, inspected, pages, known)
  BY <1>1, <1>2, <1>3 DEF TickSound, DoctorInv, DoctorSound
<1> QED
  BY <1>2, <1>3, <1>4, OnlyTicks

LEMMA ClaimKeeps ==
  ASSUME DoctorInv, NEW w \in Workers, Claim(w)
  PROVE  DoctorInv'
<1> USE DEF DoctorInv
<1> DEFINE mine == ticks[w].scan
           t == [pc |-> "work", scan |-> mine]
<1>1. ticks[w] \in Tick /\ ticks[w].pc = "claim" /\ scan \in ScanState
  BY DEF DoctorTypes, Claim
<1>2. mine \in ScanState
  BY <1>1, TickParts
<1>3. t \in Tick /\ t.pc = "work" /\ t.scan = mine
  BY <1>2 DEF Tick
<1>4. scan' \in ScanState /\ scan'.id = scan.id /\ scan'.ns = scan.ns /\ scan'.cursor = scan.cursor
      /\ scan'.phase = scan.phase /\ scan'.state = scan.state
  BY <1>1 DEF Claim, ScanState
<1>5. (Go(w, t) \/ Go(w, Idle)) /\ UNCHANGED <<archive, pages, inspected, known>>
  BY DEF Claim
<1>6. WellFormed(scan') /\ Covered(scan', inspected', pages', known')
  BY <1>4, <1>5, SameStand DEF DoctorSound, Pending
<1> HIDE DEF t
<1>7. TickSound(t, scan.id, inspected, pages, known)
  <2>1. TickSound(ticks[w], scan.id, inspected, pages, known)
    BY DEF DoctorSound
  <2> QED
    BY <1>1, <1>3, <2>1 DEF TickSound
<1>8. /\ ticks' \in [Workers -> Tick]
      /\ \A v \in Workers : TickSound(ticks'[v], scan'.id, inspected', pages', known')
  <2>1. CASE Go(w, t)
    BY <1>3, <1>4, <1>5, <1>7, <2>1, TickMoves
  <2>2. CASE Go(w, Idle)
    BY <1>4, <1>5, <2>2, RestingTicks, TickMoves
  <2> QED
    BY <1>5, <2>1, <2>2
<1> QED
  BY <1>4, <1>5, <1>6, <1>8, DoctorSoundNext, DoctorTypesNext

\* Only the phase moves.
LEMMA AssessedStands ==
  ASSUME NEW s \in ScanState, s.phase \in {"checks", "repair", "verify"}
  PROVE  /\ Assessed(s) \in ScanState /\ Assessed(s).id = s.id /\ Assessed(s).ns = s.ns
         /\ Assessed(s).cursor = s.cursor
         /\ s.phase = "checks" => Assessed(s).phase = "inventory"
         /\ s.phase # "checks" => Assessed(s).phase \in {"verify", "finished"}
         /\ Assessed(s).phase = "finished" => ~Pending(Assessed(s))
BY DEF Assessed, ScanState, States, Phases, Pending

LEMMA AssessKeeps ==
  ASSUME DoctorInv, NEW w \in Workers, Assess(w)
  PROVE  DoctorInv'
<1> USE DEF DoctorInv
<1> DEFINE s == ticks[w].scan
           new == Assessed(s)
           t == [pc |-> "update", scan |-> s, new |-> new, details |-> {}]
<1>1. ticks[w] \in Tick /\ ticks[w].pc = "work" /\ s.phase # "inventory"
  BY DEF DoctorTypes, Assess
<1>2. TickSound(ticks[w], scan.id, inspected, pages, known)
  BY DEF DoctorSound
<1>3. s \in ScanState
  BY <1>1, TickParts
<1>4. s.id <= scan.id /\ WellFormed(s) /\ Pending(s) /\ (s.id = scan.id => Covered(s, inspected, pages, known))
  BY <1>1, <1>2 DEF TickSound
<1>5. s.phase \in {"checks", "repair", "verify"}
  BY <1>1, <1>3, <1>4 DEF ScanState, Phases, WellFormed
<1>6. Go(w, t) /\ UNCHANGED <<scan, archive, pages, inspected, known>>
  BY DEF Assess
<1>7. new \in ScanState /\ new.id = s.id /\ WellFormed(new)
  BY <1>3, <1>4, <1>5, AssessedStands DEF WellFormed
<1>8. s.id = scan.id => Covered(new, inspected, pages, known)
  BY <1>3, <1>4, <1>5, AssessedStands DEF Covered, Passed
<1> HIDE DEF s, new
<1>9. t \in Tick
  BY <1>3, <1>7 DEF Tick
<1>10. TickSound(t, scan.id, inspected, pages, known)
  BY <1>4, <1>7, <1>8 DEF TickSound
<1> HIDE DEF t
<1> QED
  BY <1>6, <1>9, <1>10, OnlyTicks

LEMMA AdvanceType ==
  ASSUME NEW s \in ScanState, s.ns \in Namespaces, archive \in [Namespaces -> SUBSET Keys],
         NEW visited \in Prefixes(Page(s))
  PROVE  /\ visited \subseteq Keys
         /\ Advance(s, Page(s), visited).cursor \in Nat
         /\ Advance(s, Page(s), visited).ns \in {s.ns, s.ns + 1}
<1> DEFINE names == Page(s)
<1>1. s.ns \in Nat /\ visited \subseteq names /\ names \subseteq Keys
  BY DEF ScanState, Prefixes, Page
<1>2. visited = {} => visited = names /\ Cardinality(names) < PageSize
  <2> SUFFICES ASSUME visited = {} PROVE names = {} /\ Cardinality(names) < PageSize
    OBVIOUS
  <2>1. names = {}
    BY DEF Prefixes
  <2>2. Cardinality({}) = 0 /\ 0 < PageSize
    BY FS_EmptySet, PagesAdvance
  <2> QED
    BY <2>1, <2>2
<1>3. Cardinality(names) \in Nat
  BY <1>1, KeysFinite
<1>4. visited # {} => Last(visited) \in Nat
  BY <1>1, GreatestKey, KeysFinite
<1> QED
  BY <1>1, <1>2, <1>3, <1>4, PagesAdvance DEF Advance

LEMMA InventoryKeeps ==
  ASSUME DoctorInv, NEW w \in Workers, Inventory(w)
  PROVE  DoctorInv'
<1> USE DEF DoctorInv
<1> DEFINE s == ticks[w].scan
           names == Page(s)
<1>1. ticks[w] \in Tick /\ ticks[w].pc = "work" /\ s.phase = "inventory" /\ archive \in [Namespaces -> SUBSET Keys]
      /\ known \subseteq Stored
  BY DEF DoctorTypes, Inventory
<1>2. TickSound(ticks[w], scan.id, inspected, pages, known)
  BY DEF DoctorSound
<1>3. s \in ScanState
  BY <1>1, TickParts
<1>4. s.id <= scan.id /\ WellFormed(s) /\ Pending(s) /\ (s.id = scan.id => Covered(s, inspected, pages, known))
  BY <1>1, <1>2 DEF TickSound
<1>5. s.ns \in Namespaces /\ s.id \in Nat
  BY <1>1, <1>3, <1>4 DEF WellFormed, ScanState
<1> DEFINE at(visited) == Advance(s, names, visited)
           over(visited) == at(visited).ns \notin Namespaces
           seen(visited) == {<<s.id, s.ns, k>> : k \in visited}
           found(visited) == {f \in seen(visited) : <<f[2], f[3]>> \in Broken}
           moved(visited) == [s EXCEPT !.ns = at(visited).ns, !.cursor = at(visited).cursor, !.retry = FALSE,
             !.phase = IF ~over(visited) THEN @ ELSE IF s.repair THEN "repair" ELSE "verify",
             !.state = IF over(visited) /\ s.repair THEN "REPAIRING" ELSE "SCANNING"]
           next(visited) == [pc |-> "details", scan |-> s, details |-> found(visited), new |-> moved(visited)]
<1>6. PICK visited \in Prefixes(names) :
        /\ inspected' = IF s.id = scan.id THEN inspected \cup ({s.ns} \X visited) ELSE inspected
        /\ Go(w, next(visited))
  BY DEF Inventory, Then
<1>7. UNCHANGED <<scan, archive, pages, known>>
  BY DEF Inventory
<1> DEFINE new == moved(visited)
           details == found(visited)
           t == next(visited)
<1>8. visited \subseteq Keys /\ at(visited).cursor \in Nat /\ at(visited).ns \in {s.ns, s.ns + 1}
  BY <1>1, <1>3, <1>5, AdvanceType
<1>9. details \subseteq Nat \X Namespaces \X Keys
  BY <1>5, <1>8
<1>10. \A k \in visited : <<s.ns, k>> \in Broken => <<s.id, s.ns, k>> \in details
  <2> SUFFICES ASSUME NEW k \in visited, <<s.ns, k>> \in Broken PROVE <<s.id, s.ns, k>> \in details
    OBVIOUS
  <2> DEFINE f == <<s.id, s.ns, k>>
  <2>1. f \in seen(visited) /\ <<f[2], f[3]>> = <<s.ns, k>>
    OBVIOUS
  <2> QED
    BY <2>1
<1>11. \A n \in Namespaces, k \in Keys : k \in archive[n] /\ Passed(at(visited), <<n, k>>) =>
         Passed(s, <<n, k>>) \/ (n = s.ns /\ k \in visited)
  BY <1>1, <1>3, <1>5, AdvanceCovers DEF Passed
<1>12. /\ new \in ScanState /\ new.id = s.id /\ new.ns = at(visited).ns /\ new.cursor = at(visited).cursor
       /\ new.phase \in {"inventory", "repair", "verify"}
       /\ new.phase = "inventory" => new.ns \in Namespaces
       /\ new.phase # "inventory" => new.ns \notin Namespaces
  <2>1. at(visited).ns \in Nat /\ at(visited).cursor \in Nat
    BY <1>3, <1>8 DEF ScanState
  <2> HIDE DEF at, s
  <2> QED
    BY <1>1, <1>3, <2>1 DEF ScanState, States, Phases
<1>13. t \in Tick /\ t.pc = "details" /\ t.scan = s /\ t.new = new /\ t.details = details
  <2> HIDE DEF moved, found, s
  <2> QED
    BY <1>3, <1>9, <1>12 DEF Tick
<1> HIDE DEF s, at, found, moved, next, new, details, t
<1>14. WellFormed(new)
  BY <1>12 DEF WellFormed
<1>15. ASSUME s.id = scan.id PROVE Covered(new, inspected', pages \cup details, known)
  <2>1. ASSUME NEW r \in known, Passed(new, r)
        PROVE  r \in inspected' /\ (r \in Broken => <<new.id, r[1], r[2]>> \in pages \cup details)
    <3>1. r[1] \in Namespaces /\ r[2] \in Keys /\ r[2] \in archive[r[1]] /\ r = <<r[1], r[2]>>
      BY <1>1 DEF Stored
    <3>2. Passed(s, r) \/ (r[1] = s.ns /\ r[2] \in visited)
      BY <1>11, <1>12, <2>1, <3>1 DEF Passed
    <3>3. CASE Passed(s, r)
      BY <1>4, <1>6, <1>12, <1>15, <3>3 DEF Covered
    <3>4. CASE r[1] = s.ns /\ r[2] \in visited
      <4>1. r \in {s.ns} \X visited
        BY <3>1, <3>4
      <4>2. r \in inspected'
        BY <1>6, <1>15, <4>1
      <4>3. r \in Broken => <<s.id, r[1], r[2]>> \in details
        BY <1>10, <3>1, <3>4
      <4> QED
        BY <1>12, <4>2, <4>3
    <3> QED
      BY <3>2, <3>3, <3>4
  <2>2. ASSUME new.phase # "inventory", NEW r \in known PROVE Passed(new, r)
    <3>1. r[1] \in 1 .. Cardinality(Namespaces) /\ s.ns \in 1 .. Cardinality(Namespaces)
      BY <1>1, <1>5 DEF Stored
    <3>2. new.ns \in {s.ns, s.ns + 1} /\ new.ns \notin 1 .. Cardinality(Namespaces)
      BY <1>8, <1>12, <2>2
    <3>3. r[1] < new.ns
      BY <3>1, <3>2
    <3> QED
      BY <3>3 DEF Passed
  <2> QED
    BY <2>1, <2>2 DEF Covered
<1>16. inspected \subseteq inspected'
  BY <1>6
<1>17. TickSound(t, scan.id, inspected', pages', known)
  BY <1>4, <1>7, <1>12, <1>13, <1>14, <1>15 DEF TickSound
<1>18. Go(w, t)
  BY <1>6 DEF t
<1>19. /\ ticks' \in [Workers -> Tick]
       /\ \A v \in Workers : TickSound(ticks'[v], scan'.id, inspected', pages', known')
  BY <1>7, <1>13, <1>16, <1>17, <1>18, TickMoves
<1>20. WellFormed(scan') /\ Covered(scan', inspected', pages', known')
  BY <1>7, <1>16, CoveredGrows DEF DoctorSound
<1>21. DoctorTypes'
  BY <1>7, <1>19, DoctorTypesNext DEF DoctorTypes
<1> QED
  BY <1>19, <1>20, <1>21, DoctorSoundNext

LEMMA DetailsKeep ==
  ASSUME DoctorInv, NEW w \in Workers, SaveDetails(w)
  PROVE  DoctorInv'
<1> USE DEF DoctorInv
<1> DEFINE t == [ticks[w] EXCEPT !.pc = "update"]
<1>1. ticks[w] \in Tick /\ ticks[w].pc = "details"
  BY DEF DoctorTypes, SaveDetails
<1>2. t \in Tick /\ t.pc = "update" /\ t.scan = ticks[w].scan /\ t.new = ticks[w].new
  BY <1>1, TickGoesOn
<1>3. Go(w, t) /\ pages' = pages \cup ticks[w].details /\ UNCHANGED <<scan, archive, inspected, known>>
  BY DEF SaveDetails, Then
<1> HIDE DEF t
<1>4. TickSound(ticks[w], scan.id, inspected, pages, known)
  BY DEF DoctorSound
<1>5. TickSound(t, scan.id, inspected', pages', known)
  BY <1>1, <1>2, <1>3, <1>4 DEF TickSound
<1>6. /\ ticks' \in [Workers -> Tick]
      /\ \A v \in Workers : TickSound(ticks'[v], scan'.id, inspected', pages', known')
  BY <1>2, <1>3, <1>5, TickMoves
<1>7. WellFormed(scan') /\ Covered(scan', inspected', pages', known')
  BY <1>3, CoveredGrows DEF DoctorSound
<1>8. DoctorTypes'
  BY <1>3, <1>6, DoctorTypesNext DEF DoctorTypes
<1> QED
  BY <1>6, <1>7, <1>8, DoctorSoundNext

\* A tick writes over the scan what it holds and goes on.
LEMMA WriteKeeps ==
  ASSUME DoctorInv, NEW w \in Workers, NEW new \in ScanState, NEW t \in Tick,
         ticks[w].pc \in {"work", "details", "update"}, new.id = ticks[w].scan.id, WellFormed(new),
         ticks[w].scan.id = scan.id => Covered(new, inspected, pages, known),
         scan' = Updated(ticks[w].scan.id, new), t.pc = "release", t.scan = ticks[w].scan, Go(w, t),
         UNCHANGED <<archive, pages, inspected, known>>
  PROVE  DoctorInv'
<1> USE DEF DoctorInv
<1>1. ticks[w] \in Tick /\ scan \in ScanState
  BY DEF DoctorTypes
<1>2. ticks[w].scan.id \in Nat
  BY <1>1, TickParts DEF ScanState
<1>3. scan' \in ScanState /\ scan'.id = scan.id /\ WellFormed(scan') /\ Covered(scan', inspected, pages, known)
  BY <1>1, <1>2, UpdateSound DEF DoctorSound
<1>4. TickSound(t, scan.id, inspected, pages, known)
  <2>1. TickSound(ticks[w], scan.id, inspected, pages, known)
    BY DEF DoctorSound
  <2> QED
    BY <2>1 DEF TickSound
<1>5. /\ ticks' \in [Workers -> Tick]
      /\ \A v \in Workers : TickSound(ticks'[v], scan'.id, inspected', pages', known')
  BY <1>3, <1>4, TickMoves
<1>6. DoctorTypes'
  BY <1>3, <1>5, DoctorTypesNext
<1> QED
  BY <1>3, <1>5, <1>6, DoctorSoundNext

LEMMA UpdateKeeps ==
  ASSUME DoctorInv, NEW w \in Workers, Update(w)
  PROVE  DoctorInv'
<1> DEFINE t == [ticks[w] EXCEPT !.pc = "release"]
<1>1. ticks[w] \in Tick /\ ticks[w].pc = "update"
  BY DEF DoctorInv, DoctorTypes, Update
<1>2. t \in Tick /\ t.pc = "release" /\ t.scan = ticks[w].scan
  BY <1>1, TickGoesOn
<1>3. /\ scan' = Updated(ticks[w].scan.id, ticks[w].new) /\ Go(w, t)
      /\ UNCHANGED <<archive, pages, inspected, known>>
  BY DEF Update, Then
<1> HIDE DEF t
<1>4. TickSound(ticks[w], scan.id, inspected, pages, known) /\ ticks[w].new \in ScanState
  BY <1>1, TickParts DEF DoctorInv, DoctorSound
<1>5. /\ ticks[w].new.id = ticks[w].scan.id /\ WellFormed(ticks[w].new)
      /\ ticks[w].scan.id = scan.id => Covered(ticks[w].new, inspected, pages, known)
  BY <1>1, <1>4 DEF TickSound
<1> QED
  BY <1>1, <1>2, <1>3, <1>4, <1>5, WriteKeeps

\* A failure writes the scan of now with a delay, when it is still the same scan.
LEMMA FailKeeps ==
  ASSUME DoctorInv, NEW w \in Workers, Fail(w)
  PROVE  DoctorInv'
<1> USE DEF DoctorInv
<1> DEFINE t == [ticks[w] EXCEPT !.pc = "release"]
           id == ticks[w].scan.id
           new == [scan EXCEPT !.retry = TRUE]
<1>1. ticks[w] \in Tick /\ scan \in ScanState /\ ticks[w].pc \in {"work", "details", "update"}
  BY DEF DoctorTypes, Fail
<1>2. t \in Tick /\ t.pc = "release" /\ t.scan = ticks[w].scan
  BY <1>1, TickGoesOn
<1>3. scan' = Updated(id, new) /\ Go(w, t) /\ UNCHANGED <<archive, pages, inspected, known>>
  BY DEF Fail
<1>4. new \in ScanState /\ new.id = scan.id /\ new.ns = scan.ns /\ new.cursor = scan.cursor
      /\ new.phase = scan.phase /\ new.state = scan.state
  BY <1>1 DEF ScanState
<1> HIDE DEF t, new
<1>5. WellFormed(new) /\ Covered(new, inspected, pages, known)
  BY <1>4, SameStand DEF DoctorSound, Pending
<1>6. CASE id = scan.id
  BY <1>1, <1>2, <1>3, <1>4, <1>5, <1>6, WriteKeeps
<1>7. CASE id # scan.id
  <2>1. scan' = scan
    BY <1>3, <1>7 DEF Updated, Mine
  <2>2. TickSound(ticks[w], scan.id, inspected, pages, known)
    BY DEF DoctorSound
  <2>3. TickSound(t, scan.id, inspected, pages, known)
    BY <1>1, <1>2, <2>2 DEF TickSound
  <2> QED
    BY <1>2, <1>3, <2>1, <2>3, OnlyTicks
<1> QED
  BY <1>6, <1>7

LEMMA ReleaseKeeps ==
  ASSUME DoctorInv, NEW w \in Workers, Release(w)
  PROVE  DoctorInv'
<1> USE DEF DoctorInv
<1>1. scan \in ScanState
  BY DEF DoctorTypes
<1>2. scan' \in ScanState /\ scan'.id = scan.id /\ scan'.ns = scan.ns /\ scan'.cursor = scan.cursor
      /\ scan'.phase = scan.phase /\ scan'.state = scan.state
  BY <1>1 DEF Release, ScanState
<1>3. Go(w, Idle) /\ UNCHANGED <<archive, pages, inspected, known>>
  BY DEF Release
<1>4. /\ ticks' \in [Workers -> Tick]
      /\ \A v \in Workers : TickSound(ticks'[v], scan'.id, inspected', pages', known')
  BY <1>2, <1>3, RestingTicks, TickMoves
<1>5. WellFormed(scan') /\ Covered(scan', inspected', pages', known')
  BY <1>2, <1>3, SameStand DEF DoctorSound, Pending
<1>6. DoctorTypes'
  BY <1>2, <1>3, <1>4, DoctorTypesNext
<1> QED
  BY <1>4, <1>5, <1>6, DoctorSoundNext

LEMMA DoctorStep == DoctorInv /\ [DoctorNext]_doctorVars => DoctorInv'
<1> SUFFICES ASSUME DoctorInv, [DoctorNext]_doctorVars PROVE DoctorInv'
  OBVIOUS
<1>1. CASE StartScan
  BY <1>1, StartKeeps
<1>2. CASE StopScan \/ LeaseEnds \/ RetryDue
  BY <1>2, ScanChangesKeep
<1>3. CASE AddRecord
  BY <1>3, AddKeeps
<1>4. CASE TakeOver
  BY <1>4, ScanStays DEF TakeOver, DoctorInv, DoctorTypes
<1>5. ASSUME NEW w \in Workers, Ticking(w) PROVE DoctorInv'
  BY <1>5, ReadKeeps, ClaimKeeps, AssessKeeps, InventoryKeeps, DetailsKeep, UpdateKeeps, ReleaseKeeps DEF Ticking
<1>6. ASSUME NEW w \in Workers, Fail(w) PROVE DoctorInv'
  BY <1>6, FailKeeps
<1>7. ASSUME NEW w \in Workers, Die(w) PROVE DoctorInv'
  BY <1>7, RestingTicks, OnlyTicks DEF Die
<1>8. CASE UNCHANGED doctorVars
  BY <1>8, ScanStays DEF doctorVars, DoctorInv, DoctorTypes
<1> QED
  BY <1>1, <1>2, <1>3, <1>4, <1>5, <1>6, <1>7, <1>8 DEF DoctorNext

\* system_doctor.py, tick: whatever fails, dies, is stopped or outlives its
\* lease, a scan that is past its inventory has looked at every record stored
\* when it began, and no finding behind the cursor is missing from the pages.
THEOREM ScansKeepUp == DoctorSpec => []ScanKeepsUp
<1>1. DoctorInv => ScanKeepsUp
  BY DEF DoctorInv, DoctorSound, Covered, Passed, ScanKeepsUp, EveryRecordInspected, FindingsKept, Behind
<1>2. DoctorSpec => []DoctorInv
  BY DoctorBegins, DoctorStep, PTL DEF DoctorSpec
<1> QED
  BY <1>1, <1>2, PTL
-----------------------------------------------------------------------------
(***************************************************************************)
(* The instrument directory fetches what it has shown, and the pointer of  *)
(* the catalogue never names a master that is not whole in the store: for  *)
(* any masters, pages, refreshes and requests side by side.                *)
(***************************************************************************)

\* What a refresh has stored by each of its writes.
SourceStored(sha, saved) == <<"source", sha>> \in saved
PagesStored(sha, saved) == SourceStored(sha, saved) /\ \A p \in Pages : <<"page", sha, p>> \in saved
StoredBy(pc, sha, saved) ==
  /\ pc = "pages" => SourceStored(sha, saved)
  /\ pc = "manifest" => PagesStored(sha, saved)
  /\ pc = "current" => Documents(sha) \subseteq saved

RefreshPcs == {"idle", "source", "pages", "manifest", "current", "release"}
RefreshReached ==
  /\ refresh \in [Refreshers -> [pc : RefreshPcs, sha : Nat]]
  /\ \A r \in Refreshers : StoredBy(refresh[r].pc, refresh[r].sha, stored)

CatalogueInv == published \in Nat /\ RefreshReached /\ CurrentIsComplete

\* Whatever was shown was read from its own master; a request picks something
\* that was shown, and fetches the contract that was shown with it.
ShownAsListed == \A x \in shown : x[3] = Items(x[1])[x[2]].contract

Asking == [pc : {"index", "build", "building", "open", "read"}, picked : shown \cup {Nothing},
           cat : Nat \cup {Nothing}, tries : {1, 2}]
Fetching == {q \in [pc : {"acquire", "call", "save", "drop"}, picked : shown, item : {x[3] : x \in shown}] :
               q.item = q.picked[3]}

RequestInv ==
  /\ current \in Nat \cup {Nothing}
  /\ request \in [Requests -> {Served} \cup Asking \cup Fetching]
  /\ ShownAsListed /\ FetchedAsShown

DirectoryInv == CatalogueInv /\ RequestInv

LEMMA DirectoryBegins == DirectoryInit => DirectoryInv
<1> SUFFICES ASSUME DirectoryInit PROVE DirectoryInv
  OBVIOUS
<1>1. CatalogueInv
  BY DEF DirectoryInit, CatalogueInv, RefreshReached, RefreshPcs, StoredBy, CurrentIsComplete, NoRefresh
<1>2. RequestInv
  BY DEF DirectoryInit, RequestInv, ShownAsListed, FetchedAsShown
<1> QED
  BY <1>1, <1>2 DEF DirectoryInv

\* What is stored stays stored, so one refresh goes on beside the others.
LEMMA StoredStays ==
  ASSUME NEW pc, NEW sha, NEW saved, NEW more, saved \subseteq more, StoredBy(pc, sha, saved)
  PROVE  StoredBy(pc, sha, more)
BY DEF StoredBy, SourceStored, PagesStored

LEMMA RefreshGoesOn ==
  ASSUME RefreshReached, NEW r \in Refreshers, NEW pc \in RefreshPcs, stored \subseteq stored',
         refresh' = [refresh EXCEPT ![r].pc = pc], StoredBy(pc, refresh[r].sha, stored')
  PROVE  RefreshReached'
<1>1. refresh' \in [Refreshers -> [pc : RefreshPcs, sha : Nat]]
  BY DEF RefreshReached
<1>2. ASSUME NEW o \in Refreshers
      PROVE  StoredBy(refresh'[o].pc, refresh'[o].sha, stored')
  BY StoredStays DEF RefreshReached
<1> QED
  BY <1>1, <1>2 DEF RefreshReached

\* A refresh moves the pointer last.
LEMMA RefreshStep ==
  ASSUME CatalogueInv,
         NewMaster \/ LeaseRunsOut
         \/ \E r \in Refreshers : Downloading(r) \/ Saving(r) \/ RefreshFails(r)
  PROVE  CatalogueInv'
<1>1. CASE NewMaster \/ LeaseRunsOut
  BY <1>1 DEF NewMaster, LeaseRunsOut, CatalogueInv, RefreshReached, CurrentIsComplete
<1>2. ASSUME NEW r \in Refreshers, Downloading(r)
      PROVE  CatalogueInv'
  BY <1>2 DEF Downloading, CatalogueInv, RefreshReached, RefreshPcs, StoredBy, CurrentIsComplete
<1>3. ASSUME NEW r \in Refreshers, RefreshFails(r)
      PROVE  CatalogueInv'
  <2>1. UNCHANGED <<published, stored, current>>
    BY <1>3 DEF RefreshFails
  <2>2. CASE refresh' = [refresh EXCEPT ![r].pc = "release"]
    BY <2>1, <2>2, RefreshGoesOn DEF CatalogueInv, CurrentIsComplete, RefreshPcs, StoredBy
  <2>3. CASE refresh' = [refresh EXCEPT ![r] = NoRefresh]
    BY <2>1, <2>3 DEF NoRefresh, CatalogueInv, RefreshReached, RefreshPcs, StoredBy, CurrentIsComplete
  <2> QED
    BY <1>3, <2>2, <2>3 DEF RefreshFails
<1>4. ASSUME NEW r \in Refreshers, Saving(r)
      PROVE  CatalogueInv'
  <2> DEFINE sha == refresh[r].sha
  <2>1. stored \subseteq stored' /\ published' = published /\ StoredBy(refresh[r].pc, sha, stored)
    BY <1>4 DEF Saving, CatalogueInv, RefreshReached
  <2>2. current' = current \/ (refresh[r].pc = "current" /\ current' = sha)
    BY <1>4 DEF Saving
  <2>3. CurrentIsComplete'
    BY <2>1, <2>2 DEF StoredBy, CatalogueInv, CurrentIsComplete, Documents
  <2>4. ASSUME NEW pc \in RefreshPcs, refresh' = [refresh EXCEPT ![r].pc = pc], StoredBy(pc, sha, stored')
        PROVE  CatalogueInv'
    BY <2>1, <2>3, <2>4, RefreshGoesOn DEF CatalogueInv
  <2>5. CASE refresh[r].pc = "source"
    BY <1>4, <2>4, <2>5 DEF Saving, Following, StoredBy, SourceStored, RefreshPcs
  <2>6. CASE refresh[r].pc = "pages" /\ UNCHANGED refresh
    BY <2>1, <2>3, <2>6, StoredStays DEF CatalogueInv, RefreshReached
  <2>7. CASE refresh[r].pc = "pages" /\ ~UNCHANGED refresh
    BY <1>4, <2>1, <2>4, <2>7 DEF Saving, Following, StoredBy, PagesStored, SourceStored, RefreshPcs
  <2>8. CASE refresh[r].pc = "manifest"
    <3>1. Documents(sha) \subseteq stored'
      BY <1>4, <2>1, <2>8 DEF Saving, Documents, StoredBy, SourceStored, PagesStored
    <3> QED
      BY <1>4, <2>4, <2>8, <3>1 DEF Saving, Following, StoredBy, RefreshPcs
  <2>9. CASE refresh[r].pc = "current"
    BY <1>4, <2>4, <2>9 DEF Saving, Following, StoredBy, RefreshPcs
  <2>10. CASE refresh[r].pc = "release"
    BY <1>4, <2>4, <2>10 DEF Saving, StoredBy, RefreshPcs
  <2> QED
    BY <1>4, <2>5, <2>6, <2>7, <2>8, <2>9, <2>10 DEF Saving
<1> QED
  BY <1>1, <1>2, <1>3, <1>4

\* A refresh does not touch what requests have shown, and the pointer names a master.
LEMMA RefreshLeavesRequests ==
  ASSUME DirectoryInv,
         NewMaster \/ LeaseRunsOut
         \/ \E r \in Refreshers : Downloading(r) \/ Saving(r) \/ RefreshFails(r)
  PROVE  RequestInv'
<1>1. UNCHANGED <<request, shown, fetched>>
  BY DEF NewMaster, LeaseRunsOut, Downloading, Saving, RefreshFails, serverVars
<1>2. current' \in Nat \cup {Nothing}
  BY DEF NewMaster, LeaseRunsOut, Downloading, Saving, RefreshFails, DirectoryInv, CatalogueInv, RequestInv, RefreshReached
<1> QED
  BY <1>1, <1>2 DEF DirectoryInv, RequestInv, Asking, Fetching, ShownAsListed, FetchedAsShown

\* A request touches the catalogue's lease only.
LEMMA RequestLeavesCatalogue ==
  ASSUME CatalogueInv, NEW r \in Requests, Ask(r) \/ Serving(r)
  PROVE  CatalogueInv' /\ UNCHANGED current
<1>1. UNCHANGED <<published, stored, current, refresh>>
  BY DEF Ask, Serving, ReadCatalogue, TakeLock, Build, Open, Answer, Resolve, Acquire, FetchQuote, Save, Drop,
         InServer, catalogueVars
<1> QED
  BY <1>1 DEF CatalogueInv, RefreshReached, CurrentIsComplete, Documents

\* A step of a request that shows and saves nothing new.
LEMMA RequestMoves ==
  ASSUME RequestInv, NEW r \in Requests, UNCHANGED <<shown, fetched, current>>,
         NEW q \in {Served} \cup Asking \cup Fetching, request' = [request EXCEPT ![r] = q]
  PROVE  RequestInv'
BY DEF RequestInv, Asking, Fetching, ShownAsListed, FetchedAsShown

LEMMA RequestStep ==
  ASSUME DirectoryInv, NEW r \in Requests, Ask(r) \/ Serving(r)
  PROVE  RequestInv'
<1> USE DEF DirectoryInv
<1>1. UNCHANGED current
  BY RequestLeavesCatalogue
<1>2. request[r] \in {Served} \cup Asking \cup Fetching /\ RequestInv
  BY DEF RequestInv
<1>3. CASE Ask(r)
  <2>1. PICK picked \in shown \cup {Nothing} :
          request' = [request EXCEPT ![r] = [pc |-> "index", picked |-> picked, cat |-> Nothing, tries |-> 2]]
    BY <1>3 DEF Ask, Proceed
  <2>2. [pc |-> "index", picked |-> picked, cat |-> Nothing, tries |-> 2] \in Asking
    BY DEF Asking
  <2>3. UNCHANGED <<shown, fetched>>
    BY <1>3 DEF Ask
  <2> HIDE DEF DirectoryInv
  <2> QED
    BY <1>1, <1>2, <2>1, <2>2, <2>3, RequestMoves
<1>4. CASE ReadCatalogue(r) \/ TakeLock(r) \/ Build(r) \/ Open(r)
  <2>1. request[r] \in Asking
    BY <1>2, <1>4 DEF ReadCatalogue, TakeLock, Build, Open, Served, Fetching
  <2>2. UNCHANGED <<shown, fetched>>
    BY <1>4 DEF ReadCatalogue, TakeLock, Build, Open, InServer
  <2>3. \E q \in {Served} \cup Asking : request' = [request EXCEPT ![r] = q]
    <3>1. CASE ReadCatalogue(r)
      BY <1>2, <2>1, <3>1 DEF ReadCatalogue, Proceed, Asking, RequestInv
    <3>2. CASE TakeLock(r)
      BY <1>2, <2>1, <3>2 DEF TakeLock, Proceed, Onto, Asking, RequestInv
    <3>3. CASE Build(r)
      <4> DEFINE opened == [request[r] EXCEPT !.pc = "open"]
      <4>1. Proceed(r, opened) \/ Proceed(r, Served)
        BY <1>2, <3>3 DEF Build, Proceed, Onto, RequestInv
      <4>2. opened \in Asking
        BY <2>1 DEF Asking
      <4> HIDE DEF opened
      <4> QED
        BY <4>1, <4>2 DEF Proceed
    <3>4. CASE Open(r)
      <4> DEFINE found == [request[r] EXCEPT !.pc = "read"]
                 again == [request[r] EXCEPT !.pc = "index", !.tries = @ - 1]
      <4>1. Proceed(r, found) \/ (request[r].tries > 1 /\ Proceed(r, again)) \/ Proceed(r, Served)
        BY <1>2, <3>4 DEF Open, Proceed, Onto, RequestInv
      <4>2. found \in Asking
        BY <2>1 DEF Asking
      <4>3. request[r].tries > 1 => again \in Asking
        <5>1. request[r].tries > 1 => request[r].tries - 1 \in {1, 2}
          BY <2>1 DEF Asking
        <5> QED
          BY <2>1, <5>1 DEF Asking
      <4> HIDE DEF found, again
      <4> QED
        BY <4>1, <4>2, <4>3 DEF Proceed
    <3> QED
      BY <1>4, <3>1, <3>2, <3>3, <3>4
  <2> QED
    BY <1>1, <1>2, <2>2, <2>3, RequestMoves
<1>5. CASE Answer(r)
  <2>1. PICK key \in DOMAIN Items(request[r].cat) :
          shown' = shown \cup {<<request[r].cat, key, Items(request[r].cat)[key].contract>>}
    BY <1>5 DEF Answer
  <2>2. request' = [request EXCEPT ![r] = Served] /\ UNCHANGED fetched
    BY <1>5 DEF Answer, Proceed
  <2>3. ShownAsListed' /\ FetchedAsShown'
    BY <1>2, <2>1, <2>2 DEF RequestInv, ShownAsListed, FetchedAsShown
  <2>4. Asking \subseteq Asking' /\ Fetching \subseteq Fetching'
    BY <2>1 DEF Asking, Fetching
  <2>5. request' \in [Requests -> {Served} \cup Asking' \cup Fetching']
    BY <1>2, <2>2, <2>4 DEF RequestInv
  <2> QED
    BY <1>1, <1>2, <2>3, <2>5 DEF RequestInv
<1>6. CASE Resolve(r)
  <2>1. request[r] \in Asking /\ request[r].picked \in shown
    BY <1>2, <1>6 DEF Resolve, Served, Fetching, Asking
  <2>2. UNCHANGED <<shown, fetched>>
    BY <1>6 DEF Resolve, InServer
  <2>3. CASE request' = [request EXCEPT ![r] = Served]
    BY <1>1, <1>2, <2>2, <2>3, RequestMoves
  <2>4. CASE request' # [request EXCEPT ![r] = Served]
    <3> DEFINE listed == Items(request[r].cat)[request[r].picked[2]].contract
               q == [pc |-> "acquire", picked |-> request[r].picked, item |-> listed]
    <3>1. request' = [request EXCEPT ![r] = q] /\ request[r].picked[1] = request[r].cat
      BY <1>6, <2>4 DEF Resolve, Proceed, SameMaster
    <3>2. listed = request[r].picked[3]
      BY <1>2, <2>1, <3>1 DEF RequestInv, ShownAsListed
    <3>3. q \in Fetching
      BY <2>1, <3>2 DEF Fetching
    <3> QED
      BY <1>1, <1>2, <2>2, <3>1, <3>3, RequestMoves
  <2> QED
    BY <2>3, <2>4
<1>7. CASE Acquire(r) \/ FetchQuote(r) \/ Save(r) \/ Drop(r)
  <2>1. request[r] \in Fetching
    BY <1>2, <1>7 DEF Acquire, FetchQuote, Save, Drop, Served, Asking
  <2>2. \E q \in {Served} \cup Fetching : request' = [request EXCEPT ![r] = q]
    BY <1>2, <1>7, <2>1 DEF Acquire, FetchQuote, Save, Drop, Proceed, Onto, Fetching, RequestInv
  <2>3. shown' = shown /\ fetched' \in {fetched, fetched \cup {[picked |-> request[r].picked, item |-> request[r].item]}}
    BY <1>7 DEF Acquire, FetchQuote, Save, Drop, InServer
  <2>4. FetchedAsShown'
    BY <1>2, <2>1, <2>3 DEF RequestInv, FetchedAsShown, Fetching
  <2>5. Asking' = Asking /\ Fetching' = Fetching /\ ShownAsListed'
    BY <1>2, <2>3 DEF RequestInv, Asking, Fetching, ShownAsListed
  <2> QED
    BY <1>1, <1>2, <2>2, <2>4, <2>5 DEF RequestInv
<1> QED
  BY <1>3, <1>4, <1>5, <1>6, <1>7 DEF Serving

\* instrument_directory.py and collection.py: the pointer of the catalogue names a
\* master that is whole in the store, wherever a refresh fails or dies, and what is
\* fetched for a selection is the contract that was shown under it, although keys
\* are used again and masters and indexes are replaced under the request.
THEOREM DirectoryIsSound == DirectorySpec => []DirectorySound
<1>1. DirectoryInv => DirectorySound
  BY DEF DirectoryInv, CatalogueInv, RequestInv, DirectorySound
<1>2. DirectoryInv /\ [DirectoryNext]_directoryVars => DirectoryInv'
  <2> SUFFICES ASSUME DirectoryInv, [DirectoryNext]_directoryVars PROVE DirectoryInv'
    OBVIOUS
  <2>1. CASE NewMaster \/ LeaseRunsOut \/ \E r \in Refreshers : Downloading(r) \/ Saving(r) \/ RefreshFails(r)
    BY <2>1, RefreshStep, RefreshLeavesRequests DEF DirectoryInv
  <2>2. CASE \E r \in Requests : Ask(r) \/ Serving(r)
    BY <2>2, RequestStep, RequestLeavesCatalogue DEF DirectoryInv
  <2>3. CASE UNCHANGED directoryVars
    BY <2>3 DEF directoryVars, catalogueVars, serverVars, DirectoryInv, CatalogueInv, RefreshReached,
                CurrentIsComplete, RequestInv, Asking, Fetching, ShownAsListed, FetchedAsShown
  <2> QED
    BY <2>1, <2>2, <2>3 DEF DirectoryNext
<1> QED
  BY <1>1, <1>2, DirectoryBegins, PTL DEF DirectorySpec

(***************************************************************************)
(* The ledger of paper trades keeps the daily cap, one trade per id, and   *)
(* every trade, for any number of requests, forms, amounts and days.       *)
(*                                                                         *)
(* A handler decides on the ledger it has read.  What it wants to write    *)
(* keeps the cap and the ids in any case; it keeps the trades too as long   *)
(* as the version is the one that was read, which is when it is written.   *)
(***************************************************************************)
Trades == [id : TradeIds, state : {"OPEN", "CLOSED"}, plan : Nat, lots : Nat, net : Int, day : Nat, exit : Int]
UniqueIds(rows) == \A i, j \in DOMAIN rows : rows[i].id = rows[j].id => i = j
Keeps(rows, id) == \E t \in RowsOf(rows) : t.id = id
Exposure(rows, day) == Reserved(RowsOf(rows)) + Realised(RowsOf(rows), day)
OpenForms == [pc : {"open"}, id : TradeIds, risk : Risks, day : Nat, seen : SUBSET Trades]
CloseForms == [pc : {"close"}, id : TradeIds, exit : Exits, day : Nat]
Forms == OpenForms \cup CloseForms
Puts == [pc : {"put"}, version : Nat, rows : Seq(Trades), then : Forms]
PutSound(q) ==
  /\ UniqueIds(q.rows)
  /\ q.then.pc = "open" => Exposure(q.rows, q.then.day) <= q.then.risk.cap /\ Keeps(q.rows, q.then.id)
\* A form that closes a trade, and a write, given the ledger and its version.
FormSound(q, l) == q.pc = "close" => Keeps(l, q.id)
HandlerSound(q, l, v) ==
  \/ q = Unused
  \/ q \in Forms /\ FormSound(q, l)
  \/ /\ q \in Puts /\ PutSound(q) /\ FormSound(q.then, l) /\ q.version <= v
     /\ q.version = v => \A t \in RowsOf(l) : Keeps(q.rows, t.id)
Commitments == [id : TradeIds, day : Nat, cap : Int, exposure : Int]
PaperTypes ==
  /\ ledger \in Seq(Trades) /\ version \in Nat /\ tradingDay \in Nat
  /\ committed \subseteq Commitments
PaperInv ==
  /\ PaperTypes /\ LedgerHolds
  /\ handler = [r \in Handlers |-> handler[r]]
  /\ \A r \in Handlers : HandlerSound(handler[r], ledger, version)

LEMMA ImageIsFinite ==
  ASSUME NEW S, IsFiniteSet(S), NEW f, f = [t \in S |-> f[t]]
  PROVE  IsFiniteSet({f[t] : t \in S})
<1> DEFINE T == {f[t] : t \in S}
<1>1. f \in Surjection(S, T)
  BY DEF Surjection
<1> HIDE DEF T
<1>2. IsFiniteSet(T)
  BY <1>1, FS_Surjection
<1> QED
  BY <1>2 DEF T

LEMMA Singletons ==
  ASSUME NEW x, NEW n \in Int
  PROVE  /\ IsFiniteSet({x} \X (1 .. n))
         /\ n \in Nat => Cardinality({x} \X (1 .. n)) = n
<1>1. IsFiniteSet(1 .. n) /\ Cardinality(1 .. n) = IF 1 > n THEN 0 ELSE n - 1 + 1
  <2>1. 1 \in Int
    OBVIOUS
  <2> QED
    BY <2>1, FS_Interval
<1>2. IsFiniteSet({x}) /\ Cardinality({x}) = 1
  BY FS_Singleton
<1>3. IsFiniteSet({x} \X (1 .. n)) /\ Cardinality({x} \X (1 .. n)) = Cardinality({x}) * Cardinality(1 .. n)
  BY <1>1, <1>2, FS_Product
<1>4. n \in Nat => Cardinality(1 .. n) = n
  BY <1>1
<1> QED
  BY <1>2, <1>3, <1>4

\* The sum over a ledger with one more row is larger by the amount of the row.
LEMMA SumIsNat ==
  ASSUME NEW S, IsFiniteSet(S), NEW f, f = [t \in S |-> f[t]], \A t \in S : f[t] \in Int
  PROVE  /\ IsFiniteSet(UNION {{t} \X (1 .. f[t]) : t \in DOMAIN f})
         /\ Sum(f) \in Nat
<1> DEFINE units(t) == {t} \X (1 .. f[t])
           image == [t \in S |-> units(t)]
<1>1. \A t \in S : IsFiniteSet(units(t))
  BY Singletons
<1>2. IsFiniteSet({units(t) : t \in S})
  <2>1. {units(t) : t \in S} = {image[t] : t \in S} /\ image = [t \in S |-> image[t]]
    OBVIOUS
  <2> HIDE DEF image
  <2>2. IsFiniteSet({image[t] : t \in S})
    BY <2>1, ImageIsFinite
  <2> QED
    BY <2>1, <2>2, Zenon
<1>3. IsFiniteSet(UNION {units(t) : t \in S})
  <2> DEFINE U == {units(t) : t \in S}
  <2>1. \A T \in U : IsFiniteSet(T)
    BY <1>1, Zenon
  <2> HIDE DEF U
  <2>2. IsFiniteSet(UNION U)
    BY <1>2, <2>1, FS_UNION DEF U
  <2> QED
    BY <2>2, Zenon DEF U
<1>4. DOMAIN f = S
  OBVIOUS
<1> QED
  BY <1>3, <1>4, FS_CardinalityType DEF Sum

LEMMA SumOfOneMore ==
  ASSUME NEW S, IsFiniteSet(S), NEW f, f = [t \in S |-> f[t]], \A t \in S : f[t] \in Int,
         NEW x, NEW g, g = [t \in S \cup {x} |-> g[t]], \A t \in S : g[t] = f[t], g[x] \in Nat
  PROVE  Sum(g) <= Sum(f) + g[x]
<1> DEFINE n == g[x]
           F == UNION {{t} \X (1 .. f[t]) : t \in DOMAIN f}
           G == UNION {{t} \X (1 .. g[t]) : t \in DOMAIN g}
           N == {x} \X (1 .. n)
<1>1. DOMAIN f = S /\ DOMAIN g = S \cup {x}
  OBVIOUS
<1>2. G = F \cup N
  <2>1. G \subseteq F \cup N
    <3> SUFFICES ASSUME NEW e \in G PROVE e \in F \cup N
      OBVIOUS
    <3>0. PICK t \in DOMAIN g : e \in {t} \X (1 .. g[t])
      OBVIOUS
    <3>1. t \in S \cup {x} /\ e \in {t} \X (1 .. g[t])
      BY <1>1, <3>0
    <3>2. CASE t \in S
      <4>1. e \in {t} \X (1 .. f[t]) /\ t \in DOMAIN f
        BY <1>1, <3>1, <3>2
      <4> QED
        BY <4>1
    <3>3. CASE t = x
      BY <3>1, <3>3
    <3> QED
      BY <3>2, <3>3
  <2>2. F \cup N \subseteq G
    BY <1>1
  <2> QED
    BY <2>1, <2>2
<1>3. IsFiniteSet(F) /\ Sum(f) = Cardinality(F)
  BY SumIsNat DEF Sum
<1>4. IsFiniteSet(N) /\ Cardinality(N) = n
  <2>1. n \in Int
    OBVIOUS
  <2>2. IsFiniteSet({x} \X (1 .. n)) /\ (n \in Nat => Cardinality({x} \X (1 .. n)) = n)
    BY <2>1, Singletons
  <2> QED
    BY <2>2
<1>5. /\ Cardinality(F \cup N) = Cardinality(F) + Cardinality(N) - Cardinality(F \cap N)
      /\ IsFiniteSet(F \cap N)
  <2> HIDE DEF F, N
  <2>1. Cardinality(F \cup N) = Cardinality(F) + Cardinality(N) - Cardinality(F \cap N)
    BY <1>3, <1>4, FS_Union
  <2>2. IsFiniteSet(F \cap N)
    BY <1>3, FS_Intersection
  <2> QED
    BY <2>1, <2>2
<1>6. Cardinality(F \cap N) \in Nat /\ Cardinality(F) \in Nat
  BY <1>3, <1>5, FS_CardinalityType
<1>7. Sum(g) = Cardinality(G)
  BY DEF Sum
<1> HIDE DEF F, G, N
<1> QED
  BY <1>2, <1>3, <1>4, <1>5, <1>6, <1>7

LEMMA RowsAreFinite ==
  ASSUME NEW rows \in Seq(Trades)
  PROVE  IsFiniteSet(RowsOf(rows)) /\ RowsOf(rows) \subseteq Trades
<1>1. IsFiniteSet(1 .. Len(rows))
  BY FS_Interval
<1>2. IsFiniteSet({rows[i] : i \in 1 .. Len(rows)})
  <2>1. rows = [i \in 1 .. Len(rows) |-> rows[i]]
    OBVIOUS
  <2> QED
    BY <1>1, <2>1, ImageIsFinite
<1>3. RowsOf(rows) = {rows[i] : i \in 1 .. Len(rows)}
  BY DEF RowsOf
<1> QED
  BY <1>2, <1>3

LEMMA AmountsAreNat ==
  ASSUME NEW rows \in Seq(Trades), NEW day
  PROVE  Reserved(RowsOf(rows)) \in Nat /\ Realised(RowsOf(rows), day) \in Nat
<1> DEFINE O == {u \in RowsOf(rows) : u.state = "OPEN"}
           C == {u \in RowsOf(rows) : u.state = "CLOSED" /\ u.day = day}
           f == [t \in O |-> t.plan]
           g == [t \in C |-> Positive(-t.net)]
<1>1. IsFiniteSet(O) /\ IsFiniteSet(C) /\ O \subseteq Trades /\ C \subseteq Trades
  BY RowsAreFinite, FS_Subset
<1>2. \A t \in Trades : t.plan \in Int /\ Positive(-t.net) \in Int
  BY DEF Trades, Positive
<1>3. f = [t \in O |-> f[t]] /\ \A t \in O : f[t] \in Int
  BY <1>1, <1>2
<1>4. g = [t \in C |-> g[t]] /\ \A t \in C : g[t] \in Int
  BY <1>1, <1>2
<1> HIDE DEF f, g
<1>5. Sum(f) \in Nat
  BY <1>1, <1>3, SumIsNat
<1>6. Sum(g) \in Nat
  BY <1>1, <1>4, SumIsNat
<1> QED
  BY <1>5, <1>6 DEF f, g, Reserved, Realised

LEMMA RowsOfAppend ==
  ASSUME NEW rows \in Seq(Trades), NEW t \in Trades
  PROVE  /\ RowsOf(Append(rows, t)) = RowsOf(rows) \cup {t}
         /\ Append(rows, t) \in Seq(Trades)
         /\ UniqueIds(rows) /\ (\A u \in RowsOf(rows) : u.id # t.id) => UniqueIds(Append(rows, t))
<1>1. DOMAIN Append(rows, t) = 1 .. Len(rows) + 1 /\ DOMAIN rows = 1 .. Len(rows)
  OBVIOUS
<1>2. Append(rows, t)[Len(rows) + 1] = t /\ \A i \in 1 .. Len(rows) : Append(rows, t)[i] = rows[i]
  OBVIOUS
<1>3. Len(rows) \in Nat
  OBVIOUS
<1> QED
  BY <1>1, <1>2, <1>3 DEF RowsOf, UniqueIds

LEMMA ExposureOfOneMore ==
  ASSUME NEW rows \in Seq(Trades), NEW t \in Trades, t.state = "OPEN", NEW day
  PROVE  Exposure(Append(rows, t), day) <= Exposure(rows, day) + t.plan
<1> DEFINE R == RowsOf(rows)
           O == {u \in R : u.state = "OPEN"}
           f == [u \in O |-> u.plan]
           X == O \cup {t}
           g == [u \in X |-> u.plan]
<1>1. RowsOf(Append(rows, t)) = R \cup {t}
  BY RowsOfAppend
<1>2. {u \in R \cup {t} : u.state = "CLOSED" /\ u.day = day} = {u \in R : u.state = "CLOSED" /\ u.day = day}
  OBVIOUS
<1>3. Realised(R \cup {t}, day) = Realised(R, day)
  BY <1>2 DEF Realised
<1>4. {u \in R \cup {t} : u.state = "OPEN"} = O \cup {t}
  OBVIOUS
<1>5. Reserved(R \cup {t}) = Sum(g) /\ Reserved(R) = Sum(f)
  BY <1>4 DEF Reserved
<1>6. IsFiniteSet(O) /\ O \subseteq Trades
  BY RowsAreFinite, FS_Subset
<1>7. t.plan \in Nat /\ \A u \in O : u.plan \in Int
  BY <1>6 DEF Trades
<1>8. /\ f = [u \in O |-> f[u]] /\ \A u \in O : f[u] \in Int
      /\ g = [u \in X |-> g[u]] /\ g[t] = t.plan /\ \A u \in O : g[u] = f[u]
  BY <1>7
<1>9. X = O \cup {t}
  OBVIOUS
<1> HIDE DEF f, g, O, X
<1>10. g = [u \in O \cup {t} |-> g[u]]
  BY <1>8, <1>9
<1>11. Sum(g) <= Sum(f) + t.plan
  <2>1. \A u \in O : g[u] = f[u]
    BY <1>8
  <2>2. \A u \in O : f[u] \in Int
    BY <1>8
  <2>3. g[t] \in Nat
    BY <1>7, <1>8
  <2>4. Sum(g) <= Sum(f) + g[t]
    BY <1>6, <1>8, <1>10, <2>1, <2>2, <2>3, SumOfOneMore
  <2> QED
    BY <1>8, <2>4
<1>12. Append(rows, t) \in Seq(Trades)
  OBVIOUS
<1>13. /\ Reserved(R) \in Nat /\ Realised(R, day) \in Nat
       /\ Reserved(R \cup {t}) \in Nat /\ Realised(R \cup {t}, day) \in Nat
  BY <1>1, <1>12, AmountsAreNat
<1> HIDE DEF R
<1> QED
  BY <1>1, <1>3, <1>5, <1>7, <1>11, <1>13 DEF Exposure, R

\* What risk_plan sizes fits into what the cap leaves.
LEMMA Quotients ==
  ASSUME NEW b \in Nat, NEW u \in Nat \ {0}
  PROVE  b \div u \in Nat /\ (b \div u) * u <= b
OBVIOUS

LEMMA Products ==
  ASSUME NEW m \in Nat, NEW n \in Nat, m <= n, NEW u \in Nat
  PROVE  m * u <= n * u /\ m * u \in Nat
OBVIOUS

LEMMA Wholes ==
  ASSUME NEW m \in Nat, NEW k \in Int
  PROVE  m * k \in Int
OBVIOUS

LEMMA AtMostItself == \A n \in Nat : n <= n
OBVIOUS

LEMMA SpareFits ==
  ASSUME NEW cap \in Int, NEW m \in Nat, NEW a \in Int, NEW n \in Nat, NEW b \in Int
  PROVE  cap - Higher(m, a) - Higher(n, b) \in Int /\ n + m + (cap - Higher(m, a) - Higher(n, b)) <= cap
<1>1. Higher(m, a) \in Int /\ Higher(m, a) >= m /\ Higher(n, b) \in Int /\ Higher(n, b) >= n
  BY DEF Higher
<1> QED
  BY <1>1

LEMMA LotsFit ==
  ASSUME NEW risk \in Risks, NEW reserve \in Nat, NEW realised \in Nat, Lots(risk, reserve, realised) # 0
  PROVE  /\ Lots(risk, reserve, realised) \in Nat
         /\ Lots(risk, reserve, realised) * risk.unit \in Nat
         /\ reserve + realised + Lots(risk, reserve, realised) * risk.unit <= risk.cap
<1> DEFINE spare == risk.cap - Higher(realised, risk.realised) - Higher(reserve, risk.open)
           allowed == Positive(Lower(risk.risk, spare))
           quotient == allowed \div risk.unit
           lots == Lots(risk, reserve, realised)
<1>1. /\ risk.unit \in Nat \ {0} /\ risk.risk \in Int /\ risk.cap \in Int
      /\ risk.realised \in Int /\ risk.open \in Int /\ MaxLots \in Nat
  BY RisksAssumption
<1>2. spare \in Int /\ reserve + realised + spare <= risk.cap
  BY <1>1, SpareFits, Zenon
<1>3. allowed \in Nat /\ (allowed # 0 => allowed <= spare)
  BY <1>1, <1>2 DEF Positive, Lower
<1>4. lots = Lower(MaxLots, quotient)
  BY DEF Lots
<1> HIDE DEF spare, allowed
<1>5. quotient \in Nat /\ quotient * risk.unit <= allowed
  BY <1>1, <1>3, Quotients
<1> HIDE DEF quotient, lots
<1>6. lots \in Nat /\ lots <= quotient
  BY <1>1, <1>4, <1>5 DEF Lower
<1>7. lots * risk.unit <= quotient * risk.unit /\ lots * risk.unit \in Nat /\ quotient * risk.unit \in Nat
  BY <1>1, <1>5, <1>6, Products
<1>8. allowed # 0
  <2>1. SUFFICES ASSUME allowed = 0 PROVE FALSE
    OBVIOUS
  <2>2. quotient = 0
    BY <1>1, <2>1 DEF quotient
  <2> QED
    BY <1>6, <2>2 DEF lots
<1>9. lots * risk.unit <= spare
  BY <1>2, <1>3, <1>5, <1>7, <1>8
<1>10. reserve + realised + lots * risk.unit <= risk.cap
  BY <1>1, <1>2, <1>7, <1>9
<1> QED
  BY <1>6, <1>7, <1>10 DEF lots

LEMMA HandlerMoves ==
  ASSUME handler = [r \in Handlers |-> handler[r]],
         NEW r \in Handlers, NEW q, handler' = [handler EXCEPT ![r] = q],
         NEW l, NEW v, \A s \in Handlers : HandlerSound(handler[s], l, v), HandlerSound(q, l, v)
  PROVE  /\ handler' = [s \in Handlers |-> handler'[s]]
         /\ \A s \in Handlers : HandlerSound(handler'[s], l, v)
OBVIOUS

\* A step that leaves the document alone.
LEMMA LedgerStays ==
  ASSUME PaperInv, UNCHANGED <<ledger, version, committed>>, tradingDay' \in Nat,
         \/ UNCHANGED handler
         \/ \E r \in Handlers : \E q : handler' = [handler EXCEPT ![r] = q] /\ HandlerSound(q, ledger, version)
  PROVE  PaperInv'
<1>1. PaperTypes'
  BY DEF PaperInv, PaperTypes
<1>2. LedgerHolds'
  BY DEF PaperInv, LedgerHolds, CapHolds, OneTradePerId, TradesKept, Known, Rows
<1>3. /\ handler' = [s \in Handlers |-> handler'[s]]
      /\ \A s \in Handlers : HandlerSound(handler'[s], ledger, version)
  <2>1. CASE UNCHANGED handler
    BY <2>1 DEF PaperInv
  <2>2. ASSUME NEW r \in Handlers, NEW q, handler' = [handler EXCEPT ![r] = q], HandlerSound(q, ledger, version)
        PROVE  <1>3!:
    BY <2>2, HandlerMoves DEF PaperInv
  <2> QED
    BY <2>1, <2>2
<1> QED
  BY <1>1, <1>2, <1>3 DEF PaperInv

\* The trade that open_trade adds is within the cap.
LEMMA OpeningIsSound ==
  ASSUME PaperInv, NEW q \in OpenForms, ~Taken(Rows, q.id),
         NEW lots, lots = Lots(q.risk, Reserved(Rows), Realised(Rows, q.day)), lots # 0,
         NEW t, t = [id |-> q.id, state |-> "OPEN", plan |-> lots * q.risk.unit, lots |-> lots,
                     net |-> 0, day |-> 0, exit |-> 0],
         NEW p, p = [pc |-> "put", version |-> version, rows |-> Append(ledger, t), then |-> q]
  PROVE  HandlerSound(p, ledger, version)
<1>1. ledger \in Seq(Trades) /\ version \in Nat /\ UniqueIds(ledger)
  BY DEF PaperInv, PaperTypes, LedgerHolds, OneTradePerId, UniqueIds
<1>2. q.risk \in Risks /\ q.id \in TradeIds /\ q.day \in Nat /\ q.pc = "open"
  BY DEF OpenForms
<1>3. Reserved(Rows) \in Nat /\ Realised(Rows, q.day) \in Nat
  BY <1>1, AmountsAreNat DEF Rows
<1>4. /\ lots \in Nat /\ lots * q.risk.unit \in Nat
      /\ Reserved(Rows) + Realised(Rows, q.day) + lots * q.risk.unit <= q.risk.cap
  BY <1>2, <1>3, LotsFit
<1>5. t \in Trades /\ t.state = "OPEN" /\ t.id = q.id /\ t.plan = lots * q.risk.unit
  BY <1>2, <1>4 DEF Trades
<1>6. \A u \in RowsOf(ledger) : u.id # t.id
  BY <1>5 DEF Taken, Rows
<1>7. /\ Append(ledger, t) \in Seq(Trades) /\ UniqueIds(Append(ledger, t))
      /\ RowsOf(Append(ledger, t)) = RowsOf(ledger) \cup {t}
  BY <1>1, <1>5, <1>6, RowsOfAppend
<1>8. Exposure(Append(ledger, t), q.day) <= Exposure(ledger, q.day) + t.plan
  BY <1>1, <1>5, ExposureOfOneMore
<1>9. Exposure(Append(ledger, t), q.day) \in Int
  <2>1. Reserved(RowsOf(Append(ledger, t))) \in Nat /\ Realised(RowsOf(Append(ledger, t)), q.day) \in Nat
    BY <1>7, AmountsAreNat
  <2> QED
    BY <2>1 DEF Exposure
<1>10. q.risk.cap \in Int
  BY <1>2, RisksAssumption
<1>11. Exposure(Append(ledger, t), q.day) <= q.risk.cap
  BY <1>3, <1>4, <1>5, <1>8, <1>9, <1>10 DEF Exposure, Rows
<1>12. p \in Puts
  BY <1>1, <1>7 DEF Puts, Forms
<1>13. PutSound(p)
  BY <1>5, <1>7, <1>11 DEF PutSound, Keeps
<1>14. \A u \in RowsOf(ledger) : Keeps(p.rows, u.id)
  BY <1>7 DEF Keeps
<1> QED
  BY <1>1, <1>2, <1>12, <1>13, <1>14 DEF HandlerSound, FormSound

LEMMA ClosingIsSound ==
  ASSUME PaperInv, NEW q \in CloseForms, FormSound(q, ledger),
         NEW t, t = Row(q.id), NEW i, i = CHOOSE k \in DOMAIN ledger : ledger[k].id = q.id,
         NEW rows, rows = [ledger EXCEPT ![i].state = "CLOSED", ![i].day = q.day, ![i].exit = q.exit,
                                         ![i].net = t.lots * q.exit],
         NEW p, p = [pc |-> "put", version |-> version, rows |-> rows, then |-> q]
  PROVE  HandlerSound(p, ledger, version)
<1>1. ledger \in Seq(Trades) /\ version \in Nat /\ UniqueIds(ledger)
  BY DEF PaperInv, PaperTypes, LedgerHolds, OneTradePerId, UniqueIds
<1>2. q.id \in TradeIds /\ q.day \in Nat /\ q.pc = "close" /\ q.exit \in Int
  BY RisksAssumption DEF CloseForms
<1>3. i \in DOMAIN ledger /\ ledger[i].id = q.id
  BY <1>2 DEF FormSound, Keeps, RowsOf
<1>4. t \in Trades /\ t.lots \in Nat
  <2>1. \E x \in Rows : x.id = q.id
    BY <1>2 DEF FormSound, Keeps, Rows
  <2>2. t \in Rows
    BY <2>1 DEF Row
  <2>3. Rows \subseteq Trades
    BY <1>1, RowsAreFinite DEF Rows
  <2> QED
    BY <2>2, <2>3 DEF Trades
<1> DEFINE u == [ledger[i] EXCEPT !.state = "CLOSED", !.day = q.day, !.exit = q.exit, !.net = t.lots * q.exit]
<1>5. t.lots * q.exit \in Int
  BY <1>2, <1>4, Wholes
<1>6. u \in Trades /\ u.id = ledger[i].id
  <2>1. ledger[i] \in Trades
    BY <1>1, <1>3
  <2> QED
    BY <1>2, <1>5, <2>1 DEF Trades
<1>7. rows = [ledger EXCEPT ![i] = u]
  BY <1>1, <1>3
<1> HIDE DEF u
<1>8. rows \in Seq(Trades) /\ DOMAIN rows = DOMAIN ledger
  BY <1>1, <1>3, <1>6, <1>7
<1>9. \A k \in DOMAIN ledger : rows[k].id = ledger[k].id
  BY <1>1, <1>3, <1>6, <1>7
<1>10. UniqueIds(rows) /\ \A x \in RowsOf(ledger) : Keeps(rows, x.id)
  <2>1. UniqueIds(rows)
    <3> SUFFICES ASSUME NEW k \in DOMAIN ledger, NEW m \in DOMAIN ledger, rows[k].id = rows[m].id
                 PROVE  k = m
      BY <1>8 DEF UniqueIds
    <3> QED
      BY <1>1, <1>9 DEF UniqueIds
  <2>2. ASSUME NEW x \in RowsOf(ledger) PROVE Keeps(rows, x.id)
    <3>1. PICK k \in DOMAIN ledger : x = ledger[k]
      BY <2>2 DEF RowsOf
    <3>2. rows[k].id = x.id /\ rows[k] \in RowsOf(rows)
      BY <1>8, <1>9, <3>1 DEF RowsOf
    <3> QED
      BY <3>2 DEF Keeps
  <2> QED
    BY <2>1, <2>2
<1>11. p \in Puts /\ PutSound(p)
  BY <1>1, <1>2, <1>8, <1>10 DEF Puts, Forms, PutSound
<1>12. p.then = q /\ p.version = version /\ p.rows = rows
  OBVIOUS
<1>13. version <= version
  BY <1>1, AtMostItself, Zenon
<1> QED
  BY <1>10, <1>11, <1>12, <1>13 DEF HandlerSound

\* The document is replaced: nobody else holds its version any more.
LEMMA LedgerMoves ==
  ASSUME PaperInv, NEW r \in Handlers, handler[r].pc = "put", version = handler[r].version, Commit(r)
  PROVE  PaperInv'
<1> DEFINE q == handler[r]
           new == [id |-> q.then.id, day |-> q.then.day, cap |-> q.then.risk.cap,
                   exposure |-> Exposure(q.rows, q.then.day)]
<1>1. /\ q \in Puts /\ PutSound(q) /\ FormSound(q.then, ledger)
      /\ \A t \in RowsOf(ledger) : Keeps(q.rows, t.id)
  BY DEF PaperInv, HandlerSound, Unused, Forms, OpenForms, CloseForms
<1>2. /\ ledger' = q.rows /\ version' = version + 1 /\ tradingDay' = tradingDay
      /\ handler' = [handler EXCEPT ![r] = Unused]
      /\ committed' = IF q.then.pc = "open" THEN committed \cup {new} ELSE committed
  BY DEF Commit, Serve, Exposure
<1>3. q.rows \in Seq(Trades) /\ q.then \in Forms /\ version \in Nat /\ tradingDay \in Nat /\ committed \subseteq Commitments
  BY <1>1 DEF Puts, PaperInv, PaperTypes
<1>4. q.then.pc = "open" => new \in Commitments /\ new.exposure <= new.cap /\ Keeps(q.rows, new.id)
  <2>1. SUFFICES ASSUME q.then.pc = "open" PROVE new \in Commitments /\ new.exposure <= new.cap /\ Keeps(q.rows, new.id)
    OBVIOUS
  <2>2. q.then \in OpenForms
    BY <1>3, <2>1 DEF Forms, CloseForms
  <2>3. Exposure(q.rows, q.then.day) \in Int
    BY <1>3, AmountsAreNat DEF Exposure
  <2>4. q.then.risk.cap \in Int
    BY <2>2, RisksAssumption DEF OpenForms
  <2> QED
    BY <1>1, <2>1, <2>2, <2>3, <2>4 DEF OpenForms, Commitments, PutSound
<1> HIDE DEF new
<1>5. PaperTypes'
  BY <1>2, <1>3, <1>4 DEF PaperTypes
<1>6. CapHolds'
  BY <1>2, <1>4 DEF PaperInv, LedgerHolds, CapHolds
<1>7. OneTradePerId'
  BY <1>1, <1>2 DEF OneTradePerId, PutSound, UniqueIds
<1>8. TradesKept'
  <2>1. \A c \in committed : Keeps(ledger, c.id)
    BY DEF PaperInv, LedgerHolds, TradesKept, Known, Rows, Keeps
  <2>2. \A c \in committed : Keeps(q.rows, c.id)
    BY <1>1, <2>1 DEF Keeps
  <2> QED
    BY <1>2, <1>4, <2>2 DEF TradesKept, Known, Rows, Keeps
<1>9. \A s \in Handlers : HandlerSound(handler[s], ledger', version')
  <2> TAKE s \in Handlers
  <2>1. HandlerSound(handler[s], ledger, version)
    BY DEF PaperInv
  <2>2. \A f : FormSound(f, ledger) => FormSound(f, ledger')
    BY <1>1, <1>2 DEF FormSound, Keeps
  <2>3. CASE handler[s] \in Puts
    <3>1. handler[s].version \in Nat
      BY <2>3 DEF Puts
    <3>2. handler[s] # Unused /\ handler[s] \notin Forms
      BY <2>3 DEF Puts, Unused, Forms, OpenForms, CloseForms
    <3> QED
      BY <1>2, <1>3, <2>1, <2>2, <2>3, <3>1, <3>2 DEF HandlerSound
  <2> QED
    BY <2>1, <2>2, <2>3 DEF HandlerSound
<1>10. HandlerSound(Unused, ledger', version')
  BY DEF HandlerSound
<1>11. /\ handler' = [s \in Handlers |-> handler'[s]]
       /\ \A s \in Handlers : HandlerSound(handler'[s], ledger', version')
  BY <1>2, <1>9, <1>10, HandlerMoves DEF PaperInv
<1> QED
  BY <1>5, <1>6, <1>7, <1>8, <1>11 DEF PaperInv, LedgerHolds

LEMMA PaperStarts == PaperInit => PaperInv
<1> SUFFICES ASSUME PaperInit PROVE PaperInv
  OBVIOUS
<1>1. PaperTypes /\ LedgerHolds
  BY DEF PaperInit, PaperTypes, LedgerHolds, CapHolds, OneTradePerId, TradesKept
<1>2. handler = [r \in Handlers |-> handler[r]] /\ \A r \in Handlers : HandlerSound(handler[r], ledger, version)
  BY DEF PaperInit, HandlerSound
<1> QED
  BY <1>1, <1>2 DEF PaperInv

LEMMA PaperSteps == PaperInv /\ [PaperNext]_paperVars => PaperInv'
<1> SUFFICES ASSUME PaperInv, [PaperNext]_paperVars PROVE PaperInv'
  OBVIOUS
<1>1. tradingDay \in Nat /\ ledger \in Seq(Trades)
  BY DEF PaperInv, PaperTypes
<1>2. CASE UNCHANGED paperVars
  BY <1>1, <1>2, LedgerStays DEF paperVars
<1>3. CASE Midnight
  BY <1>1, <1>3, LedgerStays DEF Midnight
<1>4. ASSUME NEW r \in Handlers, OpenTrade(r) PROVE PaperInv'
  <2>1. PICK id \in TradeIds, risk \in Risks :
          Serve(r, IF Known(id) THEN Unused
                   ELSE [pc |-> "open", id |-> id, risk |-> risk, day |-> tradingDay, seen |-> Rows])
    BY <1>4 DEF OpenTrade
  <2> DEFINE q == [pc |-> "open", id |-> id, risk |-> risk, day |-> tradingDay, seen |-> Rows]
  <2>2. q \in Forms /\ q.pc = "open"
    BY <1>1, RowsAreFinite DEF Forms, OpenForms, Rows
  <2>3. HandlerSound(Unused, ledger, version) /\ HandlerSound(q, ledger, version)
    BY <2>2 DEF HandlerSound, FormSound
  <2> HIDE DEF q
  <2>4. \E x \in {Unused, q} : handler' = [handler EXCEPT ![r] = x]
    BY <2>1 DEF Serve, q
  <2> QED
    BY <1>1, <1>4, <2>3, <2>4, LedgerStays DEF OpenTrade
<1>5. ASSUME NEW r \in Handlers, CloseTrade(r) PROVE PaperInv'
  <2>1. PICK t \in Rows, exit \in Exits : Serve(r, [pc |-> "close", id |-> t.id, exit |-> exit, day |-> tradingDay])
    BY <1>5 DEF CloseTrade
  <2> DEFINE q == [pc |-> "close", id |-> t.id, exit |-> exit, day |-> tradingDay]
  <2>2. t \in Trades
    BY <1>1, RowsAreFinite DEF Rows
  <2>3. q \in Forms /\ FormSound(q, ledger)
    BY <1>1, <2>2 DEF Forms, CloseForms, FormSound, Keeps, Rows, Trades
  <2>4. HandlerSound(q, ledger, version)
    BY <2>3 DEF HandlerSound
  <2> HIDE DEF q
  <2>5. handler' = [handler EXCEPT ![r] = q]
    BY <2>1 DEF Serve, q
  <2> QED
    BY <1>1, <1>5, <2>4, <2>5, LedgerStays DEF CloseTrade
<1>6. ASSUME NEW r \in Handlers, DecideStep(r) PROVE PaperInv'
  <2> DEFINE q == handler[r]
  <2>1. HandlerSound(q, ledger, version) /\ HandlerSound(Unused, ledger, version)
    BY DEF PaperInv, HandlerSound
  <2>2. UNCHANGED <<ledger, version, tradingDay, committed>> /\ Decide(r)
    BY <1>6 DEF DecideStep
  <2>3. CASE q.pc = "open"
    <3> DEFINE lots == Lots(q.risk, Reserved(Rows), Realised(Rows, q.day))
               t == [id |-> q.id, state |-> "OPEN", plan |-> lots * q.risk.unit, lots |-> lots,
                     net |-> 0, day |-> 0, exit |-> 0]
               p == [pc |-> "put", version |-> version, rows |-> Append(ledger, t), then |-> q]
    <3>1. q \in OpenForms
      BY <2>1, <2>3 DEF HandlerSound, Unused, Forms, CloseForms, Puts
    <3>2. handler' = [handler EXCEPT ![r] = IF Taken(Rows, q.id) \/ Len(ledger) >= MaxTrades \/ lots = 0 THEN Unused ELSE p]
      BY <2>2, <2>3 DEF Decide, Serve, Authoritative
    <3>3. CASE Taken(Rows, q.id) \/ Len(ledger) >= MaxTrades \/ lots = 0
      BY <1>1, <2>1, <2>2, <3>2, <3>3, LedgerStays
    <3>4. CASE ~(Taken(Rows, q.id) \/ Len(ledger) >= MaxTrades \/ lots = 0)
      <4>1. HandlerSound(p, ledger, version)
        BY <3>1, <3>4, OpeningIsSound
      <4> HIDE DEF p
      <4>2. handler' = [handler EXCEPT ![r] = p]
        BY <3>2, <3>4
      <4> QED
        BY <1>1, <2>2, <4>1, <4>2, LedgerStays
    <3> QED
      BY <3>3, <3>4
  <2>4. CASE q.pc = "close"
    <3> DEFINE t == Row(q.id)
               i == CHOOSE k \in DOMAIN ledger : ledger[k].id = q.id
               rows == [ledger EXCEPT ![i].state = "CLOSED", ![i].day = q.day, ![i].exit = q.exit,
                                      ![i].net = t.lots * q.exit]
               p == [pc |-> "put", version |-> version, rows |-> rows, then |-> q]
    <3>1. q \in CloseForms /\ FormSound(q, ledger)
      BY <2>1, <2>4 DEF HandlerSound, Unused, Forms, OpenForms, Puts
    <3>2. handler' = [handler EXCEPT ![r] = IF t.state = "CLOSED" THEN Unused ELSE p]
      BY <2>2, <2>4 DEF Decide, Serve
    <3>3. HandlerSound(p, ledger, version)
      BY <3>1, ClosingIsSound
    <3> HIDE DEF p
    <3>4. \E x \in {Unused, p} : handler' = [handler EXCEPT ![r] = x]
      BY <3>2
    <3> QED
      BY <1>1, <2>1, <2>2, <3>3, <3>4, LedgerStays
  <2> QED
    BY <2>2, <2>3, <2>4 DEF Decide
<1>7. ASSUME NEW r \in Handlers, Commit(r) PROVE PaperInv'
  <2>1. CASE version = handler[r].version
    BY <1>7, <2>1, LedgerMoves DEF Commit
  <2>2. CASE version # handler[r].version
    <3>1. handler[r] \in Puts /\ FormSound(handler[r].then, ledger)
      BY <1>7 DEF Commit, PaperInv, HandlerSound, Unused, Forms, OpenForms, CloseForms
    <3>2. HandlerSound(handler[r].then, ledger, version)
      BY <3>1 DEF HandlerSound, Puts
    <3> QED
      BY <1>1, <1>7, <2>2, <3>2, LedgerStays DEF Commit, Serve
  <2> QED
    BY <2>1, <2>2
<1> QED
  BY <1>2, <1>3, <1>4, <1>5, <1>6, <1>7 DEF PaperNext

\* paper_ledger.py: every trade is added within its daily cap and once, and no
\* writer takes a trade out of the ledger that another one has added.
THEOREM PaperTrades == PaperSpec => []LedgerHolds
<1>1. PaperInv => LedgerHolds
  BY DEF PaperInv
<1> QED
  BY <1>1, PaperStarts, PaperSteps, PTL DEF PaperSpec

(***************************************************************************)
(* The schedules of the data system name no job that nobody started, for   *)
(* any families, masters and sweeps, any days and any number of failures.  *)
(*                                                                         *)
(* A schedule is written from a draft that was begun some passes of the    *)
(* store ago, so SlotSound says of every slot, in the documents, in the    *)
(* draft and in the plan, that its jobs are settled: started, or paused by *)
(* the admin.  The plan may name one job besides, which is at hand and is  *)
(* settled before the plan is recorded.  That a job is settled never       *)
(* changes again.                                                          *)
(***************************************************************************)
JobFields == {"role", "family", "from", "to", "scope", "cat", "state", "user", "pinned", "started"}
JobSound(job) ==
  /\ JobFields \subseteq DOMAIN job
  /\ job.user \in BOOLEAN /\ job.started \in BOOLEAN
  /\ job.state # "paused" => job.started
JobsSound == \A j \in DOMAIN jobs : JobSound(jobs[j])

Settled(js, j) == j \in DOMAIN js /\ (js[j].started \/ js[j].user)
SlotSound(js, s, slot, atHand) == \A j \in NamedBy(s, slot) : j \in atHand \/ Settled(js, j)
SlotsSound(js, s, slots, names) ==
  /\ DOMAIN slots = names
  /\ \A x \in names : SlotSound(js, s, slots[x], {})

DocumentsSound ==
  /\ SlotsSound(jobs, "daily", history, Roles)
  /\ SlotsSound(jobs, "equity", equity, Families)
  /\ SlotSound(jobs, "earlier", earlier, {})
  /\ SlotsSound(jobs, "sweep", sweep, Sweeps)
DraftSound ==
  /\ stage = "daily" => SlotsSound(jobs, "daily", draft, Roles)
  /\ stage = "equity" => SlotsSound(jobs, "equity", draft, Families)

PlanIn(js, s, p) ==
  /\ p = [id |-> p.id, job |-> p.job, slot |-> p.slot, step |-> p.step, user |-> p.user]
  /\ p.user \in BOOLEAN
  /\ \/ p.step = "record" /\ SlotSound(js, s, p.slot, {})
     \/ /\ p.step \in {"pin", "start"}
        /\ p.id \in DOMAIN js /\ SlotSound(js, s, p.slot, {p.id})
        /\ p.user => s = "backfill" \/ (p.step = "start" /\ Settled(js, p.id))
PlanSound == plan # NoPlan => PlanIn(jobs, stage, plan) /\ <<stage, item>> \in attended

Attendable ==
  ({"backfill", "equity"} \X Families) \cup ({"earlier"} \X (Families \cap {"daily"}))
  \cup ({"daily"} \X Roles) \cup ({"sweep"} \X Sweeps)
ItemsSound == attended \subseteq Attendable /\ left \subseteq ItemsOf(stage)

SchedulesInv == JobsSound /\ DocumentsSound /\ DraftSound /\ PlanSound /\ ItemsSound

LEMMA SchedulesBegin == Init => SchedulesInv
<1> SUFFICES ASSUME Init PROVE SchedulesInv
  OBVIOUS
<1>1. PICK start \in Starts : /\ jobs = start.jobs /\ attended = start.attended
                              /\ history = [r \in Roles |-> IF r = "core" THEN start.core ELSE Unset]
  BY DEF Init
<1>2. JobsSound
  <2> SUFFICES ASSUME NEW j \in DOMAIN jobs PROVE JobSound(jobs[j])
    BY DEF JobsSound
  <2>1. /\ JobFields \subseteq DOMAIN start.jobs[j]
        /\ start.jobs[j].user \in BOOLEAN /\ start.jobs[j].started \in BOOLEAN
        /\ start.jobs[j].state # "paused" => start.jobs[j].started
    BY <1>1, StartsAssumption DEF JobBefore, JobFields
  <2> QED
    BY <1>1, <2>1 DEF JobSound, JobFields
<1>3. DocumentsSound
  <2>1. SlotSound(jobs, "daily", start.core, {})
    BY <1>1, StartsAssumption DEF CoreBefore, SlotSound, NamedBy, Settled
  <2>2. \A s : SlotSound(jobs, s, Unset, {})
    BY DEF SlotSound, NamedBy
  <2>3. /\ equity = [f \in Families |-> Unset] /\ earlier = Unset /\ sweep = [q \in Sweeps |-> Unset]
    BY DEF Init
  <2> QED
    BY <1>1, <2>1, <2>2, <2>3 DEF DocumentsSound, SlotsSound
<1>4. DraftSound /\ PlanSound
  BY DEF Init, DraftSound, PlanSound
<1>5. ItemsSound
  BY <1>1, AttendedAssumption DEF Init, ItemsSound, Attendable
<1> QED
  BY <1>2, <1>3, <1>4, <1>5 DEF SchedulesInv

\* What is settled stays settled, and what is said of slots stays true.
Settles(js, after) == \A j : Settled(js, j) => Settled(after, j)

LEMMA SlotsStay ==
  ASSUME NEW js, NEW after, Settles(js, after)
  PROVE  /\ \A s, slot, atHand : SlotSound(js, s, slot, atHand) => SlotSound(after, s, slot, atHand)
         /\ \A s, slots, names : SlotsSound(js, s, slots, names) => SlotsSound(after, s, slots, names)
<1>1. \A s, slot, atHand : SlotSound(js, s, slot, atHand) => SlotSound(after, s, slot, atHand)
  BY DEF Settles, SlotSound
<1> QED
  BY <1>1 DEF SlotsSound

LEMMA PlanStays ==
  ASSUME NEW js, NEW after, Settles(js, after), DOMAIN js \subseteq DOMAIN after, NEW s, NEW p, PlanIn(js, s, p)
  PROVE  PlanIn(after, s, p)
BY SlotsStay DEF PlanIn, Settles

LEMMA DocumentsStay ==
  ASSUME DocumentsSound, Settles(jobs, jobs'), UNCHANGED docs
  PROVE  DocumentsSound'
BY SlotsStay DEF DocumentsSound, docs

LEMMA DraftStays ==
  ASSUME DraftSound, Settles(jobs, jobs'), UNCHANGED <<stage, draft>>
  PROVE  DraftSound'
BY SlotsStay DEF DraftSound

\* A stage that begins has no plan, and reads its draft from the documents.
LEMMA EnterIsSound ==
  ASSUME NEW s, Enter(s), DocumentsSound, attended \subseteq Attendable, UNCHANGED <<jobs, attended>>
  PROVE  DraftSound' /\ PlanSound' /\ ItemsSound'
<1>1. stage' = s /\ draft' = Read(s) /\ plan' = NoPlan /\ left' = ItemsOf(s)
  BY DEF Enter
<1>2. DraftSound'
  BY <1>1 DEF DraftSound, Read, DocumentsSound
<1>3. PlanSound' /\ ItemsSound'
  BY <1>1 DEF PlanSound, ItemsSound, ItemsOf
<1> QED
  BY <1>2, <1>3

\* What is decided about an item names settled jobs and the one that is planned.
LEMMA DecisionIsSound ==
  ASSUME SchedulesInv, NEW x \in left
  PROVE  LET p == Decision(x)
         IN /\ p = [id |-> p.id, job |-> p.job, slot |-> p.slot, step |-> p.step, user |-> p.user]
            /\ p.user \in BOOLEAN /\ (p.user => stage = "backfill")
            /\ \/ p.step = "record" /\ SlotSound(jobs, stage, p.slot, {})
               \/ p.step = "pin" /\ JobSound(p.job) /\ SlotSound(jobs, stage, p.slot, {p.id})
<1> DEFINE Good(p) ==
             /\ p = [id |-> p.id, job |-> p.job, slot |-> p.slot, step |-> p.step, user |-> p.user]
             /\ p.user \in BOOLEAN /\ (p.user => stage = "backfill")
             /\ \/ p.step = "record" /\ SlotSound(jobs, stage, p.slot, {})
                \/ p.step = "pin" /\ JobSound(p.job) /\ SlotSound(jobs, stage, p.slot, {p.id})
<1>1. ASSUME NEW slot, SlotSound(jobs, stage, slot, {}) PROVE Good(Keep(slot))
  BY <1>1 DEF Keep
<1>2. ASSUME NEW id, NEW job, JobSound(job), NEW slot, SlotSound(jobs, stage, slot, {id})
      PROVE  Good(Plan(id, job, slot))
  BY <1>2 DEF Plan
<1>3. \A role, family, from, to, scope : JobSound(Job(role, family, from, to, scope))
  BY DEF JobSound, JobFields, Job
<1>4. <<stage, x>> \in Attendable
  BY DEF SchedulesInv, ItemsSound, ItemsOf
<1> HIDE DEF Good
<1>5. CASE stage = "backfill"
  <2>1. \A slot, atHand : SlotSound(jobs, stage, slot, atHand)
    BY <1>5 DEF SlotSound, NamedBy
  <2>2. Good(Bootstrap(x))
    BY <1>1, <1>2, <1>3, <2>1 DEF Bootstrap
  <2>3. Good(Additions(x))
    <3>1. ASSUME NEW id, NEW job, JobSound(job), NEW slot PROVE Good(Hold(id, job, slot))
      BY <1>5, <2>1, <3>1 DEF Good, Hold
    <3> QED
      BY <1>1, <1>2, <1>3, <2>1, <3>1 DEF Additions
  <2> QED
    BY <1>5, <2>2, <2>3 DEF Decision, Good
<1>6. CASE stage = "daily"
  <2>1. x \in Roles /\ SlotSound(jobs, stage, draft[x], {})
    BY <1>4, <1>6 DEF Attendable, SchedulesInv, DraftSound, SlotsSound
  <2>2. SlotSound(jobs, stage, Unset, {})
    BY DEF SlotSound, NamedBy
  <2>3. \A id, from, to : SlotSound(jobs, stage, [job |-> id, start |-> from, end |-> to, version |-> 2], {id})
    BY <1>6 DEF SlotSound, NamedBy
  <2>4. Good(Daily(x))
    BY <1>1, <1>2, <1>3, <2>1, <2>2, <2>3 DEF Daily
  <2> QED
    BY <1>6, <2>4 DEF Decision, Good
<1>7. CASE stage = "equity"
  <2> DEFINE ids == IF draft[x] = Unset THEN {} ELSE draft[x].ids
             open == {j \in ids : ~Ended(j)}
  <2>1. x \in Families /\ SlotSound(jobs, stage, draft[x], {})
    BY <1>4, <1>7 DEF Attendable, SchedulesInv, DraftSound, SlotsSound
  <2>2. \A j \in open : Settled(jobs, j)
    BY <1>7, <2>1 DEF SlotSound, NamedBy
  <2> HIDE DEF open
  <2>3. \A to : SlotSound(jobs, stage, [ids |-> open, end |-> to], {})
    BY <1>7, <2>2 DEF SlotSound, NamedBy
  <2>4. \A id, to : SlotSound(jobs, stage, [ids |-> open \cup {id}, end |-> to], {id})
    BY <1>7, <2>2 DEF SlotSound, NamedBy
  <2>5. Good(Equity(x))
    BY <1>1, <1>2, <1>3, <2>1, <2>3, <2>4 DEF Equity, open
  <2> QED
    BY <1>7, <2>5 DEF Decision, Good
<1>8. CASE stage = "earlier"
  <2> DEFINE ids == IF earlier = Unset THEN {} ELSE earlier.ids
  <2>1. SlotSound(jobs, stage, earlier, {})
    BY <1>8 DEF SchedulesInv, DocumentsSound
  <2>2. \A j \in ids : Settled(jobs, j)
    BY <1>8, <2>1 DEF SlotSound, NamedBy
  <2> HIDE DEF ids
  <2>3. \A cat : SlotSound(jobs, stage, [cat |-> cat, ids |-> ids], {})
    BY <1>8, <2>2 DEF SlotSound, NamedBy
  <2>4. \A id, cat : SlotSound(jobs, stage, [cat |-> cat, ids |-> ids \cup {id}], {id})
    BY <1>8, <2>2 DEF SlotSound, NamedBy
  <2>5. Good(Earlier(x))
    BY <1>1, <1>2, <1>3, <2>1, <2>3, <2>4 DEF Earlier, ids
  <2> QED
    BY <1>8, <2>5 DEF Decision, Good
<1>9. CASE stage = "sweep"
  <2> DEFINE found == {j \in DOMAIN jobs : jobs[j].family = x /\ jobs[j].state = "running"}
  <2>1. x \in Sweeps /\ SlotSound(jobs, stage, sweep[x], {})
    BY <1>4, <1>9 DEF Attendable, SchedulesInv, DocumentsSound, SlotsSound
  <2>2. \A j \in found : Settled(jobs, j)
    BY DEF SchedulesInv, JobsSound, JobSound, JobFields, Settled
  <2> HIDE DEF found
  <2>3. \A j \in found : SlotSound(jobs, stage, [job |-> j, at |-> today], {})
    BY <1>9, <2>2 DEF SlotSound, NamedBy
  <2>4. \A id : SlotSound(jobs, stage, [job |-> id, at |-> today], {id})
    BY <1>9 DEF SlotSound, NamedBy
  <2>5. found # {} => (CHOOSE j \in found : TRUE) \in found
    OBVIOUS
  <2>6. Good(Sweep(x))
    BY <1>1, <1>2, <1>3, <2>1, <2>3, <2>4, <2>5 DEF Sweep, found
  <2> QED
    BY <1>9, <2>6 DEF Decision, Good
<1>10. stage \in {"backfill", "daily", "equity", "earlier", "sweep"}
  BY <1>4 DEF Attendable
<1> QED
  BY <1>5, <1>6, <1>7, <1>8, <1>9, <1>10 DEF Good

\* One document changes and stays sound: what was settled is settled still.
LEMMA JobChanges ==
  ASSUME JobsSound, NEW j \in DOMAIN jobs, NEW job, JobSound(job),
         jobs[j].started \/ jobs[j].user => job.started \/ job.user,
         jobs' = [jobs EXCEPT ![j] = job]
  PROVE  JobsSound' /\ Settles(jobs, jobs') /\ DOMAIN jobs' = DOMAIN jobs /\ jobs'[j] = job
BY DEF JobsSound, Settles, Settled

LEMMA ResumeIsSound ==
  ASSUME JobsSound, NEW j \in DOMAIN jobs, jobs' = Resumed(j)
  PROVE  JobsSound' /\ Settles(jobs, jobs') /\ DOMAIN jobs' = DOMAIN jobs /\ Settled(jobs', j)
<1> DEFINE job == IF jobs[j].state = "completed" THEN jobs[j]
                  ELSE [jobs[j] EXCEPT !.state = "running", !.user = FALSE, !.started = TRUE]
<1>1. JobSound(jobs[j])
  BY DEF JobsSound
<1>2. JobSound(job) /\ job.started
  BY <1>1 DEF JobSound, JobFields
<1>3. jobs' = [jobs EXCEPT ![j] = job]
  BY DEF Resumed
<1> HIDE DEF job
<1>4. /\ JobsSound' /\ Settles(jobs, jobs') /\ DOMAIN jobs' = DOMAIN jobs /\ jobs'[j] = job
  BY <1>2, <1>3, JobChanges
<1> QED
  BY <1>2, <1>4 DEF Settled

LEMMA PinnedPlan ==
  ASSUME NEW p, p = [id |-> p.id, job |-> p.job, slot |-> p.slot, step |-> p.step, user |-> p.user], NEW kept
  PROVE  [p EXCEPT !.step = "start", !.user = kept] =
           [id |-> p.id, job |-> p.job, slot |-> p.slot, step |-> "start", user |-> kept]
<1>1. DOMAIN p = {"id", "job", "slot", "step", "user"}
  OBVIOUS
<1>2. [p EXCEPT !.step = "start"] = [id |-> p.id, job |-> p.job, slot |-> p.slot, step |-> "start", user |-> p.user]
  BY <1>1
<1> DEFINE r == [id |-> p.id, job |-> p.job, slot |-> p.slot, step |-> "start", user |-> p.user]
<1>3. [r EXCEPT !.user = kept] = [id |-> p.id, job |-> p.job, slot |-> p.slot, step |-> "start", user |-> kept]
  OBVIOUS
<1>4. [p EXCEPT !.step = "start", !.user = kept] = [r EXCEPT !.user = kept]
  BY <1>2
<1> QED
  BY <1>3, <1>4

LEMMA OtherJobsStep ==
  ASSUME SchedulesInv, JobsSound', Settles(jobs, jobs'), DOMAIN jobs \subseteq DOMAIN jobs',
         UNCHANGED <<docs, loop, attended>>
  PROVE  SchedulesInv'
<1>1. DocumentsSound' /\ DraftSound'
  BY DocumentsStay, DraftStays DEF SchedulesInv, loop
<1>2. PlanSound'
  BY PlanStays DEF SchedulesInv, PlanSound, loop
<1>3. ItemsSound'
  BY DEF SchedulesInv, ItemsSound, ItemsOf, loop
<1> QED
  BY <1>1, <1>2, <1>3 DEF SchedulesInv

LEMMA SchedulesSteps == SchedulesInv /\ [Next]_vars => SchedulesInv'
<1> SUFFICES ASSUME SchedulesInv, [Next]_vars PROVE SchedulesInv'
  OBVIOUS
<1>1. \A js : Settles(js, js)
  BY DEF Settles
<1>2. CASE UNCHANGED vars
  BY <1>1, <1>2, OtherJobsStep DEF vars, JobsSound, SchedulesInv
<1>3. CASE Refresh \/ Abort \/ Advanced
  <2>1. PICK s : Enter(s)
    BY <1>3 DEF Refresh, Abort, Advanced
  <2>2. UNCHANGED <<jobs, docs, attended>>
    BY <1>3 DEF Refresh, Abort, Advanced
  <2>3. DocumentsSound' /\ JobsSound'
    BY <1>1, <2>2, DocumentsStay DEF SchedulesInv, JobsSound
  <2>4. DocumentsSound /\ attended \subseteq Attendable
    BY DEF SchedulesInv, ItemsSound
  <2> QED
    BY <2>1, <2>2, <2>3, <2>4, EnterIsSound DEF SchedulesInv
<1>4. ASSUME NEW x \in left, DecideItem(x) PROVE SchedulesInv'
  <2> DEFINE p == Decision(x)
  <2>1. /\ p = [id |-> p.id, job |-> p.job, slot |-> p.slot, step |-> p.step, user |-> p.user]
        /\ p.user \in BOOLEAN /\ (p.user => stage = "backfill")
        /\ \/ p.step = "record" /\ SlotSound(jobs, stage, p.slot, {})
           \/ p.step = "pin" /\ JobSound(p.job) /\ SlotSound(jobs, stage, p.slot, {p.id})
    BY <1>4, DecisionIsSound
  <2>2. /\ plan' = p /\ item' = x /\ left' = left \ {x}
        /\ jobs' = IF p.step = "record" \/ p.id \in DOMAIN jobs THEN jobs ELSE Put(p.id, p.job)
        /\ UNCHANGED <<docs, stage, draft, attended>>
    BY <1>4 DEF DecideItem
  <2> HIDE DEF p
  <2>3. JobsSound' /\ Settles(jobs, jobs') /\ (p.step = "pin" => p.id \in DOMAIN jobs')
    BY <2>1, <2>2 DEF SchedulesInv, JobsSound, Settles, Settled, Put
  <2>4. DocumentsSound' /\ DraftSound'
    BY <2>2, <2>3, DocumentsStay, DraftStays DEF SchedulesInv
  <2>5. PlanIn(jobs', stage, p)
    <3>2. \A atHand : SlotSound(jobs, stage, p.slot, atHand) => SlotSound(jobs', stage, p.slot, atHand)
      BY <2>3, SlotsStay
    <3> QED
      BY <2>1, <2>3, <3>2 DEF PlanIn
  <2>6. <<stage, x>> \in attended
    BY <1>4 DEF SchedulesInv, ItemsSound, ItemsOf
  <2>7. PlanSound' /\ ItemsSound'
    BY <2>2, <2>5, <2>6 DEF PlanSound, ItemsSound, SchedulesInv, ItemsOf
  <2> QED
    BY <2>3, <2>4, <2>7 DEF SchedulesInv
<1>5. CASE Pin
  <2> DEFINE id == plan.id
             kept == plan.user \/ KeptPaused(id)
             q == [plan EXCEPT !.step = "start", !.user = kept]
             job == [jobs[id] EXCEPT !.pinned = TRUE]
  <2>1. /\ plan # NoPlan /\ plan.step = "pin" /\ jobs' = [jobs EXCEPT ![id] = job] /\ plan' = q
        /\ UNCHANGED <<docs, stage, left, item, draft, attended>>
    BY <1>5 DEF Pin, At, NoPlan
  <2>2. PlanIn(jobs, stage, plan) /\ <<stage, item>> \in attended
    BY <2>1 DEF SchedulesInv, PlanSound
  <2>3. id \in DOMAIN jobs /\ SlotSound(jobs, stage, plan.slot, {id})
    BY <2>1, <2>2 DEF PlanIn
  <2>4. JobSound(jobs[id])
    BY <2>3 DEF SchedulesInv, JobsSound
  <2>5. JobSound(job) /\ (jobs[id].started \/ jobs[id].user => job.started \/ job.user)
    BY <2>4 DEF JobSound, JobFields
  <2>6. kept \in BOOLEAN /\ (kept => stage = "backfill" \/ Settled(jobs, id))
    BY <2>1, <2>2, <2>3, <2>4 DEF PlanIn, KeptPaused, JobSound, JobFields, Settled
  <2>7. JobsSound' /\ Settles(jobs, jobs') /\ DOMAIN jobs' = DOMAIN jobs
    <3> HIDE DEF job
    <3> QED
      BY <2>1, <2>3, <2>5, JobChanges DEF SchedulesInv
  <2> HIDE DEF kept
  <2>8. /\ q = [id |-> q.id, job |-> q.job, slot |-> q.slot, step |-> q.step, user |-> q.user]
        /\ q.id = id /\ q.slot = plan.slot /\ q.step = "start" /\ q.user = kept
    <3>1. plan = [id |-> plan.id, job |-> plan.job, slot |-> plan.slot, step |-> plan.step, user |-> plan.user]
      BY <2>2 DEF PlanIn
    <3>4. q = [id |-> plan.id, job |-> plan.job, slot |-> plan.slot, step |-> "start", user |-> kept]
      BY <3>1, PinnedPlan
    <3> QED
      BY <3>4
  <2> HIDE DEF q
  <2>9. PlanIn(jobs', stage, q)
    BY <2>3, <2>6, <2>7, <2>8, SlotsStay DEF PlanIn, Settles
  <2>10. DocumentsSound' /\ DraftSound'
    BY <2>1, <2>7, DocumentsStay, DraftStays DEF SchedulesInv
  <2> QED
    BY <2>1, <2>2, <2>7, <2>9, <2>10 DEF SchedulesInv, PlanSound, ItemsSound, ItemsOf
<1>6. CASE StartJob
  <2> DEFINE id == plan.id
             q == [plan EXCEPT !.step = "record"]
  <2>1. /\ plan # NoPlan /\ plan.step = "start" /\ plan' = q
        /\ jobs' = IF plan.user THEN jobs ELSE Resumed(id)
        /\ UNCHANGED <<docs, stage, left, item, draft, attended>>
    BY <1>6 DEF StartJob, At, Goto, NoPlan
  <2>2. PlanIn(jobs, stage, plan) /\ <<stage, item>> \in attended
    BY <2>1 DEF SchedulesInv, PlanSound
  <2>3. id \in DOMAIN jobs /\ SlotSound(jobs, stage, plan.slot, {id}) /\ (plan.user => stage = "backfill" \/ Settled(jobs, id))
    BY <2>1, <2>2 DEF PlanIn
  <2>4. JobsSound' /\ Settles(jobs, jobs') /\ (stage = "backfill" \/ Settled(jobs', id))
    BY <1>1, <2>1, <2>3, ResumeIsSound DEF SchedulesInv, JobsSound
  <2>5. SlotSound(jobs', stage, plan.slot, {})
    BY <2>3, <2>4 DEF SlotSound, Settles, NamedBy
  <2>6. PlanIn(jobs', stage, q)
    BY <2>2, <2>5 DEF PlanIn
  <2> HIDE DEF q
  <2>7. DocumentsSound' /\ DraftSound'
    BY <2>1, <2>4, DocumentsStay, DraftStays DEF SchedulesInv
  <2> QED
    BY <2>1, <2>2, <2>4, <2>6, <2>7 DEF SchedulesInv, PlanSound, ItemsSound, ItemsOf
<1>7. CASE Record
  <2>1. /\ plan # NoPlan /\ plan.step = "record" /\ plan' = NoPlan
        /\ UNCHANGED <<jobs, stage, left, attended>>
    BY <1>7 DEF Record, At, NoPlan
  <2>2. SlotSound(jobs, stage, plan.slot, {}) /\ <<stage, item>> \in Attendable
    BY <2>1 DEF SchedulesInv, PlanSound, PlanIn, ItemsSound
  <2>3. JobsSound' /\ PlanSound' /\ ItemsSound'
    BY <2>1 DEF SchedulesInv, JobsSound, PlanSound, ItemsSound, ItemsOf
  <2>4. CASE stage = "backfill" /\ backfill # Unset
    <3>1. UNCHANGED <<history, equity, earlier, sweep, draft>>
      BY <1>7, <2>4 DEF Record
    <3> QED
      BY <2>1, <2>3, <3>1 DEF SchedulesInv, DocumentsSound, DraftSound
  <2>5. CASE stage = "earlier"
    <3>1. earlier' = plan.slot /\ UNCHANGED <<history, equity, sweep, draft>>
      BY <1>7, <2>5 DEF Record
    <3> QED
      BY <2>1, <2>2, <2>3, <2>5, <3>1 DEF SchedulesInv, DocumentsSound, DraftSound
  <2>6. CASE stage = "sweep"
    <3>1. sweep' = [sweep EXCEPT ![item] = plan.slot] /\ UNCHANGED <<history, equity, earlier, draft>>
      BY <1>7, <2>6 DEF Record
    <3>2. SlotsSound(jobs, "sweep", sweep', Sweeps)
      BY <2>2, <2>6, <3>1 DEF SchedulesInv, DocumentsSound, SlotsSound
    <3> QED
      BY <2>1, <2>3, <2>6, <3>1, <3>2 DEF SchedulesInv, DocumentsSound, DraftSound
  <2>7. CASE ~(stage = "backfill" /\ backfill # Unset) /\ stage \notin {"earlier", "sweep"}
    <3>1. draft' = [draft EXCEPT ![item] = plan.slot] /\ UNCHANGED docs
      BY <1>7, <2>7 DEF Record
    <3>2. stage = "daily" => SlotsSound(jobs, "daily", draft', Roles)
      BY <2>2, <3>1 DEF SchedulesInv, DraftSound, SlotsSound
    <3>3. stage = "equity" => SlotsSound(jobs, "equity", draft', Families)
      BY <2>2, <3>1 DEF SchedulesInv, DraftSound, SlotsSound
    <3>4. DraftSound' /\ DocumentsSound'
      BY <2>1, <3>1, <3>2, <3>3 DEF SchedulesInv, DraftSound, DocumentsSound, docs
    <3> QED
      BY <2>3, <3>4 DEF SchedulesInv
  <2> QED
    BY <2>4, <2>5, <2>6, <2>7
<1>8. CASE WriteSchedules
  <2>1. /\ Enter(NextStage(stage)) /\ UNCHANGED <<jobs, earlier, sweep, attended>>
        /\ history' = IF stage = "daily" THEN draft ELSE history
        /\ equity' = IF stage = "equity" THEN draft ELSE equity
    BY <1>8 DEF WriteSchedules
  <2>2. DocumentsSound' /\ JobsSound'
    BY <2>1 DEF SchedulesInv, DraftSound, DocumentsSound, JobsSound
  <2>3. DraftSound' /\ PlanSound' /\ ItemsSound'
    BY <2>1, EnterIsSound DEF SchedulesInv, ItemsSound
  <2> QED
    BY <2>2, <2>3 DEF SchedulesInv
<1>9. CASE NewDay
  BY <1>1, <1>9, OtherJobsStep DEF NewDay, SchedulesInv, JobsSound
<1>10. ASSUME NEW j \in DOMAIN jobs, NEW state, Finish(j, state) PROVE SchedulesInv'
  <2> DEFINE job == [jobs[j] EXCEPT !.state = state]
  <2>1. JobSound(job) /\ (jobs[j].started \/ jobs[j].user => job.started \/ job.user)
    BY <1>10 DEF Finish, SchedulesInv, JobsSound, JobSound, JobFields
  <2>2. jobs' = [jobs EXCEPT ![j] = job] /\ UNCHANGED <<docs, loop, attended>>
    BY <1>10 DEF Finish
  <2> HIDE DEF job
  <2> QED
    BY <2>1, <2>2, JobChanges, OtherJobsStep DEF SchedulesInv
<1>11. ASSUME NEW j \in DOMAIN jobs, AdminPause(j) PROVE SchedulesInv'
  <2> DEFINE job == [jobs[j] EXCEPT !.state = "paused", !.user = TRUE]
  <2>1. JobSound(job) /\ job.user
    BY <1>11 DEF SchedulesInv, JobsSound, JobSound, JobFields
  <2>2. jobs' = [jobs EXCEPT ![j] = job] /\ UNCHANGED <<docs, loop, attended>>
    BY <1>11 DEF AdminPause
  <2> HIDE DEF job
  <2> QED
    BY <2>1, <2>2, JobChanges, OtherJobsStep DEF SchedulesInv
<1>12. ASSUME NEW j \in DOMAIN jobs, AdminResume(j) PROVE SchedulesInv'
  BY <1>12, ResumeIsSound, OtherJobsStep DEF AdminResume, SchedulesInv
<1> QED
  BY <1>2, <1>3, <1>4, <1>5, <1>6, <1>7, <1>8, <1>9, <1>10, <1>11, <1>12 DEF Next, Loop

\* data_system.py: a job that a schedule document names was started before, or
\* the admin paused it, whatever fails or dies between the two writes.
THEOREM NobodyIsForgotten == Spec => []NothingForgotten
<1>1. SchedulesInv => NothingForgotten
  BY DEF SchedulesInv, DocumentsSound, SlotsSound, SlotSound, NothingForgotten, Named, Settled
<1> QED
  BY <1>1, SchedulesBegin, SchedulesSteps, PTL DEF Spec

(***************************************************************************)
(* No day is skipped, for any dates, masters and failures, as long as the   *)
(* admin does not pause a root (additions made meanwhile are a finding).    *)
(*                                                                         *)
(* JobsFit says what every job asks for: its scope is what its master       *)
(* lists, an id stands for one request, and a root or an addition reaches   *)
(* as far as every window of an older master.  So an identity that a window *)
(* lacks, because its master did, is in an addition that covers the window. *)
(* SlotFits says what a slot promises, in a document, in the draft and in   *)
(* the plan: the jobs behind it cover every day since the first; the plan   *)
(* may count on the one job at hand besides.  w is the world the promises   *)
(* are made in: the documents and the master.                               *)
(***************************************************************************)
Here == [backfill |-> backfill, history |-> history, equity |-> equity, since |-> since, master |-> master]
Early == Begin + Slack
FamilyOf(r) == IF r = "core" THEN "daily" ELSE r
StaysTo(i, m) == \A a \in 1 .. m : i \in Catalogues[a] => \A b \in a .. m : i \in Catalogues[b]

JobFits(w, day, js, job) ==
  /\ job.from \in Int /\ job.to \in Int /\ job.cat \in 1 .. w.master
  /\ job.role # "sweep" => job.to <= day
  /\ job.role \in Families => job.scope = Catalogues[job.cat] /\ Early < job.from
  /\ job.role = "equity" => job.scope = Catalogues[job.cat] \cap Traded /\ Early < job.from
  /\ job.role \in {"backfill", "manual"} => Catalogues[job.cat] \subseteq job.scope /\ ~job.user
  /\ job.role = "manual" => job.cat = 1
  /\ job.role = "added" =>
       /\ w.backfill # Unset /\ job.family \in Families /\ job.scope \subseteq Catalogues[job.cat]
       /\ job.from = js[w.backfill[job.family]].from /\ js[w.backfill[job.family]].to <= job.to

NewerReachesFurther(js) ==
  \A k, j \in DOMAIN js :
    js[k].role \in {"backfill", "added"} /\ js[j].role \in Families \cup {"equity"} /\ js[j].cat < js[k].cat
    => js[j].to <= js[k].to

\* What a job asks for that has the id j.
RootIds(kind) == {kind} \X Families \X Int \X Int
WindowIds(kind) == {kind} \X Roles \X Int \X Int \X Int
IdFits(w, js, j) ==
  /\ j \in RootIds("backfill") => js[j].role = "backfill" /\ js[j].family = j[2] /\ js[j].from = j[3]
  /\ j \in RootIds("added") =>
       js[j].role = "added" /\ js[j].family = j[2] /\ js[j].scope = Catalogues[j[4]] \ Catalogues[j[3]]
  /\ j \in RootIds("earlier") =>
       /\ w.backfill # Unset /\ js[j].role = "earlier" /\ js[j].family = j[2]
       /\ js[j].from = 0 /\ js[j].to = js[w.backfill[j[2]]].from
       /\ js[j].scope = (Catalogues[j[4]] \ (IF j[3] = 0 THEN {} ELSE Catalogues[j[3]])) \cap Cash
  /\ j \in WindowIds("daily") =>
       /\ js[j].role = j[2] /\ js[j].family = FamilyOf(j[2]) /\ js[j].from = j[3] /\ js[j].to = j[4]
       /\ j[2] = "core" => js[j].cat = j[5] /\ js[j].scope = Catalogues[j[5]] \cap Core
  /\ j \in WindowIds("equity") =>
       js[j].role = "equity" /\ js[j].family = j[2] /\ js[j].from = j[3] /\ js[j].to = j[4]

JobsFit(w, day, js) ==
  /\ \A j \in DOMAIN js : JobFits(w, day, js, js[j]) /\ IdFits(w, js, j)
  /\ NewerReachesFurther(js)

\* A root; the additions of a family; the windows that meet from first to end;
\* the days before the five years.
Asked(js, j, hand) == j \in hand \/ Settled(js, j)
RootFits(js, f, j) ==
  j \in DOMAIN js /\ js[j].role \in {"backfill", "manual"} /\ js[j].family = f /\ js[j].from <= Early
AddedSince(w, js, f, m, hand) ==
  \A i \in Catalogues[m] :
    StaysTo(i, w.master) /\ i \notin Catalogues[js[w.backfill[f]].cat] =>
      \E k \in DOMAIN js : js[k].role = "added" /\ js[k].family = f /\ i \in js[k].scope /\ Asked(js, k, hand)
Serves(job, role, family) ==
  job.role = role /\ job.family = family /\ (role = "core" => Core \cap Catalogues[job.cat] \subseteq job.scope)
Meet(js, role, family, first, end, hand) ==
  \A d \in first .. end - 1 :
    \E j \in DOMAIN js : Serves(js[j], role, family) /\ d \in js[j].from .. js[j].to - 1 /\ Asked(js, j, hand)
DailyFits(js, r, first, slot, hand) ==
  slot # Unset =>
    /\ first \in Int /\ slot.end \in Int
    /\ r \in Families => Early < first /\ Early < slot.end - Overlap
    /\ Meet(js, r, FamilyOf(r), first, slot.end, hand)
EquityFits(js, f, first, slot, hand) ==
  slot # Unset =>
    /\ first \in Int /\ slot.end \in Int /\ Early < first /\ Early < slot.end
    /\ Meet(js, "equity", f, first, slot.end, hand)
EarlierFits(w, js, slot, hand) ==
  slot # Unset =>
    /\ w.backfill # Unset /\ "daily" \in Families /\ slot.cat \in 1 .. w.master
    /\ \A i \in Cash \cap Catalogues[slot.cat] :
         \E j \in DOMAIN js :
           /\ js[j].role = "earlier" /\ js[j].family = "daily" /\ i \in js[j].scope
           /\ js[j].from = 0 /\ js[j].to = js[w.backfill["daily"]].from /\ Asked(js, j, hand)

\* The first day of a series once its slot is written, as Since has it.
DailyFirst(w, r, slot) ==
  IF w.history[r] = Unset \/ w.history[r].version # slot.version THEN slot.start ELSE w.since[<<"daily", r>>]
EquityFirst(w, js, f, slot) ==
  IF w.equity[f] = Unset THEN js[CHOOSE j \in slot.ids : TRUE].from ELSE w.since[<<"equity", f>>]

SlotFits(w, js, s, x, slot, hand) ==
  /\ s = "backfill" /\ w.backfill = Unset => RootFits(js, x, slot)
  /\ s = "backfill" /\ w.backfill # Unset => slot = w.master /\ AddedSince(w, js, x, w.master, hand)
  /\ s = "daily" => DailyFits(js, x, DailyFirst(w, x, slot), slot, hand)
  /\ s = "equity" =>
       /\ EquityFits(js, x, EquityFirst(w, js, x, slot), slot, hand)
       /\ slot # Unset /\ w.equity[x] = Unset => (CHOOSE j \in slot.ids : TRUE) \in DOMAIN js
  /\ s = "earlier" => EarlierFits(w, js, slot, hand)

DocumentsFit(w, js) ==
  /\ w.backfill # Unset => \A f \in Families : RootFits(js, f, w.backfill[f])
  /\ \A r \in Roles : DailyFits(js, r, w.since[<<"daily", r>>], w.history[r], {})
  /\ \A f \in Families : EquityFits(js, f, w.since[<<"equity", f>>], w.equity[f], {})
ProgressFits(w, js, compared, old) ==
  /\ DOMAIN compared = Families
  /\ \A f \in Families : /\ compared[f] \in 0 .. w.master
                         /\ compared[f] # 0 => w.backfill # Unset /\ AddedSince(w, js, f, compared[f], {})
  /\ EarlierFits(w, js, old, {})
DraftFits(w, js) ==
  /\ stage = "backfill" /\ w.backfill = Unset =>
       /\ DOMAIN draft = Families
       /\ \A f \in Families : f \in left \/ (plan # NoPlan /\ item = f) \/ RootFits(js, f, draft[f])
  /\ stage = "daily" =>
       \A r \in Roles : (r \in left => draft[r] = w.history[r]) /\ SlotFits(w, js, "daily", r, draft[r], {})
  /\ stage = "equity" =>
       \A f \in Families : (f \in left => draft[f] = w.equity[f]) /\ SlotFits(w, js, "equity", f, draft[f], {})
AtHand(p) == IF p.step = "record" THEN {} ELSE {p.id}
PlanFits(w, js) ==
  plan # NoPlan =>
    /\ SlotFits(w, js, stage, item, plan.slot, AtHand(plan)) /\ item \notin left
    /\ plan.step \in {"pin", "start", "record"} /\ (plan.step = "pin" => ~plan.user)
    /\ plan.step = "start" /\ plan.user => Settled(js, plan.id)
ClockFits ==
  /\ today \in FirstDay .. LastDay /\ master \in 1 .. Len(Catalogues)
  /\ stage \in {Stages[n] : n \in 1 .. 6}
  /\ \A f, g \in Families : <<"backfill", f>> \in attended => <<"backfill", g>> \in attended
  /\ \A r \in Roles : <<"daily", r>> \in DOMAIN since
  /\ \A f \in Families : <<"equity", f>> \in DOMAIN since
DaysInv ==
  /\ ClockFits /\ JobsFit(Here, today, jobs) /\ DocumentsFit(Here, jobs)
  /\ ProgressFits(Here, jobs, lastCompared, earlier) /\ DraftFits(Here, jobs) /\ PlanFits(Here, jobs)

LEMMA DatesAreNumbers ==
  /\ FirstDay \in Nat /\ LastDay \in Nat /\ Begin \in Nat /\ Lead \in Nat /\ Overlap \in Nat
  /\ Span \in Nat /\ EquitySpan \in Nat /\ Slack \in Nat
  /\ Early \in Nat /\ Lead > 0 /\ Overlap <= Lead /\ Overlap <= Span /\ FirstDay <= LastDay
BY DatesAssumption DEF Early

\* The newest day with a session is before today and well after the day five
\* years back.
LEMMA SessionsAreRecent ==
  ASSUME ClockFits
  PROVE  Target \in Int /\ Target <= today /\ Early + Lead < Target
<1>1. PICK d \in Begin + Slack + Lead .. today - 1 : d \notin Weekend /\ \A e \in d + 1 .. today - 1 : e \in Weekend
  BY DatesAssumption DEF ClockFits
<1>2. d \in 0 .. today - 1 /\ today \in Int
  <2>1. today \in Nat /\ Begin + Slack + Lead \in Nat
    BY DatesAreNumbers DEF ClockFits
  <2>2. d \in Begin + Slack + Lead .. today - 1
    BY <1>1
  <2> QED
    BY ONLY <2>1, <2>2
<1> DEFINE Newest(e) == e \notin Weekend /\ \A c \in e + 1 .. today - 1 : c \in Weekend
<1>3. \E e \in 0 .. today - 1 : Newest(e)
  BY <1>1, <1>2
<1>4. RecentClosed \in 0 .. today - 1 /\ Newest(RecentClosed)
  BY <1>3 DEF RecentClosed
<1>5. RecentClosed = d
  <2>1. ~(RecentClosed < d)
    BY <1>1, <1>2, <1>4
  <2>2. ~(d < RecentClosed)
    BY <1>1, <1>2, <1>4
  <2> QED
    BY <1>2, <1>4, <2>1, <2>2
<1> QED
  BY <1>1, <1>2, <1>5, DatesAssumption DEF Target, Early

\* What a step leaves of the jobs: each asks for what it asked for.
Carries(js, after) ==
  /\ Settles(js, after) /\ DOMAIN js \subseteq DOMAIN after
  /\ \A j \in DOMAIN js :
       /\ after[j].role = js[j].role /\ after[j].family = js[j].family /\ after[j].from = js[j].from
       /\ after[j].to = js[j].to /\ after[j].scope = js[j].scope /\ after[j].cat = js[j].cat

Rooted(w, js) == w.backfill # Unset => \A f \in Families : RootFits(js, f, w.backfill[f])

LEMMA MeetCarries ==
  ASSUME NEW js, NEW after, Carries(js, after), NEW role, NEW family, NEW first, NEW end, NEW hand,
         Meet(js, role, family, first, end, hand)
  PROVE  Meet(after, role, family, first, end, hand)
<1> SUFFICES ASSUME NEW d \in first .. end - 1
             PROVE  \E j \in DOMAIN after : /\ Serves(after[j], role, family) /\ d \in after[j].from .. after[j].to - 1
                                            /\ Asked(after, j, hand)
  BY DEF Meet
<1>1. PICK j \in DOMAIN js : /\ Serves(js[j], role, family) /\ d \in js[j].from .. js[j].to - 1 /\ Asked(js, j, hand)
  BY DEF Meet
<1>2. j \in DOMAIN after /\ Serves(after[j], role, family) /\ d \in after[j].from .. after[j].to - 1
  BY <1>1 DEF Carries, Serves
<1>3. Asked(after, j, hand)
  BY <1>1 DEF Carries, Settles, Asked
<1> QED
  BY <1>2, <1>3

LEMMA AddedCarries ==
  ASSUME NEW js, NEW after, Carries(js, after), NEW w, Rooted(w, js), w.backfill # Unset, NEW f \in Families,
         NEW m, NEW hand, AddedSince(w, js, f, m, hand)
  PROVE  AddedSince(w, after, f, m, hand)
<1>1. after[w.backfill[f]].cat = js[w.backfill[f]].cat
  BY DEF Rooted, RootFits, Carries
<1>2. \A k : Asked(js, k, hand) => Asked(after, k, hand)
  BY DEF Carries, Settles, Asked
<1> QED
  BY <1>1, <1>2 DEF AddedSince, Carries

LEMMA EarlierCarries ==
  ASSUME NEW js, NEW after, Carries(js, after), NEW w, Rooted(w, js), NEW slot, NEW hand, EarlierFits(w, js, slot, hand)
  PROVE  EarlierFits(w, after, slot, hand)
<1> SUFFICES ASSUME slot # Unset PROVE EarlierFits(w, after, slot, hand)
  BY DEF EarlierFits
<1>1. after[w.backfill["daily"]].from = js[w.backfill["daily"]].from
  BY DEF Rooted, RootFits, Carries, EarlierFits
<1>2. \A k : Asked(js, k, hand) => Asked(after, k, hand)
  BY DEF Carries, Settles, Asked
<1> QED
  BY <1>1, <1>2 DEF EarlierFits, Carries

LEMMA RootCarries ==
  ASSUME NEW js, NEW after, Carries(js, after), NEW f, NEW j, RootFits(js, f, j)
  PROVE  RootFits(after, f, j)
BY DEF RootFits, Carries

LEMMA WindowsCarry ==
  ASSUME NEW js, NEW after, Carries(js, after), NEW x, NEW first, NEW slot, NEW hand
  PROVE  /\ DailyFits(js, x, first, slot, hand) => DailyFits(after, x, first, slot, hand)
         /\ EquityFits(js, x, first, slot, hand) => EquityFits(after, x, first, slot, hand)
BY MeetCarries DEF DailyFits, EquityFits

LEMMA SlotCarries ==
  ASSUME NEW js, NEW after, Carries(js, after), NEW w, Rooted(w, js), NEW s, NEW x, s = "backfill" => x \in Families,
         NEW slot, NEW hand, SlotFits(w, js, s, x, slot, hand)
  PROVE  SlotFits(w, after, s, x, slot, hand)
<1>1. s = "backfill" /\ w.backfill = Unset => RootFits(after, x, slot)
  BY RootCarries DEF SlotFits
<1>2. s = "backfill" /\ w.backfill # Unset => slot = w.master /\ AddedSince(w, after, x, w.master, hand)
  BY AddedCarries DEF SlotFits
<1>3. s = "daily" => DailyFits(after, x, DailyFirst(w, x, slot), slot, hand)
  BY WindowsCarry DEF SlotFits
<1>4. s = "equity" => /\ EquityFits(after, x, EquityFirst(w, after, x, slot), slot, hand)
                      /\ slot # Unset /\ w.equity[x] = Unset => (CHOOSE j \in slot.ids : TRUE) \in DOMAIN after
  <2> SUFFICES ASSUME s = "equity" PROVE <1>4!2
    OBVIOUS
  <2>1. CASE slot = Unset
    BY <2>1 DEF EquityFits
  <2>2. CASE slot # Unset
    <3>1. EquityFirst(w, after, x, slot) = EquityFirst(w, js, x, slot)
      BY <2>2 DEF EquityFirst, SlotFits, Carries
    <3>2. EquityFits(after, x, EquityFirst(w, js, x, slot), slot, hand)
      BY WindowsCarry DEF SlotFits
    <3> QED
      BY <3>1, <3>2 DEF SlotFits, Carries
  <2> QED
    BY <2>1, <2>2
<1>5. s = "earlier" => EarlierFits(w, after, slot, hand)
  BY EarlierCarries DEF SlotFits
<1> QED
  BY <1>1, <1>2, <1>3, <1>4, <1>5 DEF SlotFits

LEMMA StaysHere == \A i : Stays(i) <=> StaysTo(i, Here.master)
BY DEF Stays, StaysTo, Here

\* An identity that an older master lacked has its addition, which reaches as far.
LEMMA AdditionCovers ==
  ASSUME DaysInv, NEW f \in Families, lastCompared[f] # 0, NEW i \in Catalogues[lastCompared[f]], Stays(i),
         i \notin Catalogues[jobs[backfill[f]].cat]
  PROVE  \E k \in DOMAIN jobs :
           /\ jobs[k].role = "added" /\ jobs[k].family = f /\ i \in jobs[k].scope
           /\ jobs[k].started \/ jobs[k].user
           /\ jobs[k].from = jobs[backfill[f]].from /\ jobs[backfill[f]].to <= jobs[k].to
           /\ jobs[k].cat \in 1 .. master /\ i \in Catalogues[jobs[k].cat]
<1>1. AddedSince(Here, jobs, f, lastCompared[f], {})
  BY DEF DaysInv, ProgressFits
<1>2. PICK k \in DOMAIN jobs : /\ jobs[k].role = "added" /\ jobs[k].family = f /\ i \in jobs[k].scope
                               /\ Asked(jobs, k, {})
  BY <1>1, StaysHere DEF AddedSince, Here
<1>3. JobFits(Here, today, jobs, jobs[k])
  BY DEF DaysInv, JobsFit
<1> QED
  BY <1>2, <1>3 DEF Asked, Settled, JobFits, Here

\* What a window lacks of an identity that stays is asked for by the root, or by
\* the addition.
LEMMA WindowComplete ==
  ASSUME DaysInv, NEW f \in Families, lastCompared[f] # 0, NEW i \in Catalogues[lastCompared[f]], Stays(i),
         jobs[backfill[f]].started,
         NEW j \in DOMAIN jobs, jobs[j].role \in Families \cup {"equity"}, i \notin Catalogues[jobs[j].cat],
         NEW d \in jobs[j].from .. jobs[j].to - 1
  PROVE  Requested(i, d, f, {"backfill", "manual", "added"})
<1> DEFINE root == jobs[backfill[f]]
<1>1. backfill # Unset /\ RootFits(jobs, f, backfill[f]) /\ lastCompared[f] \in 0 .. master
  BY DEF DaysInv, DocumentsFit, ProgressFits, Here
<1>2. master \in 1 .. Len(Catalogues) /\ Len(Catalogues) \in Nat
  BY CataloguesAssumption DEF DaysInv, ClockFits
<1>3. /\ JobFits(Here, today, jobs, root) /\ JobFits(Here, today, jobs, jobs[j]) /\ NewerReachesFurther(jobs)
      /\ backfill[f] \in DOMAIN jobs /\ root.role \in {"backfill", "manual"} /\ root.family = f /\ root.from <= Early
  BY <1>1 DEF DaysInv, JobsFit, RootFits
<1>4. /\ jobs[j].from \in Int /\ jobs[j].to \in Int /\ jobs[j].cat \in 1 .. master
      /\ Early < jobs[j].from
      /\ root.from \in Int /\ root.to \in Int /\ root.cat \in 1 .. master
      /\ Catalogues[root.cat] \subseteq root.scope /\ (root.role = "manual" => root.cat = 1)
  BY <1>3 DEF JobFits, Here
<1>5. Early \in Int /\ d \in Int /\ jobs[j].from <= d /\ d < jobs[j].to
  <2>1. d \in Int /\ jobs[j].from <= d /\ d <= jobs[j].to - 1
    BY <1>4
  <2> QED
    BY <1>4, <2>1, DatesAreNumbers
<1>6. root.from <= d
  BY <1>3, <1>4, <1>5
<1>7. \A a \in 1 .. master : i \in Catalogues[a] => jobs[j].cat < a
  <2> SUFFICES ASSUME NEW a \in 1 .. master, i \in Catalogues[a], ~(jobs[j].cat < a) PROVE FALSE
    OBVIOUS
  <2>1. jobs[j].cat \in a .. master
    <3>1. master \in Int /\ jobs[j].cat \in 1 .. master
      BY <1>2, <1>4
    <3> QED
      BY <3>1
  <2> QED
    BY <2>1 DEF Stays
<1>8. CASE i \in Catalogues[root.cat]
  <2>1. jobs[j].cat < root.cat
    BY <1>4, <1>7, <1>8
  <2>2. root.role = "backfill"
    BY <1>2, <1>3, <1>4, <2>1
  <2>3. jobs[j].to <= root.to
    BY <1>3, <2>1, <2>2 DEF NewerReachesFurther
  <2>4. d \in root.from .. root.to - 1
    <3>1. d <= root.to - 1
      BY <1>4, <1>5, <2>3
    <3> QED
      BY <1>4, <1>5, <1>6, <3>1
  <2> QED
    BY <1>3, <1>4, <1>8, <2>4 DEF Requested
<1>9. CASE i \notin Catalogues[root.cat]
  <2>1. PICK k \in DOMAIN jobs :
          /\ jobs[k].role = "added" /\ jobs[k].family = f /\ i \in jobs[k].scope
          /\ jobs[k].started \/ jobs[k].user
          /\ jobs[k].from = root.from /\ jobs[k].cat \in 1 .. master /\ i \in Catalogues[jobs[k].cat]
    BY <1>9, AdditionCovers
  <2>2. jobs[j].cat < jobs[k].cat
    BY <1>7, <2>1
  <2>3. jobs[j].to <= jobs[k].to /\ jobs[k].to \in Int
    BY <1>3, <2>1, <2>2 DEF NewerReachesFurther, DaysInv, JobsFit, JobFits
  <2>4. d \in jobs[k].from .. jobs[k].to - 1
    <3>1. d <= jobs[k].to - 1
      BY <1>4, <1>5, <2>3
    <3>2. jobs[k].from <= d /\ jobs[k].from \in Int
      BY <1>4, <1>6, <2>1
    <3> QED
      BY <1>5, <2>3, <3>1, <3>2
  <2> QED
    BY <2>1, <2>4 DEF Requested
<1> QED
  BY <1>8, <1>9

LEMMA MoreRoles ==
  ASSUME NEW i, NEW d, NEW f, NEW few, NEW many, few \subseteq many, Requested(i, d, f, few)
  PROVE  Requested(i, d, f, many)
BY DEF Requested

LEMMA DaysAreRequested == DaysInv => EveryDayRequested
<1> SUFFICES ASSUME DaysInv PROVE EveryDayRequested
  OBVIOUS
<1> DEFINE whole == {"backfill", "manual", "added"}
<1>1. ASSUME NEW f \in Families, NEW i \in Listed(f), jobs[backfill[f]].started
      PROVE  /\ \A d \in jobs[backfill[f]].from .. jobs[backfill[f]].to - 1 : Requested(i, d, f, whole)
             /\ \A d \in Window(<<"daily", f>>) : Requested(i, d, f, whole \cup {f})
             /\ i \in Traded => \A d \in Window(<<"equity", f>>) : Requested(i, d, f, whole \cup {"equity"})
  <2> DEFINE root == jobs[backfill[f]]
  <2>1. lastCompared[f] # 0 /\ i \in Catalogues[lastCompared[f]] /\ Stays(i)
    BY DEF Listed
  <2>2. backfill # Unset /\ RootFits(jobs, f, backfill[f])
    BY <2>1 DEF DaysInv, DocumentsFit, ProgressFits, Here
  <2>3. JobFits(Here, today, jobs, root)
    BY <2>2 DEF DaysInv, JobsFit, RootFits
  <2>4. ASSUME NEW d \in root.from .. root.to - 1 PROVE Requested(i, d, f, whole)
    <3>1. CASE i \in Catalogues[root.cat]
      BY <1>1, <2>2, <2>3, <2>4, <3>1 DEF Requested, RootFits, JobFits
    <3>2. CASE i \notin Catalogues[root.cat]
      <4>1. PICK k \in DOMAIN jobs :
              /\ jobs[k].role = "added" /\ jobs[k].family = f /\ i \in jobs[k].scope
              /\ jobs[k].started \/ jobs[k].user
              /\ jobs[k].from = root.from /\ root.to <= jobs[k].to
        BY <2>1, <3>2, AdditionCovers
      <4>2. jobs[k].to \in Int /\ root.to \in Int /\ root.from \in Int
        BY <2>3 DEF DaysInv, JobsFit, JobFits
      <4>3. d \in jobs[k].from .. jobs[k].to - 1
        BY <2>4, <4>1, <4>2
      <4> QED
        BY <4>1, <4>3 DEF Requested
    <3> QED
      BY <3>1, <3>2
  <2>5. ASSUME NEW d \in Window(<<"daily", f>>) PROVE Requested(i, d, f, whole \cup {f})
    <3>1. history[f] # Unset /\ d \in since[<<"daily", f>>] .. history[f].end - 1
      BY <2>5 DEF Window
    <3>2. f \in Roles /\ FamilyOf(f) = f
      BY NamesAssumption DEF Roles, FamilyOf
    <3>3. DailyFits(jobs, f, since[<<"daily", f>>], history[f], {})
      BY <3>2 DEF DaysInv, DocumentsFit, Here
    <3>4. PICK j \in DOMAIN jobs : /\ Serves(jobs[j], f, f) /\ d \in jobs[j].from .. jobs[j].to - 1
                                   /\ Asked(jobs, j, {})
      BY <3>1, <3>2, <3>3 DEF DailyFits, Meet
    <3>5. CASE i \in Catalogues[jobs[j].cat]
      BY <3>4, <3>5 DEF DaysInv, JobsFit, JobFits, Serves, Asked, Settled, Requested
    <3>6. CASE i \notin Catalogues[jobs[j].cat]
      <4>1. Requested(i, d, f, whole)
        BY <1>1, <2>1, <3>4, <3>6, WindowComplete DEF Serves
      <4> QED
        BY <4>1, MoreRoles
    <3> QED
      BY <3>5, <3>6
  <2>6. ASSUME i \in Traded, NEW d \in Window(<<"equity", f>>) PROVE Requested(i, d, f, whole \cup {"equity"})
    <3>1. equity[f] # Unset /\ d \in since[<<"equity", f>>] .. equity[f].end - 1
      BY <2>6 DEF Window
    <3>2. EquityFits(jobs, f, since[<<"equity", f>>], equity[f], {})
      BY DEF DaysInv, DocumentsFit, Here
    <3>3. PICK j \in DOMAIN jobs : /\ Serves(jobs[j], "equity", f) /\ d \in jobs[j].from .. jobs[j].to - 1
                                   /\ Asked(jobs, j, {})
      BY <3>1, <3>2 DEF EquityFits, Meet
    <3>4. CASE i \in Catalogues[jobs[j].cat]
      <4>1. jobs[j].scope = Catalogues[jobs[j].cat] \cap Traded
        BY <3>3 DEF DaysInv, JobsFit, JobFits, Serves
      <4> QED
        BY <2>6, <3>3, <3>4, <4>1 DEF Serves, Asked, Settled, Requested
    <3>5. CASE i \notin Catalogues[jobs[j].cat]
      <4>1. Requested(i, d, f, whole)
        BY <1>1, <2>1, <3>3, <3>5, WindowComplete DEF Serves
      <4> QED
        BY <4>1, MoreRoles
    <3> QED
      BY <3>4, <3>5
  <2> QED
    BY <2>4, <2>5, <2>6
<1>2. ASSUME NEW i \in {x \in Core : \A k \in 1 .. master : x \in Catalogues[k]}, NEW d \in Window(<<"daily", "core">>)
      PROVE  Requested(i, d, "daily", {"core"})
  <2>1. history["core"] # Unset /\ d \in since[<<"daily", "core">>] .. history["core"].end - 1
    BY <1>2 DEF Window
  <2>2. DailyFits(jobs, "core", since[<<"daily", "core">>], history["core"], {})
    BY DEF DaysInv, DocumentsFit, Here, Roles
  <2>3. PICK j \in DOMAIN jobs : /\ Serves(jobs[j], "core", "daily") /\ d \in jobs[j].from .. jobs[j].to - 1
                                 /\ Asked(jobs, j, {})
    BY <2>1, <2>2 DEF DailyFits, Meet, FamilyOf
  <2>4. jobs[j].cat \in 1 .. master
    BY DEF DaysInv, JobsFit, JobFits, Here
  <2> QED
    BY <1>2, <2>3, <2>4 DEF Serves, Asked, Settled, Requested
<1>3. ASSUME earlier # Unset,
             NEW i \in Cash \cap Catalogues[earlier.cat], NEW d \in 0 .. jobs[backfill["daily"]].from - 1
      PROVE  Requested(i, d, "daily", {"earlier"})
  <2>1. PICK j \in DOMAIN jobs :
          /\ jobs[j].role = "earlier" /\ jobs[j].family = "daily" /\ i \in jobs[j].scope
          /\ jobs[j].from = 0 /\ jobs[j].to = jobs[backfill["daily"]].from /\ Asked(jobs, j, {})
    BY <1>3 DEF DaysInv, ProgressFits, EarlierFits, Here
  <2> QED
    BY <2>1 DEF Asked, Settled, Requested
<1> HIDE DEF whole
<1> QED
  BY <1>1, <1>2, <1>3 DEF EveryDayRequested, whole

\* What a job and an id stand for does not change.
LEMMA JobFitsCarries ==
  ASSUME NEW w, NEW day, NEW js, NEW after, Carries(js, after), Rooted(w, js), NEW job, JobFits(w, day, js, job)
  PROVE  JobFits(w, day, after, job)
BY DEF JobFits, Carries, Rooted, RootFits

LEMMA JobStaysFit ==
  ASSUME NEW w, NEW day, NEW js, NEW after, Carries(js, after), Rooted(w, js), NEW j \in DOMAIN js,
         JobFits(w, day, js, js[j]), js[j].role \in {"backfill", "manual"} => ~after[j].user
  PROVE  JobFits(w, day, after, after[j])
<1>1. JobFits(w, day, after, js[j])
  BY JobFitsCarries
<1>2. /\ after[j].role = js[j].role /\ after[j].family = js[j].family /\ after[j].from = js[j].from
      /\ after[j].to = js[j].to /\ after[j].scope = js[j].scope /\ after[j].cat = js[j].cat
  BY DEF Carries
<1> QED
  BY <1>1, <1>2 DEF JobFits

LEMMA IdStaysFit ==
  ASSUME NEW w, NEW js, NEW after, Carries(js, after), Rooted(w, js), NEW j \in DOMAIN js, IdFits(w, js, j)
  PROVE  IdFits(w, after, j)
<1>1. /\ after[j].role = js[j].role /\ after[j].family = js[j].family /\ after[j].from = js[j].from
      /\ after[j].to = js[j].to /\ after[j].scope = js[j].scope /\ after[j].cat = js[j].cat
  BY DEF Carries
<1>2. w.backfill # Unset => \A f \in Families : after[w.backfill[f]].from = js[w.backfill[f]].from
  BY DEF Carries, Rooted, RootFits
<1>3. j \in RootIds("earlier") => j[2] \in Families
  BY DEF RootIds
<1> QED
  BY <1>1, <1>2, <1>3 DEF IdFits

LEMMA JobsStayFit ==
  ASSUME NEW w, NEW day, NEW js, NEW after, JobsFit(w, day, js), Rooted(w, js), Carries(js, after),
         DOMAIN after = DOMAIN js, \A j \in DOMAIN js : js[j].role \in {"backfill", "manual"} => ~after[j].user
  PROVE  JobsFit(w, day, after)
<1>1. \A j \in DOMAIN after : JobFits(w, day, after, after[j]) /\ IdFits(w, after, j)
  BY JobStaysFit, IdStaysFit DEF JobsFit
<1>2. NewerReachesFurther(after)
  BY DEF JobsFit, Carries, NewerReachesFurther
<1> QED
  BY <1>1, <1>2 DEF JobsFit

\* A job that is added asks for days up to today, from the current master.
Adds(js, after, id, job) == after = [j \in DOMAIN js \cup {id} |-> IF j = id THEN job ELSE js[j]]

LEMMA AddedJobFits ==
  ASSUME NEW w, NEW day \in Int, NEW js, NEW after, NEW id, NEW job, JobsFit(w, day, js), Rooted(w, js), w.master \in Int,
         id \notin DOMAIN js, Adds(js, after, id, job),
         JobFits(w, day, js, job), job.cat = w.master, job.role \in {"backfill", "added"} => job.to = day,
         IdFits(w, after, id)
  PROVE  JobsFit(w, day, after) /\ Carries(js, after)
<1>1. /\ DOMAIN after = DOMAIN js \cup {id} /\ after[id] = job
      /\ \A j \in DOMAIN js : after[j] = js[j]
  BY DEF Adds
<1>2. Carries(js, after)
  BY <1>1 DEF Carries, Settles, Settled
<1>3. \A j \in DOMAIN after : JobFits(w, day, after, after[j]) /\ IdFits(w, after, j)
  <2> TAKE j \in DOMAIN after
  <2>1. CASE j = id
    BY <1>1, <1>2, <2>1, JobFitsCarries
  <2>2. CASE j # id
    BY <1>1, <1>2, <2>2, JobFitsCarries, IdStaysFit DEF JobsFit
  <2> QED
    BY <2>1, <2>2
<1>4. NewerReachesFurther(after)
  <2> SUFFICES ASSUME NEW k \in DOMAIN after, NEW j \in DOMAIN after, after[k].role \in {"backfill", "added"},
                      after[j].role \in Families \cup {"equity"}, after[j].cat < after[k].cat
               PROVE  after[j].to <= after[k].to
    BY DEF NewerReachesFurther
  <2>1. JobFits(w, day, after, after[j]) /\ JobFits(w, day, after, after[k])
    BY <1>3
  <2>2. after[j].to \in Int /\ after[j].cat \in 1 .. w.master /\ after[k].cat \in 1 .. w.master
    BY <2>1 DEF JobFits
  <2>3. after[j].to <= day
    BY <2>1, NamesAssumption DEF JobFits
  <2>4. CASE k = id
    BY <1>1, <2>3, <2>4
  <2>5. CASE k # id
    <3>1. after[j].cat # w.master
      BY <2>2
    <3>2. j # id
      BY <1>1, <3>1
    <3> QED
      BY <1>1, <2>5, <3>2 DEF JobsFit, NewerReachesFurther
  <2> QED
    BY <2>4, <2>5
<1> QED
  BY <1>2, <1>3, <1>4 DEF JobsFit

\* Time and masters only grow, and roots are recorded once.
Onward(w, v) ==
  /\ w.master \in Int /\ v.master \in Int /\ w.master <= v.master
  /\ v.backfill = w.backfill \/ w.backfill = Unset

LEMMA JobsFitLater ==
  ASSUME NEW w, NEW v, Onward(w, v), NEW day \in Int, NEW date \in Int, day <= date, NEW js, JobsFit(w, day, js)
  PROVE  JobsFit(v, date, js)
<1> SUFFICES ASSUME NEW j \in DOMAIN js PROVE JobFits(v, date, js, js[j]) /\ IdFits(v, js, j)
  BY DEF JobsFit
<1>1. JobFits(w, day, js, js[j]) /\ IdFits(w, js, j)
  BY DEF JobsFit
<1>2. js[j].role # "sweep" => js[j].to <= date
  BY <1>1 DEF JobFits
<1>3. js[j].cat \in 1 .. v.master
  <2>1. js[j].cat \in 1 .. w.master
    BY <1>1 DEF JobFits
  <2> QED
    BY <2>1 DEF Onward
<1>4. js[j].role = "added" =>
        /\ v.backfill # Unset /\ js[j].family \in Families /\ js[j].scope \subseteq Catalogues[js[j].cat]
        /\ js[j].from = js[v.backfill[js[j].family]].from /\ js[v.backfill[js[j].family]].to <= js[j].to
  BY <1>1 DEF JobFits, Onward
<1>5. JobFits(v, date, js, js[j])
  BY <1>1, <1>2, <1>3, <1>4 DEF JobFits
<1>6. IdFits(v, js, j)
  BY <1>1 DEF IdFits, Onward
<1> QED
  BY <1>5, <1>6

LEMMA ProgressLater ==
  ASSUME NEW w, NEW v, Onward(w, v), NEW js, NEW compared, NEW old, ProgressFits(w, js, compared, old)
  PROVE  ProgressFits(v, js, compared, old)
<1>1. \A i : StaysTo(i, v.master) => StaysTo(i, w.master)
  BY DEF StaysTo, Onward
<1>2. EarlierFits(v, js, old, {})
  <2> SUFFICES ASSUME old # Unset PROVE EarlierFits(v, js, old, {})
    BY DEF EarlierFits
  <2>1. w.backfill # Unset /\ v.backfill = w.backfill
    BY DEF ProgressFits, EarlierFits, Onward
  <2>2. old.cat \in 1 .. v.master
    BY DEF ProgressFits, EarlierFits, Onward
  <2> QED
    BY <2>1, <2>2 DEF ProgressFits, EarlierFits
<1>3. ASSUME NEW f \in Families
      PROVE  /\ compared[f] \in 0 .. v.master
             /\ compared[f] # 0 => v.backfill # Unset /\ AddedSince(v, js, f, compared[f], {})
  <2>1. compared[f] \in 0 .. v.master
    BY DEF ProgressFits, Onward
  <2>2. ASSUME compared[f] # 0 PROVE v.backfill # Unset /\ AddedSince(v, js, f, compared[f], {})
    <3>1. w.backfill # Unset /\ AddedSince(w, js, f, compared[f], {})
      BY <2>2 DEF ProgressFits
    <3>2. v.backfill = w.backfill
      BY <3>1 DEF Onward
    <3> QED
      BY <1>1, <3>1, <3>2 DEF AddedSince
  <2> QED
    BY <2>1, <2>2
<1> QED
  BY <1>2, <1>3 DEF ProgressFits

LEMMA RootIdsApart ==
  ASSUME NEW kind, NEW f \in Families, NEW a \in Int, NEW b \in Int
  PROVE  LET id == <<kind, f, a, b>>
         IN /\ id \in RootIds(kind) /\ id[2] = f /\ id[3] = a /\ id[4] = b
            /\ \A other : other # kind => id \notin RootIds(other) /\ id \notin WindowIds(other)
BY DEF RootIds, WindowIds

LEMMA WindowIdsApart ==
  ASSUME NEW kind, NEW r \in Roles, NEW a \in Int, NEW b \in Int, NEW m \in Int
  PROVE  LET id == <<kind, r, a, b, m>>
         IN /\ id \in WindowIds(kind) /\ id[2] = r /\ id[3] = a /\ id[4] = b /\ id[5] = m
            /\ \A other : other # kind => id \notin RootIds(other) /\ id \notin WindowIds(other)
BY DEF RootIds, WindowIds

\* What is decided about an item keeps its promises at once, or with the planned
\* job at hand, which may be there already under its id.
NewJob(id, job) ==
  /\ JobFits(Here, today, jobs, job) /\ job.cat = master
  /\ job.role \in {"backfill", "added"} => job.to = today
  /\ \A after : Adds(jobs, after, id, job) => IdFits(Here, after, id)
Suffices(x, id, slot) ==
  \A after : /\ Carries(jobs, after) /\ id \in DOMAIN after
             /\ IdFits(Here, after, id) /\ JobFits(Here, today, after, after[id])
             => SlotFits(Here, after, stage, x, slot, {id})
Promises(x, p) ==
  \/ p.step = "record" /\ SlotFits(Here, jobs, stage, x, p.slot, {})
  \/ p.step = "pin" /\ ~p.user /\ NewJob(p.id, p.job) /\ Suffices(x, p.id, p.slot)

LEMMA KeepPromises ==
  ASSUME NEW x, NEW slot, SlotFits(Here, jobs, stage, x, slot, {}) PROVE Promises(x, Keep(slot))
BY DEF Promises, Keep

LEMMA PlanPromises ==
  ASSUME NEW x, NEW id, NEW job, NEW slot, NewJob(id, job), Suffices(x, id, slot) PROVE Promises(x, Plan(id, job, slot))
BY DEF Promises, Plan

LEMMA Typical ==
  ASSUME DaysInv
  PROVE  /\ today \in Int /\ master \in Int /\ master >= 1 /\ Rooted(Here, jobs)
         /\ \A j \in DOMAIN jobs : JobFits(Here, today, jobs, jobs[j]) /\ IdFits(Here, jobs, j)
<1>1. FirstDay \in Int /\ LastDay \in Int /\ Len(Catalogues) \in Int
  BY DatesAreNumbers, CataloguesAssumption
<1>2. today \in FirstDay .. LastDay /\ master \in 1 .. Len(Catalogues)
  BY DEF DaysInv, ClockFits
<1>3. Rooted(Here, jobs)
  BY DEF DaysInv, DocumentsFit, Rooted
<1>4. \A j \in DOMAIN jobs : JobFits(Here, today, jobs, jobs[j]) /\ IdFits(Here, jobs, j)
  BY DEF DaysInv, JobsFit
<1> QED
  BY <1>1, <1>2, <1>3, <1>4

LEMMA BootstrapFits ==
  ASSUME DaysInv, stage = "backfill", backfill = Unset, NEW f \in Families
  PROVE  Promises(f, Bootstrap(f))
<1> USE DEF Here
<1>1. CASE Adoptable(f) # {}
  <2> DEFINE Best(j) == jobs[j].state = "running" \/ \A k \in Adoptable(f) : jobs[k].state # "running"
             root == CHOOSE j \in Adoptable(f) : Best(j)
  <2>1. \E j \in Adoptable(f) : Best(j)
    BY <1>1
  <2>2. root \in Adoptable(f)
    BY <2>1
  <2> HIDE DEF root
  <2>3. root \in DOMAIN jobs /\ jobs[root].family = f /\ jobs[root].role \in Unfiltered /\ jobs[root].from <= Early
    BY <2>2 DEF Adoptable, Early
  <2>4. JobFits(Here, today, jobs, jobs[root])
    BY <2>3, Typical
  <2>5. jobs[root].role \notin Families
    <3>1. jobs[root].from \in Int /\ Early \in Int
      BY <2>4, DatesAreNumbers DEF JobFits
    <3>2. ~(Early < jobs[root].from)
      BY <2>3, <3>1
    <3> QED
      BY <2>4, <3>2 DEF JobFits
  <2>6. jobs[root].role # "added"
    BY <2>4 DEF JobFits
  <2>7. RootFits(jobs, f, root)
    BY <2>3, <2>5, <2>6 DEF RootFits, Unfiltered
  <2>8. SlotFits(Here, jobs, stage, f, root, {})
    BY <2>7 DEF SlotFits
  <2> QED
    BY <1>1, <2>8, KeepPromises DEF Bootstrap, root
<1>2. CASE Adoptable(f) = {}
  <2> DEFINE id == <<"backfill", f, Begin, today>>
             job == Job("backfill", f, Begin, today, Catalogues[master])
  <2>1. today \in Int /\ Begin \in Int /\ Early \in Int /\ Begin <= Early /\ master \in Int /\ master >= 1
    BY Typical, DatesAreNumbers DEF Early
  <2>2. /\ id \in RootIds("backfill") /\ id[2] = f /\ id[3] = Begin
        /\ \A other : other # "backfill" => id \notin RootIds(other) /\ id \notin WindowIds(other)
    BY <2>1, RootIdsApart
  <2>3. /\ job.role = "backfill" /\ job.family = f /\ job.from = Begin /\ job.to = today
        /\ job.scope = Catalogues[master] /\ job.cat = master /\ ~job.user
    BY DEF Job
  <2> HIDE DEF id, job
  <2>4. JobFits(Here, today, jobs, job)
    BY <2>1, <2>3, NamesAssumption DEF JobFits
  <2>5. ASSUME NEW after, Adds(jobs, after, id, job) PROVE IdFits(Here, after, id)
    BY <2>2, <2>3, <2>5 DEF Adds, IdFits
  <2>6. NewJob(id, job)
    BY <2>3, <2>4, <2>5 DEF NewJob
  <2>7. ASSUME NEW after, id \in DOMAIN after, IdFits(Here, after, id) PROVE SlotFits(Here, after, stage, f, id, {id})
    <3>1. RootFits(after, f, id)
      BY <2>1, <2>2, <2>7 DEF IdFits, RootFits
    <3> QED
      BY <3>1 DEF SlotFits
  <2>8. Suffices(f, id, id)
    BY <2>7 DEF Suffices
  <2> QED
    BY <1>2, <2>6, <2>8, PlanPromises DEF Bootstrap, id, job
<1> QED
  BY <1>1, <1>2

LEMMA AdditionsFit ==
  ASSUME DaysInv, stage = "backfill", backfill # Unset, NEW f \in Families
  PROVE  Promises(f, Additions(f))
<1> USE DEF Here
<1> DEFINE root == jobs[backfill[f]]
           m == Compared(f)
           new == Catalogues[master] \ Catalogues[m]
           id == <<"added", f, m, master>>
           job == Job("added", f, root.from, today, new)
<1>1. today \in Int /\ master \in Int /\ master >= 1
  BY Typical
<1>2. RootFits(jobs, f, backfill[f])
  BY DEF DaysInv, DocumentsFit
<1>3. JobFits(Here, today, jobs, root)
  BY <1>2, Typical DEF RootFits
<1>4. /\ ~root.user /\ root.from \in Int /\ root.to <= today /\ root.cat \in 1 .. master
  BY <1>2, <1>3 DEF JobFits, RootFits
<1>5. /\ lastCompared[f] \in 0 .. master
      /\ lastCompared[f] # 0 => AddedSince(Here, jobs, f, lastCompared[f], {})
  BY DEF DaysInv, ProgressFits
<1>6. m \in Int /\ (lastCompared[f] # 0 => m = lastCompared[f]) /\ (lastCompared[f] = 0 => m = root.cat)
  BY <1>1, <1>4, <1>5 DEF Compared
<1> HIDE DEF m
<1>7. ASSUME NEW i \in Catalogues[master], StaysTo(i, master), i \in Catalogues[m], i \notin Catalogues[root.cat]
      PROVE  \E k \in DOMAIN jobs : jobs[k].role = "added" /\ jobs[k].family = f /\ i \in jobs[k].scope /\ Asked(jobs, k, {})
  BY <1>5, <1>6, <1>7 DEF AddedSince
<1>8. CASE lastCompared[f] = master \/ new = {}
  <2>1. \A i \in Catalogues[master] : i \in Catalogues[m]
    BY <1>1, <1>6, <1>8
  <2>2. AddedSince(Here, jobs, f, master, {})
    BY <1>7, <2>1 DEF AddedSince
  <2>3. SlotFits(Here, jobs, stage, f, master, {})
    BY <2>2 DEF SlotFits
  <2> QED
    BY <1>8, <2>3, KeepPromises DEF Additions, m
<1>9. CASE ~(lastCompared[f] = master \/ new = {})
  <2>1. /\ id \in RootIds("added") /\ id[2] = f /\ id[3] = m /\ id[4] = master
        /\ \A other : other # "added" => id \notin RootIds(other) /\ id \notin WindowIds(other)
    BY <1>1, <1>6, RootIdsApart
  <2>2. /\ job.role = "added" /\ job.family = f /\ job.from = root.from /\ job.to = today
        /\ job.scope = new /\ job.cat = master
    BY DEF Job
  <2> HIDE DEF id, job
  <2>3. JobFits(Here, today, jobs, job)
    BY <1>1, <1>4, <2>2, NamesAssumption DEF JobFits
  <2>4. ASSUME NEW after, Adds(jobs, after, id, job) PROVE IdFits(Here, after, id)
    BY <2>1, <2>2, <2>4 DEF Adds, IdFits
  <2>5. NewJob(id, job)
    BY <2>2, <2>3, <2>4 DEF NewJob
  <2>6. ASSUME NEW after, Carries(jobs, after), id \in DOMAIN after, IdFits(Here, after, id)
        PROVE  SlotFits(Here, after, stage, f, master, {id})
    <3>1. after[backfill[f]].cat = root.cat
      BY <1>2, <2>6 DEF Carries, RootFits
    <3>2. ASSUME NEW i \in Catalogues[master], StaysTo(i, master), i \notin Catalogues[root.cat]
          PROVE  \E k \in DOMAIN after : /\ after[k].role = "added" /\ after[k].family = f /\ i \in after[k].scope
                                         /\ Asked(after, k, {id})
      <4>1. CASE i \in Catalogues[m]
        <5>1. PICK k \in DOMAIN jobs : /\ jobs[k].role = "added" /\ jobs[k].family = f /\ i \in jobs[k].scope
                                       /\ Asked(jobs, k, {})
          BY <1>7, <3>2, <4>1
        <5> QED
          BY <2>6, <5>1 DEF Carries, Settles, Asked
      <4>2. CASE i \notin Catalogues[m]
        BY <2>1, <2>6, <4>2 DEF IdFits, Asked
      <4> QED
        BY <4>1, <4>2
    <3>3. AddedSince(Here, after, f, master, {id})
      BY <3>1, <3>2 DEF AddedSince
    <3> QED
      BY <3>3 DEF SlotFits
  <2>7. Suffices(f, id, master)
    BY <2>6 DEF Suffices
  <2>8. Additions(f) = Plan(id, job, master)
    BY <1>4, <1>9 DEF Additions, m, id, job
  <2> QED
    BY <2>5, <2>7, <2>8, PlanPromises
<1> QED
  BY <1>8, <1>9

LEMMA DailyFit ==
  ASSUME DaysInv, stage = "daily", NEW r \in Roles, r \in left
  PROVE  Promises(r, Daily(r))
<1> USE DEF Here
<1> DEFINE first(s) == DailyFirst(Here, r, s)
           slot == IF Replaced(r, draft[r]) THEN Unset ELSE draft[r]
           from == WindowStart(slot)
           to == Least(Target, from + Span)
           id == <<"daily", r, from, to, master>>
           job == Job(r, IF r = "core" THEN "daily" ELSE r, from, to,
                      IF r = "core" THEN Catalogues[master] \cap Core ELSE Catalogues[master])
           next == [job |-> id, start |-> from, end |-> to, version |-> 2]
<1>1. today \in Int /\ master \in Int /\ master >= 1
  BY Typical
<1>2. Target \in Int /\ Target <= today /\ Early + Lead < Target
  BY SessionsAreRecent DEF DaysInv
<1>3. draft[r] = history[r] /\ DailyFits(jobs, r, since[<<"daily", r>>], history[r], {})
  BY DEF DaysInv, DraftFits, DocumentsFit
<1>4. slot = Unset \/ (slot = history[r] /\ ~Replaced(r, history[r]))
  BY <1>3
<1>5. CASE slot # Unset /\ (~Ended(slot.job) \/ jobs[slot.job].state = "no_work" \/ slot.end >= Target)
  <2>1. slot = history[r] /\ slot # Unset
    BY <1>4, <1>5
  <2>2. first(slot) = since[<<"daily", r>>]
    BY <2>1 DEF DailyFirst
  <2>3. SlotFits(Here, jobs, stage, r, slot, {})
    BY <1>3, <2>1, <2>2 DEF SlotFits
  <2>4. Promises(r, Keep(slot))
    BY <2>3, KeepPromises
  <2> QED
    BY <1>5, <2>4 DEF Daily
<1>6. CASE ~(slot # Unset /\ (~Ended(slot.job) \/ jobs[slot.job].state = "no_work" \/ slot.end >= Target))
  <2>1. /\ from \in Int /\ (r \in Families => Early < from)
        /\ slot # Unset => slot = history[r] /\ slot.end \in Int /\ from <= slot.end
    <3>1. CASE slot = Unset
      BY <1>2, <3>1, DatesAreNumbers DEF WindowStart
    <3>2. CASE slot # Unset
      BY <1>3, <1>4, <3>2, DatesAreNumbers DEF WindowStart, DailyFits
    <3> QED
      BY <3>1, <3>2
  <2> HIDE DEF slot, from
  <2>2. /\ to \in Int /\ to <= today /\ (r \in Families => Early < to - Overlap)
    BY <1>1, <1>2, <2>1, DatesAreNumbers DEF Least
  <2> HIDE DEF to
  <2>3. /\ id \in WindowIds("daily") /\ id[2] = r /\ id[3] = from /\ id[4] = to /\ id[5] = master
        /\ \A other : other # "daily" => id \notin RootIds(other) /\ id \notin WindowIds(other)
    BY <1>1, <2>1, <2>2, WindowIdsApart
  <2>4. id \notin RootIds("daily")
    BY DEF RootIds
  <2>5. /\ job.role = r /\ job.family = FamilyOf(r) /\ job.from = from /\ job.to = to /\ job.cat = master
        /\ job.scope = IF r = "core" THEN Catalogues[master] \cap Core ELSE Catalogues[master]
    BY DEF Job, FamilyOf
  <2> HIDE DEF id, job
  <2>6. r \in Families => r # "core"
    BY NamesAssumption
  <2>7. r \notin {"equity", "backfill", "manual", "added", "earlier"}
    BY NamesAssumption DEF Roles
  <2>8. JobFits(Here, today, jobs, job)
    BY <1>1, <2>1, <2>2, <2>5, <2>6, <2>7 DEF JobFits
  <2>9. ASSUME NEW after, Adds(jobs, after, id, job) PROVE IdFits(Here, after, id)
    BY <2>3, <2>5, <2>9 DEF Adds, IdFits
  <2>10. NewJob(id, job)
    BY <2>5, <2>7, <2>8, <2>9 DEF NewJob
  <2>11. ASSUME NEW after, Carries(jobs, after), id \in DOMAIN after, IdFits(Here, after, id)
         PROVE  SlotFits(Here, after, stage, r, next, {id})
    <3>1. /\ Serves(after[id], r, FamilyOf(r)) /\ after[id].from = from /\ after[id].to = to
          /\ Asked(after, id, {id})
      BY <2>3, <2>11 DEF IdFits, Serves, Asked
    <3>2. next.start = from /\ next.end = to /\ next.version = 2
      OBVIOUS
    <3> HIDE DEF next
    <3>3. DailyFits(after, r, first(next), next, {id})
      <4>1. CASE history[r] = Unset \/ history[r].version # 2
        <5>1. first(next) = from
          BY <3>2, <4>1 DEF DailyFirst
        <5>2. Meet(after, r, FamilyOf(r), from, to, {id})
          BY <2>11, <3>1 DEF Meet
        <5> QED
          BY <2>1, <2>2, <3>2, <5>1, <5>2 DEF DailyFits
      <4>2. CASE history[r] # Unset /\ history[r].version = 2
        <5>1. first(next) = since[<<"daily", r>>]
          BY <3>2, <4>2 DEF DailyFirst
        <5>2. slot = history[r] /\ slot # Unset
          BY <1>3, <4>2 DEF slot, Replaced
        <5>3. DailyFits(after, r, since[<<"daily", r>>], slot, {})
          BY <1>3, <2>11, <5>2, WindowsCarry
        <5> DEFINE old == since[<<"daily", r>>]
        <5>4. /\ old \in Int /\ (r \in Families => Early < old)
              /\ Meet(after, r, FamilyOf(r), old, slot.end, {})
          BY <5>2, <5>3 DEF DailyFits
        <5>5. Meet(after, r, FamilyOf(r), old, to, {id})
          <6> SUFFICES ASSUME NEW d \in old .. to - 1
                       PROVE  \E j \in DOMAIN after : /\ Serves(after[j], r, FamilyOf(r))
                                                      /\ d \in after[j].from .. after[j].to - 1 /\ Asked(after, j, {id})
            BY DEF Meet
          <6>1. CASE d < slot.end
            <7>1. d \in old .. slot.end - 1
              BY <2>1, <2>2, <5>2, <5>4, <6>1
            <7> QED
              BY <5>4, <7>1 DEF Meet, Asked
          <6>2. CASE ~(d < slot.end)
            <7>1. d \in from .. to - 1
              BY <2>1, <2>2, <5>2, <5>4, <6>2
            <7> QED
              BY <2>11, <3>1, <7>1
          <6> QED
            BY <6>1, <6>2
        <5> QED
          BY <2>2, <3>2, <5>1, <5>4, <5>5 DEF DailyFits
      <4> QED
        BY <4>1, <4>2
    <3> QED
      BY <3>3 DEF SlotFits
  <2>12. Suffices(r, id, next)
    BY <2>11 DEF Suffices
  <2>13. Daily(r) = Plan(id, job, next)
    BY <1>6 DEF Daily, slot, from, to, id, job
  <2> QED
    BY <2>10, <2>12, <2>13, PlanPromises
<1> QED
  BY <1>5, <1>6

LEMMA EquityFit ==
  ASSUME DaysInv, stage = "equity", NEW f \in Families, f \in left
  PROVE  Promises(f, Equity(f))
<1> USE DEF Here
<1> DEFINE slot == draft[f]
           ids == IF slot = Unset THEN {} ELSE slot.ids
           open == {j \in ids : ~Ended(j)}
           from == IF slot = Unset THEN Target - Lead ELSE slot.end
           to == Least(Target, from + EquitySpan)
           id == <<"equity", f, from, to, master>>
           job == Job("equity", f, from, to, Catalogues[master] \cap Traded)
           old == since[<<"equity", f>>]
           next == [ids |-> open \cup {id}, end |-> to]
<1>1. today \in Int /\ master \in Int /\ master >= 1
  BY Typical
<1>2. Target \in Int /\ Target <= today /\ Early + Lead < Target
  BY SessionsAreRecent DEF DaysInv
<1>3. slot = equity[f] /\ EquityFits(jobs, f, old, slot, {})
  BY DEF DaysInv, DraftFits, DocumentsFit
<1>4. \A s : slot # Unset => EquityFirst(Here, jobs, f, s) = old
  BY <1>3 DEF EquityFirst
<1>5. /\ from \in Int /\ Early < from
      /\ slot = Unset => ids = {} /\ from < Target
      /\ slot # Unset => from = slot.end /\ old \in Int /\ Early < old /\ Meet(jobs, "equity", f, old, from, {})
  BY <1>2, <1>3, DatesAreNumbers DEF EquityFits
<1> HIDE DEF slot, from, ids
<1>6. CASE \E j \in ids : jobs[j].user
  <2>1. EquityFits(jobs, f, EquityFirst(Here, jobs, f, slot), slot, {}) /\ slot # Unset
    BY <1>3, <1>4, <1>5, <1>6
  <2>2. SlotFits(Here, jobs, stage, f, slot, {})
    BY <1>3, <2>1 DEF SlotFits
  <2>3. Promises(f, Keep(slot))
    BY <2>2, KeepPromises
  <2> QED
    BY <1>6, <2>3 DEF Equity, slot, ids
<1>7. CASE ~(\E j \in ids : jobs[j].user) /\ (from >= Target \/ Cardinality(open) >= 2)
  <2> DEFINE kept == [ids |-> open, end |-> from]
  <2>1. slot # Unset
    <3> SUFFICES ASSUME slot = Unset PROVE FALSE
      OBVIOUS
    <3>1. open = {} /\ from < Target
      BY <1>5
    <3>2. Cardinality(open) = 0
      BY <3>1, FS_EmptySet
    <3> QED
      BY <1>2, <1>5, <1>7, <3>1, <3>2
  <2>2. EquityFirst(Here, jobs, f, kept) = old /\ kept.end = from
    BY <1>4, <2>1
  <2> HIDE DEF kept
  <2>3. EquityFits(jobs, f, EquityFirst(Here, jobs, f, kept), kept, {})
    BY <1>5, <2>1, <2>2 DEF EquityFits
  <2>4. SlotFits(Here, jobs, stage, f, kept, {})
    BY <1>3, <2>1, <2>3 DEF SlotFits
  <2>5. Promises(f, Keep(kept))
    BY <2>4, KeepPromises
  <2>6. Equity(f) = Keep(kept)
    BY <1>7 DEF Equity, slot, ids, from, kept
  <2> QED
    BY <2>5, <2>6
<1>8. CASE ~(\E j \in ids : jobs[j].user) /\ ~(from >= Target \/ Cardinality(open) >= 2)
  <2>1. to \in Int /\ to <= today /\ Early < to
    BY <1>1, <1>2, <1>5, <1>8, DatesAreNumbers DEF Least
  <2> HIDE DEF to
  <2>2. /\ id \in WindowIds("equity") /\ id[2] = f /\ id[3] = from /\ id[4] = to
        /\ \A other : other # "equity" => id \notin RootIds(other) /\ id \notin WindowIds(other)
    BY <1>1, <1>5, <2>1, WindowIdsApart DEF Roles
  <2>3. /\ job.role = "equity" /\ job.family = f /\ job.from = from /\ job.to = to /\ job.cat = master
        /\ job.scope = Catalogues[master] \cap Traded
    BY DEF Job
  <2>4. slot = Unset => (CHOOSE j \in next.ids : TRUE) = id
    BY <1>5
  <2>5. next.end = to
    OBVIOUS
  <2> HIDE DEF id, job, next
  <2>6. JobFits(Here, today, jobs, job)
    BY <1>1, <1>5, <2>1, <2>3, NamesAssumption DEF JobFits
  <2>7. ASSUME NEW after, Adds(jobs, after, id, job) PROVE IdFits(Here, after, id)
    BY <2>2, <2>3, <2>7 DEF Adds, IdFits
  <2>8. NewJob(id, job)
    BY <2>3, <2>6, <2>7 DEF NewJob
  <2>9. ASSUME NEW after, Carries(jobs, after), id \in DOMAIN after, IdFits(Here, after, id)
        PROVE  SlotFits(Here, after, stage, f, next, {id})
    <3> DEFINE first == EquityFirst(Here, after, f, next)
    <3>1. /\ Serves(after[id], "equity", f) /\ after[id].from = from /\ after[id].to = to
          /\ Asked(after, id, {id})
      BY <2>2, <2>9 DEF IdFits, Serves, Asked
    <3>2. Meet(after, "equity", f, from, to, {id})
      BY <2>9, <3>1 DEF Meet
    <3>3. CASE slot = Unset
      <4>1. first = from
        BY <1>3, <2>4, <3>1, <3>3 DEF EquityFirst
      <4>2. EquityFits(after, f, first, next, {id})
        BY <1>5, <2>1, <2>5, <3>2, <4>1 DEF EquityFits
      <4> QED
        BY <2>4, <2>9, <3>3, <4>2, <1>3 DEF SlotFits
    <3>4. CASE slot # Unset
      <4>1. first = old
        BY <1>3, <3>4 DEF EquityFirst
      <4>2. old \in Int /\ Early < old /\ Meet(after, "equity", f, old, from, {})
        BY <1>5, <2>9, <3>4, MeetCarries
      <4>3. Meet(after, "equity", f, old, to, {id})
        <5> SUFFICES ASSUME NEW d \in old .. to - 1
                     PROVE  \E j \in DOMAIN after : /\ Serves(after[j], "equity", f)
                                                    /\ d \in after[j].from .. after[j].to - 1 /\ Asked(after, j, {id})
          BY DEF Meet
        <5>1. CASE d < from
          <6>1. d \in old .. from - 1
            BY <1>5, <2>1, <4>2, <5>1
          <6> QED
            BY <4>2, <6>1 DEF Meet, Asked
        <5>2. CASE ~(d < from)
          <6>1. d \in from .. to - 1
            BY <1>5, <2>1, <4>2, <5>2
          <6> QED
            BY <3>2, <6>1 DEF Meet
        <5> QED
          BY <5>1, <5>2
      <4>4. EquityFits(after, f, first, next, {id})
        BY <2>1, <2>5, <4>1, <4>2, <4>3 DEF EquityFits
      <4> QED
        BY <1>3, <3>4, <4>4 DEF SlotFits
    <3> QED
      BY <3>3, <3>4
  <2>10. Suffices(f, id, next)
    BY <2>9 DEF Suffices
  <2>11. Equity(f) = Plan(id, job, next)
    BY <1>8 DEF Equity, slot, ids, from, to, id, job, next
  <2> QED
    BY <2>8, <2>10, <2>11, PlanPromises
<1> QED
  BY <1>6, <1>7, <1>8

LEMMA EarlierFit ==
  ASSUME DaysInv, stage = "earlier", NEW f, f = "daily", f \in Families
  PROVE  Promises(f, Earlier(f))
<1> USE DEF Here
<1> DEFINE root == IF backfill = Unset THEN [user |-> TRUE] ELSE jobs[backfill[f]]
           base == IF earlier = Unset THEN {} ELSE Catalogues[earlier.cat]
           new == (Catalogues[master] \ base) \cap Cash
           ids == IF earlier = Unset THEN {} ELSE earlier.ids
           before == IF earlier = Unset THEN 0 ELSE earlier.cat
           id == <<"earlier", f, before, master>>
           job == Job("earlier", f, 0, root.from, new)
           next == [cat |-> master, ids |-> ids \cup {id}]
           Found(js, hand, i) ==
             \E j \in DOMAIN js :
               /\ js[j].role = "earlier" /\ js[j].family = "daily" /\ i \in js[j].scope
               /\ js[j].from = 0 /\ js[j].to = js[backfill["daily"]].from /\ Asked(js, j, hand)
<1>1. today \in Int /\ master \in Int /\ master >= 1
  BY Typical
<1>2. EarlierFits(Here, jobs, earlier, {})
  BY DEF DaysInv, ProgressFits
<1>3. /\ before \in Int
      /\ earlier # Unset => before = earlier.cat /\ before # 0 /\ \A i \in Cash \cap base : Found(jobs, {}, i)
      /\ earlier = Unset => before = 0
  BY <1>2 DEF EarlierFits
<1>4. before = 0 => base = {}
  BY <1>3
<1>5. before # 0 => base = Catalogues[before]
  BY <1>3
<1> HIDE DEF base, before
<1>6. CASE root.user \/ (earlier # Unset /\ earlier.cat = master) \/ \E j \in ids : jobs[j].user
  <2>1. SlotFits(Here, jobs, stage, f, earlier, {})
    BY <1>2 DEF SlotFits
  <2>2. Promises(f, Keep(earlier))
    BY <2>1, KeepPromises
  <2> QED
    BY <1>6, <2>2 DEF Earlier
<1>7. CASE ~(root.user \/ (earlier # Unset /\ earlier.cat = master) \/ \E j \in ids : jobs[j].user)
  <2>1. backfill # Unset /\ root = jobs[backfill[f]]
    BY <1>7
  <2>2. /\ backfill["daily"] \in DOMAIN jobs /\ JobFits(Here, today, jobs, root)
    BY <2>1, Typical DEF Rooted, RootFits
  <2>3. root.from \in Int /\ root.from <= today
    <3>1. RootFits(jobs, f, backfill[f])
      BY <2>1 DEF DaysInv, DocumentsFit
    <3>2. root.from <= Early /\ root.from \in Int
      BY <2>1, <2>2, <3>1 DEF RootFits, JobFits
    <3>3. Target \in Int /\ Target <= today /\ Early + Lead < Target
      BY SessionsAreRecent DEF DaysInv
    <3> QED
      BY <1>1, <3>2, <3>3, DatesAreNumbers
  <2> HIDE DEF root
  <2>4. CASE new = {}
    <3> DEFINE kept == [cat |-> master, ids |-> ids]
    <3>1. \A i \in Cash \cap Catalogues[master] : Found(jobs, {}, i)
      BY <1>3, <1>4, <2>4
    <3>2. EarlierFits(Here, jobs, kept, {})
      BY <1>1, <2>1, <3>1 DEF EarlierFits
    <3>3. SlotFits(Here, jobs, stage, f, kept, {})
      BY <3>2 DEF SlotFits
    <3>4. Promises(f, Keep(kept))
      BY <3>3, KeepPromises
    <3>5. Earlier(f) = Keep(kept)
      BY <1>7, <2>4 DEF Earlier, root, base, kept
    <3> QED
      BY <3>4, <3>5
  <2>5. CASE new # {}
    <3>1. /\ id \in RootIds("earlier") /\ id[2] = f /\ id[3] = before /\ id[4] = master
          /\ \A other : other # "earlier" => id \notin RootIds(other) /\ id \notin WindowIds(other)
      BY <1>1, <1>3, RootIdsApart
    <3>2. /\ job.role = "earlier" /\ job.family = f /\ job.from = 0 /\ job.to = root.from /\ job.cat = master
          /\ job.scope = new
      BY DEF Job
    <3>3. next.cat = master
      OBVIOUS
    <3> HIDE DEF id, job, next
    <3>4. JobFits(Here, today, jobs, job)
      BY <1>1, <2>3, <3>2, NamesAssumption DEF JobFits
    <3>5. ASSUME NEW after, Adds(jobs, after, id, job) PROVE IdFits(Here, after, id)
      <4>1. after[id] = job /\ after[backfill["daily"]].from = root.from
        <5>1. backfill["daily"] # id => after[backfill["daily"]] = jobs[backfill["daily"]]
          BY <2>2, <3>5 DEF Adds
        <5>2. after[id] = job
          BY <3>5 DEF Adds
        <5>3. backfill["daily"] # id
          <6>1. id \in DOMAIN jobs => jobs[id].role = "earlier"
            BY <3>1, Typical DEF IdFits
          <6>2. jobs[backfill["daily"]].role \in {"backfill", "manual"}
            BY <2>1, Typical DEF Rooted, RootFits
          <6> QED
            BY <2>2, <6>1, <6>2
        <5> QED
          BY <2>1, <5>1, <5>2, <5>3 DEF root
      <4>2. job.scope = (Catalogues[id[4]] \ (IF id[3] = 0 THEN {} ELSE Catalogues[id[3]])) \cap Cash
        BY <1>4, <1>5, <3>1, <3>2
      <4> QED
        BY <2>1, <3>1, <3>2, <4>1, <4>2 DEF IdFits
    <3>6. NewJob(id, job)
      BY <3>2, <3>4, <3>5 DEF NewJob
    <3>7. ASSUME NEW after, Carries(jobs, after), id \in DOMAIN after, IdFits(Here, after, id)
          PROVE  SlotFits(Here, after, stage, f, next, {id})
      <4>1. /\ after[id].role = "earlier" /\ after[id].family = "daily" /\ after[id].from = 0
            /\ after[id].to = after[backfill["daily"]].from /\ after[id].scope = new
        BY <1>4, <1>5, <3>1, <3>7 DEF IdFits
      <4>2. ASSUME NEW i \in Cash \cap Catalogues[master] PROVE Found(after, {id}, i)
        <5>1. CASE i \in new
          BY <3>7, <4>1, <5>1 DEF Asked
        <5>2. CASE i \notin new
          <6>1. i \in Cash \cap base
            BY <5>2
          <6>2. Found(jobs, {}, i)
            BY <1>3, <1>4, <6>1
          <6>3. PICK j \in DOMAIN jobs :
                  /\ jobs[j].role = "earlier" /\ jobs[j].family = "daily" /\ i \in jobs[j].scope
                  /\ jobs[j].from = 0 /\ jobs[j].to = jobs[backfill["daily"]].from /\ Asked(jobs, j, {})
            BY <6>2
          <6>4. j \in DOMAIN after /\ Asked(after, j, {id})
            BY <3>7, <6>3 DEF Carries, Settles, Asked
          <6>5. after[backfill["daily"]].from = jobs[backfill["daily"]].from
            BY <2>2, <3>7 DEF Carries
          <6> QED
            BY <3>7, <6>3, <6>4, <6>5 DEF Carries
        <5> QED
          BY <5>1, <5>2
      <4>3. next.cat \in 1 .. Here.master /\ Here.backfill # Unset
        BY <1>1, <2>1, <3>3
      <4>4. \A i \in Cash \cap Catalogues[next.cat] : Found(after, {id}, i)
        BY <3>3, <4>2
      <4>5. EarlierFits(Here, after, next, {id})
        BY <4>3, <4>4 DEF EarlierFits
      <4> QED
        BY <4>5 DEF SlotFits
    <3>8. Suffices(f, id, next)
      BY <3>7 DEF Suffices
    <3>9. Earlier(f) = Plan(id, job, next)
      BY <1>7, <2>5 DEF Earlier, root, base, before, id, job, next
    <3> QED
      BY <3>6, <3>8, <3>9, PlanPromises
  <2> QED
    BY <2>4, <2>5
<1> QED
  BY <1>6, <1>7

LEMMA SweepFit ==
  ASSUME DaysInv, stage = "sweep", NEW q
  PROVE  Promises(q, Sweep(q))
<1> DEFINE id == <<"sweep", q, today>>
           job == Job("sweep", q, today, today + 1, Catalogues[master])
<1>1. today \in Int /\ master \in Int /\ master >= 1
  BY Typical
<1>2. \A js, slot, hand : SlotFits(Here, js, stage, q, slot, hand)
  BY DEF SlotFits
<1>3. ASSUME NEW other PROVE id \notin RootIds(other) /\ id \notin WindowIds(other)
  <2>1. Len(id) = 3
    OBVIOUS
  <2>2. \A j \in RootIds(other) : Len(j) = 4
    BY DEF RootIds
  <2>3. \A j \in WindowIds(other) : Len(j) = 5
    BY DEF WindowIds
  <2> HIDE DEF id
  <2> QED
    BY <2>1, <2>2, <2>3
<1>4. job.role = "sweep" /\ job.from = today /\ job.to = today + 1 /\ job.cat = master
  BY DEF Job
<1> HIDE DEF id, job
<1>5. JobFits(Here, today, jobs, job)
  BY <1>1, <1>4, NamesAssumption DEF JobFits, Here
<1>6. NewJob(id, job)
  BY <1>3, <1>4, <1>5 DEF NewJob, IdFits, Here
<1>7. \A slot : Promises(q, Keep(slot)) /\ Promises(q, Plan(id, job, slot))
  BY <1>2, <1>6, KeepPromises, PlanPromises DEF Suffices
<1> QED
  BY <1>7 DEF Sweep, id, job

LEMMA DecisionFits ==
  ASSUME DaysInv, SchedulesInv, NEW x \in left
  PROVE  Promises(x, Decision(x)) /\ stage # "catalogue"
<1>1. <<stage, x>> \in Attendable
  BY DEF SchedulesInv, ItemsSound, ItemsOf
<1>2. CASE stage = "backfill"
  <2>1. x \in Families
    BY <1>1, <1>2 DEF Attendable
  <2> QED
    BY <1>2, <2>1, BootstrapFits, AdditionsFit DEF Decision
<1>3. CASE stage = "daily"
  <2>1. x \in Roles
    BY <1>1, <1>3 DEF Attendable
  <2> QED
    BY <1>3, <2>1, DailyFit DEF Decision
<1>4. CASE stage = "equity"
  <2>1. x \in Families
    BY <1>1, <1>4 DEF Attendable
  <2> QED
    BY <1>4, <2>1, EquityFit DEF Decision
<1>5. CASE stage = "earlier"
  <2>1. x = "daily" /\ x \in Families
    BY <1>1, <1>5 DEF Attendable
  <2> QED
    BY <1>5, <2>1, EarlierFit DEF Decision
<1>6. CASE stage = "sweep"
  BY <1>6, SweepFit DEF Decision
<1>7. stage \in {"backfill", "daily", "equity", "earlier", "sweep"}
  BY <1>1 DEF Attendable
<1> QED
  BY <1>2, <1>3, <1>4, <1>5, <1>6, <1>7

\* A stage that follows has items, and comes later.
LEMMA StageOrder ==
  /\ DOMAIN Stages = 1 .. 6 /\ Len(Stages) = 6
  /\ Stages[1] = "catalogue" /\ Stages[2] = "backfill" /\ Stages[3] = "daily"
  /\ Stages[4] = "equity" /\ Stages[5] = "earlier" /\ Stages[6] = "sweep"
BY DEF Stages

LEMMA NextStages ==
  ASSUME NEW s \in {Stages[n] : n \in 1 .. 6}
  PROVE  /\ NextStage(s) \in {Stages[n] : n \in 1 .. 6}
         /\ NextStage(s) # "catalogue" => ItemsOf(NextStage(s)) # {}
         /\ NextStage(s) = "daily" => s # "daily" /\ s # "equity"
         /\ NextStage(s) = "equity" => s # "equity"
<1> DEFINE n == CHOOSE i \in DOMAIN Stages : Stages[i] = s
           later == {i \in n + 1 .. Len(Stages) : ItemsOf(Stages[i]) # {}}
           next == CHOOSE i \in later : \A j \in later : i <= j
<1>1. n \in 1 .. 6 /\ Stages[n] = s
  BY StageOrder
<1> HIDE DEF n
<1>2. CASE later = {}
  <2>1. NextStage(s) = "catalogue"
    BY <1>2 DEF NextStage, n
  <2> QED
    BY <2>1, StageOrder
<1>3. CASE later # {}
  <2>1. later \subseteq 2 .. 6
    BY <1>1, StageOrder
  <2> HIDE DEF later
  <2>2. \E i \in later : \A j \in later : i <= j
    <3> DEFINE least == IF 2 \in later THEN 2 ELSE IF 3 \in later THEN 3 ELSE IF 4 \in later THEN 4
                        ELSE IF 5 \in later THEN 5 ELSE 6
    <3>1. \A j \in later : j \in Int /\ (j = 2 \/ j = 3 \/ j = 4 \/ j = 5 \/ j = 6)
      BY <2>1
    <3>2. least \in later
      BY <1>3, <3>1
    <3>3. \A j \in later : least <= j
      BY <3>1
    <3> QED
      BY <3>2, <3>3
  <2>3. next \in later
    BY <2>2
  <2>4. NextStage(s) = Stages[next]
    BY <1>3 DEF NextStage, n, later
  <2> HIDE DEF next
  <2>5. next \in 2 .. 6 /\ n < next /\ ItemsOf(Stages[next]) # {}
    BY <1>1, <2>1, <2>3, StageOrder DEF later
  <2> QED
    BY <1>1, <2>4, <2>5, StageOrder
<1> QED
  BY <1>2, <1>3

\* A stage that begins has planned nothing and reads the documents.
LEMMA EnterFits ==
  ASSUME NEW s, Enter(s), s = "catalogue" \/ ItemsOf(s) # {}, DaysInv, SchedulesInv, attended' = attended,
         s = "daily" => history' = history, s = "equity" => equity' = equity,
         DocumentsFit(Here, jobs)'
  PROVE  DraftFits(Here, jobs)' /\ PlanFits(Here, jobs)'
<1>1. stage' = s /\ left' = ItemsOf(s) /\ draft' = Read(s) /\ plan' = NoPlan
  BY DEF Enter
<1>2. PlanFits(Here, jobs)'
  BY <1>1 DEF PlanFits
<1>3. CASE s = "backfill"
  <2>1. left' = ItemsOf("backfill") /\ left' # {} /\ draft' = [f \in Families |-> Unset]
    BY <1>1, <1>3 DEF Read
  <2>2. \A x \in ItemsOf("backfill") : x \in Families
    BY DEF ItemsOf, SchedulesInv, ItemsSound, Attendable
  <2>3. Families \subseteq left'
    <3>1. PICK x \in Families : <<"backfill", x>> \in attended
      BY <2>1, <2>2 DEF ItemsOf
    <3>2. \A f \in Families : <<"backfill", f>> \in attended
      BY <3>1 DEF DaysInv, ClockFits
    <3> QED
      BY <2>1, <3>2 DEF ItemsOf
  <2> QED
    BY <1>1, <1>2, <1>3, <2>1, <2>3 DEF DraftFits
<1>4. CASE s = "daily"
  <2>1. draft' = history'
    BY <1>1, <1>4 DEF Read
  <2>2. ASSUME NEW r \in Roles PROVE SlotFits(Here, jobs, "daily", r, draft[r], {})'
    <3>1. DailyFits(jobs', r, since'[<<"daily", r>>], history'[r], {})
      BY DEF DocumentsFit, Here
    <3>2. history'[r] # Unset => DailyFirst(Here', r, history'[r]) = since'[<<"daily", r>>]
      BY DEF DailyFirst, Here
    <3>3. DailyFits(jobs', r, DailyFirst(Here', r, history'[r]), history'[r], {})
      BY <3>1, <3>2 DEF DailyFits
    <3> QED
      BY <2>1, <3>3 DEF SlotFits
  <2> QED
    BY <1>1, <1>2, <1>4, <2>1, <2>2 DEF DraftFits, Here
<1>5. CASE s = "equity"
  <2>1. draft' = equity'
    BY <1>1, <1>5 DEF Read
  <2>2. ASSUME NEW f \in Families PROVE SlotFits(Here, jobs, "equity", f, draft[f], {})'
    <3>1. EquityFits(jobs', f, since'[<<"equity", f>>], equity'[f], {})
      BY DEF DocumentsFit, Here
    <3>2. equity'[f] # Unset => EquityFirst(Here', jobs', f, equity'[f]) = since'[<<"equity", f>>]
      BY DEF EquityFirst, Here
    <3>3. EquityFits(jobs', f, EquityFirst(Here', jobs', f, equity'[f]), equity'[f], {})
      BY <3>1, <3>2 DEF EquityFits
    <3> QED
      BY <2>1, <3>3 DEF SlotFits, Here
  <2> QED
    BY <1>1, <1>2, <1>5, <2>1, <2>2 DEF DraftFits, Here
<1>6. CASE s \notin {"backfill", "daily", "equity"}
  BY <1>1, <1>2, <1>6 DEF DraftFits
<1> QED
  BY <1>3, <1>4, <1>5, <1>6, <1>2

\* A job at hand that was started is as good as the others.
LEMMA SlotAlone ==
  ASSUME NEW w, NEW js, NEW s, NEW x, NEW slot, NEW j, SlotFits(w, js, s, x, slot, {j}), Settled(js, j)
  PROVE  SlotFits(w, js, s, x, slot, {})
<1>1. \A k : Asked(js, k, {j}) => Asked(js, k, {})
  BY DEF Asked
<1>2. \A f, m : AddedSince(w, js, f, m, {j}) => AddedSince(w, js, f, m, {})
  BY <1>1 DEF AddedSince
<1>3. \A role, family, first, end : Meet(js, role, family, first, end, {j}) => Meet(js, role, family, first, end, {})
  BY <1>1 DEF Meet
<1>4. EarlierFits(w, js, slot, {j}) => EarlierFits(w, js, slot, {})
  BY <1>1 DEF EarlierFits
<1>5. \A r, first : DailyFits(js, r, first, slot, {j}) => DailyFits(js, r, first, slot, {})
  BY <1>3 DEF DailyFits
<1>6. \A f, first : EquityFits(js, f, first, slot, {j}) => EquityFits(js, f, first, slot, {})
  BY <1>3 DEF EquityFits
<1> QED
  BY <1>2, <1>4, <1>5, <1>6 DEF SlotFits

\* The jobs change and ask for what they did: all that was promised holds.
LEMMA FitsCarry ==
  ASSUME DaysInv, SchedulesInv, NEW after, Carries(jobs, after)
  PROVE  /\ DocumentsFit(Here, after) /\ ProgressFits(Here, after, lastCompared, earlier) /\ DraftFits(Here, after)
         /\ plan # NoPlan => SlotFits(Here, after, stage, item, plan.slot, AtHand(plan))
<1>1. Rooted(Here, jobs)
  BY Typical
<1>2. DocumentsFit(Here, after)
  BY RootCarries, WindowsCarry DEF DaysInv, DocumentsFit
<1>3. ProgressFits(Here, after, lastCompared, earlier)
  <2>1. EarlierFits(Here, after, earlier, {})
    BY <1>1, EarlierCarries DEF DaysInv, ProgressFits
  <2>2. \A f \in Families : lastCompared[f] # 0 => AddedSince(Here, after, f, lastCompared[f], {})
    BY <1>1, AddedCarries DEF DaysInv, ProgressFits
  <2> QED
    BY <2>1, <2>2 DEF DaysInv, ProgressFits
<1>4. DraftFits(Here, after)
  <2>1. stage = "backfill" /\ Here.backfill = Unset =>
          /\ DOMAIN draft = Families
          /\ \A f \in Families : f \in left \/ (plan # NoPlan /\ item = f) \/ RootFits(after, f, draft[f])
    BY RootCarries DEF DaysInv, DraftFits
  <2>2. ASSUME stage = "daily", NEW r \in Roles
        PROVE  (r \in left => draft[r] = Here.history[r]) /\ SlotFits(Here, after, "daily", r, draft[r], {})
    <3>1. SlotFits(Here, jobs, "daily", r, draft[r], {}) /\ (r \in left => draft[r] = Here.history[r])
      BY <2>2 DEF DaysInv, DraftFits
    <3> QED
      BY <1>1, <3>1, SlotCarries
  <2>3. ASSUME stage = "equity", NEW f \in Families
        PROVE  (f \in left => draft[f] = Here.equity[f]) /\ SlotFits(Here, after, "equity", f, draft[f], {})
    <3>1. SlotFits(Here, jobs, "equity", f, draft[f], {}) /\ (f \in left => draft[f] = Here.equity[f])
      BY <2>3 DEF DaysInv, DraftFits
    <3> QED
      BY <1>1, <3>1, SlotCarries
  <2> QED
    BY <2>1, <2>2, <2>3 DEF DraftFits
<1>5. ASSUME plan # NoPlan PROVE SlotFits(Here, after, stage, item, plan.slot, AtHand(plan))
  <2>1. <<stage, item>> \in Attendable
    BY <1>5 DEF SchedulesInv, PlanSound, ItemsSound
  <2>2. stage = "backfill" => item \in Families
    BY <2>1 DEF Attendable
  <2>3. SlotFits(Here, jobs, stage, item, plan.slot, AtHand(plan))
    BY <1>5 DEF DaysInv, PlanFits
  <2> QED
    BY <1>1, <2>2, <2>3, SlotCarries
<1> QED
  BY <1>2, <1>3, <1>4, <1>5

LEMMA HereStays ==
  ASSUME UNCHANGED <<master, backfill, history, equity, since>>
  PROVE  Here' = Here
BY DEF Here

LEMMA JobsStep ==
  ASSUME DaysInv, SchedulesInv, Carries(jobs, jobs'), JobsFit(Here, today, jobs'),
         UNCHANGED <<today, master, docs, since, stage, left, item, draft, attended>>, plan # NoPlan => plan' # NoPlan,
         PlanFits(Here, jobs)'
  PROVE  DaysInv'
<1>1. Here' = Here
  BY HereStays DEF docs
<1>2. /\ DocumentsFit(Here, jobs') /\ ProgressFits(Here, jobs', lastCompared, earlier) /\ DraftFits(Here, jobs')
  BY FitsCarry
<1>3. DocumentsFit(Here, jobs)' /\ ProgressFits(Here, jobs, lastCompared, earlier)' /\ JobsFit(Here, today, jobs)'
  BY <1>1, <1>2 DEF docs
<1>4. DraftFits(Here, jobs)'
  BY <1>1, <1>2 DEF DraftFits
<1>5. ClockFits'
  BY DEF DaysInv, ClockFits
<1> QED
  BY <1>3, <1>4, <1>5 DEF DaysInv

\* One job changes its state, and the plan at hand stays.
LEMMA OneJobStep ==
  ASSUME DaysInv, SchedulesInv, NEW j \in DOMAIN jobs, Settles(jobs, jobs'), DOMAIN jobs' = DOMAIN jobs,
         \A k \in DOMAIN jobs : k # j => jobs'[k] = jobs[k],
         jobs'[j].role = jobs[j].role, jobs'[j].family = jobs[j].family, jobs'[j].from = jobs[j].from,
         jobs'[j].to = jobs[j].to, jobs'[j].scope = jobs[j].scope, jobs'[j].cat = jobs[j].cat,
         jobs[j].role \in {"backfill", "manual"} /\ ~jobs[j].user => ~jobs'[j].user
  PROVE  Carries(jobs, jobs') /\ JobsFit(Here, today, jobs')
<1>1. Carries(jobs, jobs')
  BY DEF Carries
<1>2. \A k \in DOMAIN jobs : jobs[k].role \in {"backfill", "manual"} => ~jobs[k].user
  BY Typical DEF JobFits
<1>3. \A k \in DOMAIN jobs : jobs[k].role \in {"backfill", "manual"} => ~jobs'[k].user
  BY <1>2
<1> QED
  BY <1>1, <1>3, Typical, JobsStayFit DEF DaysInv

LEMMA DaysBegin == Init => DaysInv
<1> SUFFICES ASSUME Init PROVE DaysInv
  OBVIOUS
<1>1. PICK start \in Starts : /\ jobs = start.jobs /\ attended = start.attended
                              /\ history = [r \in Roles |-> IF r = "core" THEN start.core ELSE Unset]
  BY DEF Init
<1>2. /\ today = FirstDay /\ master = 1 /\ backfill = Unset /\ lastCompared = [f \in Families |-> 0]
      /\ equity = [f \in Families |-> Unset] /\ earlier = Unset /\ stage = "catalogue" /\ plan = NoPlan
      /\ since = [t \in {<<"daily", r>> : r \in Roles} \cup {<<"equity", f>> : f \in Families} |->
                    IF t = <<"daily", "core">> /\ history["core"] # Unset THEN history["core"].start ELSE Unset]
  BY DEF Init
<1>3. ClockFits
  <2>1. today \in FirstDay .. LastDay /\ master \in 1 .. Len(Catalogues)
    BY <1>2, DatesAreNumbers, CataloguesAssumption
  <2>2. stage \in {Stages[n] : n \in 1 .. 6}
    BY <1>2, StageOrder
  <2>3. \A f, g \in Families : <<"backfill", f>> \in attended => <<"backfill", g>> \in attended
    BY <1>1, AttendedAssumption
  <2> QED
    BY <1>2, <2>1, <2>2, <2>3 DEF ClockFits
<1>4. JobsFit(Here, today, jobs)
  <2>1. ASSUME NEW j \in DOMAIN jobs PROVE JobFits(Here, today, jobs, jobs[j]) /\ IdFits(Here, jobs, j)
    <3>1. JobBefore(j, jobs[j])
      BY <1>1, StartsAssumption
    <3>2. JobFits(Here, today, jobs, jobs[j])
      BY <1>2, <3>1, NamesAssumption DEF JobBefore, JobFits, Here
    <3>3. IdFits(Here, jobs, j)
      BY <3>1 DEF JobBefore, IdFits, RootIds, WindowIds
    <3> QED
      BY <3>2, <3>3
  <2>2. \A j \in DOMAIN jobs : jobs[j].role \notin {"backfill", "added"}
    BY <1>1, StartsAssumption DEF JobBefore
  <2> QED
    BY <2>1, <2>2 DEF JobsFit, NewerReachesFurther
<1>5. DocumentsFit(Here, jobs)
  <2>1. ASSUME NEW r \in Roles PROVE DailyFits(jobs, r, since[<<"daily", r>>], history[r], {})
    <3>1. CASE history[r] = Unset
      BY <3>1 DEF DailyFits
    <3>2. CASE history[r] # Unset
      <4> DEFINE slot == start.core
                 job == jobs[slot.job]
      <4>1. r = "core" /\ history[r] = slot /\ slot # Unset
        BY <1>1, <3>2
      <4>2. slot.job \in DOMAIN jobs /\ CoreBefore(slot, job) /\ JobBefore(slot.job, job)
        BY <1>1, <4>1, StartsAssumption
      <4>3. since[<<"daily", r>>] = slot.start
        BY <1>2, <4>1
      <4>4. Serves(job, r, FamilyOf(r)) /\ Asked(jobs, slot.job, {}) /\ r \notin Families
        BY <4>1, <4>2, NamesAssumption DEF Serves, FamilyOf, Asked, Settled, CoreBefore, JobBefore
      <4> HIDE DEF slot
      <4>5. \A d \in slot.start .. slot.end - 1 : d \in job.from .. job.to - 1
        BY <4>2 DEF CoreBefore, JobBefore
      <4>6. Meet(jobs, r, FamilyOf(r), slot.start, slot.end, {})
        BY <4>2, <4>4, <4>5 DEF Meet
      <4> QED
        BY <4>1, <4>2, <4>3, <4>4, <4>6 DEF DailyFits, CoreBefore
    <3> QED
      BY <3>1, <3>2
  <2>2. \A f \in Families : EquityFits(jobs, f, since[<<"equity", f>>], equity[f], {})
    BY <1>2 DEF EquityFits
  <2> QED
    BY <1>2, <2>1, <2>2 DEF DocumentsFit, Here
<1>6. ProgressFits(Here, jobs, lastCompared, earlier)
  BY <1>2 DEF ProgressFits, EarlierFits, Here
<1>7. DraftFits(Here, jobs) /\ PlanFits(Here, jobs)
  BY <1>2 DEF DraftFits, PlanFits
<1> QED
  BY <1>3, <1>4, <1>5, <1>6, <1>7 DEF DaysInv

LEMMA ResumedAsks ==
  ASSUME NEW j \in DOMAIN jobs, jobs' = Resumed(j)
  PROVE  /\ \A k \in DOMAIN jobs : k # j => jobs'[k] = jobs[k]
         /\ jobs'[j].role = jobs[j].role /\ jobs'[j].family = jobs[j].family /\ jobs'[j].from = jobs[j].from
         /\ jobs'[j].to = jobs[j].to /\ jobs'[j].scope = jobs[j].scope /\ jobs'[j].cat = jobs[j].cat
         /\ ~jobs[j].user => ~jobs'[j].user
<1> DEFINE job == [jobs[j] EXCEPT !.state = "running", !.user = FALSE, !.started = TRUE]
<1>1. jobs' = [jobs EXCEPT ![j] = IF jobs[j].state = "completed" THEN jobs[j] ELSE job]
  BY DEF Resumed
<1>2. /\ job.role = jobs[j].role /\ job.family = jobs[j].family /\ job.from = jobs[j].from
      /\ job.to = jobs[j].to /\ job.scope = jobs[j].scope /\ job.cat = jobs[j].cat
  OBVIOUS
<1>3. ~jobs[j].user => ~job.user
  OBVIOUS
<1> HIDE DEF job
<1> QED
  BY <1>1, <1>2, <1>3

\* A new stage, or the loop from the start, with the documents as they are.
LEMMA EnterStep ==
  ASSUME DaysInv, SchedulesInv, NEW s, Enter(s), s \in {Stages[n] : n \in 1 .. 6}, s = "catalogue" \/ ItemsOf(s) # {},
         UNCHANGED <<today, jobs, docs, since, attended>>, master' \in master .. Len(Catalogues)
  PROVE  DaysInv'
<1>1. today \in Int /\ master \in Int /\ Len(Catalogues) \in Int
  BY Typical, CataloguesAssumption
<1>2. Onward(Here, Here')
  BY <1>1 DEF Onward, Here, docs
<1>3. ClockFits'
  BY <1>1, CataloguesAssumption DEF DaysInv, ClockFits, Enter
<1>4. JobsFit(Here, today, jobs)'
  <2>1. JobsFit(Here, today, jobs) /\ today <= today
    BY <1>1 DEF DaysInv
  <2>2. JobsFit(Here', today, jobs)
    BY <1>1, <1>2, <2>1, JobsFitLater
  <2> QED
    BY <2>2
<1>5. DocumentsFit(Here, jobs)'
  BY DEF DaysInv, DocumentsFit, Here, docs
<1>6. ProgressFits(Here, jobs, lastCompared, earlier)'
  BY <1>2, ProgressLater DEF DaysInv, docs
<1>7. DraftFits(Here, jobs)' /\ PlanFits(Here, jobs)'
  BY <1>5, EnterFits DEF docs
<1> QED
  BY <1>3, <1>4, <1>5, <1>6, <1>7 DEF DaysInv

LEMMA DecisionStep ==
  ASSUME DaysInv, SchedulesInv, NEW x \in left, DecideItem(x)
  PROVE  DaysInv'
<1> DEFINE p == Decision(x)
<1>1. /\ plan = NoPlan /\ plan' = p /\ item' = x /\ left' = left \ {x}
      /\ jobs' = IF p.step = "record" \/ p.id \in DOMAIN jobs THEN jobs ELSE Put(p.id, p.job)
      /\ UNCHANGED <<today, master, docs, stage, draft, since, attended>>
  BY DEF DecideItem
<1>2. Promises(x, p)
  BY DecisionFits
<1>3. Here' = Here
  BY <1>1, HereStays DEF docs
<1> HIDE DEF p
<1>4. p # NoPlan /\ p.step \in {"pin", "start", "record"} /\ (p.step = "pin" => ~p.user) /\ p.step # "start"
  BY <1>2 DEF Promises, NoPlan
<1>5. /\ Carries(jobs, jobs') /\ JobsFit(Here, today, jobs')
      /\ SlotFits(Here, jobs', stage, x, p.slot, AtHand(p))
  <2>0. Carries(jobs, jobs)
    BY DEF Carries, Settles
  <2>1. CASE p.step = "record"
    BY <1>1, <1>2, <2>0, <2>1 DEF Promises, AtHand, DaysInv
  <2>2. CASE p.step = "pin" /\ p.id \in DOMAIN jobs
    <3>1. jobs' = jobs /\ Suffices(x, p.id, p.slot) /\ AtHand(p) = {p.id}
      BY <1>1, <1>2, <2>2 DEF Promises, AtHand
    <3>2. IdFits(Here, jobs, p.id) /\ JobFits(Here, today, jobs, jobs[p.id])
      BY <2>2, Typical
    <3> QED
      BY <2>0, <2>2, <3>1, <3>2 DEF Suffices, DaysInv
  <2>3. CASE p.step = "pin" /\ p.id \notin DOMAIN jobs
    <3>1. /\ Adds(jobs, jobs', p.id, p.job) /\ NewJob(p.id, p.job) /\ Suffices(x, p.id, p.slot) /\ AtHand(p) = {p.id}
      BY <1>1, <1>2, <2>3 DEF Promises, AtHand, Put, Adds
    <3>2. IdFits(Here, jobs', p.id) /\ JobFits(Here, today, jobs, p.job)
      BY <3>1 DEF NewJob
    <3>3. Here.master \in Int /\ today \in Int /\ Rooted(Here, jobs)
      BY Typical DEF Here
    <3>4. p.job.cat = Here.master /\ (p.job.role \in {"backfill", "added"} => p.job.to = today)
      BY <3>1 DEF NewJob, Here
    <3>5. JobsFit(Here, today, jobs') /\ Carries(jobs, jobs')
      BY <2>3, <3>1, <3>2, <3>3, <3>4, AddedJobFits DEF DaysInv
    <3>6. p.id \in DOMAIN jobs' /\ JobFits(Here, today, jobs', jobs'[p.id])
      BY <3>1, <3>5 DEF Adds, JobsFit
    <3> QED
      BY <3>1, <3>2, <3>5, <3>6 DEF Suffices
  <2> QED
    BY <1>2, <2>1, <2>2, <2>3 DEF Promises
<1>6. DocumentsFit(Here, jobs') /\ ProgressFits(Here, jobs', lastCompared, earlier) /\ DraftFits(Here, jobs')
  BY <1>5, FitsCarry
<1>7. DocumentsFit(Here, jobs)' /\ ProgressFits(Here, jobs, lastCompared, earlier)' /\ JobsFit(Here, today, jobs)'
  BY <1>1, <1>3, <1>5, <1>6 DEF docs
<1>8. DraftFits(Here, jobs)'
  BY <1>1, <1>3, <1>4, <1>6 DEF DraftFits
<1>9. PlanFits(Here, jobs)'
  BY <1>1, <1>3, <1>4, <1>5 DEF PlanFits
<1>10. ClockFits'
  BY <1>1 DEF DaysInv, ClockFits
<1> QED
  BY <1>7, <1>8, <1>9, <1>10 DEF DaysInv

LEMMA PinStep ==
  ASSUME DaysInv, SchedulesInv, Pin
  PROVE  DaysInv'
<1> DEFINE id == plan.id
           kept == plan.user \/ KeptPaused(id)
           q == [plan EXCEPT !.step = "start", !.user = kept]
<1>1. /\ plan # NoPlan /\ plan.step = "pin" /\ jobs' = [jobs EXCEPT ![id].pinned = TRUE] /\ plan' = q
      /\ UNCHANGED <<today, master, docs, since, stage, left, item, draft, attended>>
  BY DEF Pin, At, NoPlan
<1>2. PlanIn(jobs, stage, plan) /\ id \in DOMAIN jobs
  BY <1>1 DEF SchedulesInv, PlanSound, PlanIn
<1>3. JobSound(jobs[id])
  BY <1>2 DEF SchedulesInv, JobsSound
<1>4. Carries(jobs, jobs') /\ JobsFit(Here, today, jobs')
  <2> DEFINE job == [jobs[id] EXCEPT !.pinned = TRUE]
  <2>1. jobs' = [jobs EXCEPT ![id] = job]
    BY <1>1
  <2>2. /\ job.role = jobs[id].role /\ job.family = jobs[id].family /\ job.from = jobs[id].from
        /\ job.to = jobs[id].to /\ job.scope = jobs[id].scope /\ job.cat = jobs[id].cat
        /\ job.user = jobs[id].user /\ job.started = jobs[id].started
    OBVIOUS
  <2> HIDE DEF job
  <2>3. /\ Settles(jobs, jobs') /\ DOMAIN jobs' = DOMAIN jobs /\ jobs'[id] = job
        /\ \A k \in DOMAIN jobs : k # id => jobs'[k] = jobs[k]
    BY <1>2, <2>1, <2>2 DEF Settles, Settled
  <2> QED
    BY <1>2, <2>2, <2>3, OneJobStep
<1>5. ~plan.user /\ item \notin left
  BY <1>1 DEF DaysInv, PlanFits
<1>6. kept => Settled(jobs, id)
  BY <1>2, <1>3, <1>5 DEF KeptPaused, JobSound, Settled
<1> HIDE DEF kept
<1>7. q.id = id /\ q.slot = plan.slot /\ q.step = "start" /\ q.user = kept
  <2>1. plan = [id |-> plan.id, job |-> plan.job, slot |-> plan.slot, step |-> plan.step, user |-> plan.user]
    BY <1>2 DEF PlanIn
  <2>2. q = [id |-> plan.id, job |-> plan.job, slot |-> plan.slot, step |-> "start", user |-> kept]
    BY <2>1, PinnedPlan
  <2> QED
    BY <2>2
<1> HIDE DEF q
<1>8. q # NoPlan
  BY <1>7 DEF NoPlan
<1>9. SlotFits(Here, jobs', stage, item, q.slot, AtHand(q))
  BY <1>1, <1>4, <1>7, FitsCarry DEF AtHand
<1>10. Settled(jobs, id) => Settled(jobs', id)
  BY <1>4 DEF Carries, Settles
<1>11. PlanFits(Here, jobs)'
  BY <1>1, <1>5, <1>6, <1>7, <1>9, <1>10, HereStays DEF PlanFits, docs
<1> QED
  BY <1>1, <1>4, <1>8, <1>11, JobsStep

LEMMA StartStep ==
  ASSUME DaysInv, SchedulesInv, StartJob
  PROVE  DaysInv'
<1> DEFINE id == plan.id
           q == [plan EXCEPT !.step = "record"]
<1>1. /\ plan # NoPlan /\ plan.step = "start" /\ plan' = q
      /\ jobs' = IF plan.user THEN jobs ELSE Resumed(id)
      /\ UNCHANGED <<today, master, docs, since, stage, left, item, draft, attended>>
  BY DEF StartJob, At, Goto, NoPlan
<1>2. PlanIn(jobs, stage, plan) /\ id \in DOMAIN jobs
  BY <1>1 DEF SchedulesInv, PlanSound, PlanIn
<1>3. q.id = id /\ q.slot = plan.slot /\ q.step = "record"
  <2>1. plan = [id |-> plan.id, job |-> plan.job, slot |-> plan.slot, step |-> plan.step, user |-> plan.user]
    BY <1>2 DEF PlanIn
  <2>2. DOMAIN plan = {"id", "job", "slot", "step", "user"}
    BY <2>1
  <2> QED
    BY <2>2
<1> HIDE DEF q
<1>4. /\ Carries(jobs, jobs') /\ JobsFit(Here, today, jobs') /\ Settled(jobs', id)
  <2>1. CASE plan.user
    <3>1. jobs' = jobs /\ Settled(jobs, id)
      BY <1>1, <2>1 DEF DaysInv, PlanFits
    <3> QED
      BY <3>1 DEF DaysInv, Carries, Settles
  <2>2. CASE ~plan.user
    <3>1. jobs' = Resumed(id)
      BY <1>1, <2>2
    <3>2. Settles(jobs, jobs') /\ DOMAIN jobs' = DOMAIN jobs /\ Settled(jobs', id)
      BY <1>2, <3>1, ResumeIsSound DEF SchedulesInv
    <3> QED
      BY <1>2, <3>1, <3>2, ResumedAsks, OneJobStep
  <2> QED
    BY <2>1, <2>2
<1>5. SlotFits(Here, jobs', stage, item, plan.slot, {id}) /\ item \notin left
  <2>1. AtHand(plan) = {id}
    BY <1>1 DEF AtHand
  <2> QED
    BY <1>1, <1>4, <2>1, FitsCarry DEF DaysInv, PlanFits
<1>6. SlotFits(Here, jobs', stage, item, plan.slot, {})
  BY <1>4, <1>5, SlotAlone
<1>7. PlanFits(Here, jobs)'
  BY <1>1, <1>3, <1>5, <1>6, HereStays DEF PlanFits, AtHand, docs
<1>8. q # NoPlan
  BY <1>3 DEF NoPlan
<1> QED
  BY <1>1, <1>4, <1>7, <1>8, JobsStep

LEMMA RecordStep ==
  ASSUME DaysInv, SchedulesInv, Record
  PROVE  DaysInv'
<1>1. /\ plan # NoPlan /\ plan.step = "record" /\ plan' = NoPlan
      /\ UNCHANGED <<today, master, jobs, stage, left, since, attended>>
  BY DEF Record, At, NoPlan
<1>2. SlotFits(Here, jobs, stage, item, plan.slot, {}) /\ item \notin left
  BY <1>1 DEF DaysInv, PlanFits, AtHand
<1>3. <<stage, item>> \in Attendable
  BY <1>1 DEF SchedulesInv, PlanSound, ItemsSound
<1>4. ClockFits' /\ PlanFits(Here, jobs)'
  BY <1>1 DEF DaysInv, ClockFits, PlanFits
<1>5. CASE stage = "backfill" /\ backfill # Unset
  <2>1. /\ lastCompared' = [lastCompared EXCEPT ![item] = plan.slot]
        /\ UNCHANGED <<backfill, history, equity, earlier, sweep, draft>>
    BY <1>5 DEF Record
  <2>2. Here' = Here
    BY <1>1, <2>1, HereStays
  <2>3. item \in Families /\ plan.slot = master /\ AddedSince(Here, jobs, item, master, {}) /\ master \in 1 .. master
    BY <1>2, <1>3, <1>5, Typical DEF Attendable, SlotFits, Here
  <2>4. /\ DOMAIN lastCompared = Families /\ EarlierFits(Here, jobs, earlier, {})
        /\ \A f \in Families : /\ lastCompared[f] \in 0 .. master
                               /\ lastCompared[f] # 0 => AddedSince(Here, jobs, f, lastCompared[f], {})
    BY DEF DaysInv, ProgressFits, Here
  <2>5. ProgressFits(Here, jobs, lastCompared', earlier)
    <3>1. DOMAIN lastCompared' = Families
      BY <2>1, <2>4
    <3>2. ASSUME NEW f \in Families
          PROVE  /\ lastCompared'[f] \in 0 .. master
                 /\ lastCompared'[f] # 0 => AddedSince(Here, jobs, f, lastCompared'[f], {})
      <4>1. CASE f = item
        <5>1. lastCompared'[f] = master
          BY <2>1, <2>3, <2>4, <4>1
        <5> QED
          BY <2>3, <4>1, <5>1
      <4>2. CASE f # item
        <5>1. lastCompared'[f] = lastCompared[f]
          BY <2>1, <2>4, <4>2
        <5> QED
          BY <2>4, <5>1
      <4> QED
        BY <4>1, <4>2
    <3> QED
      BY <1>5, <2>4, <3>1, <3>2 DEF ProgressFits, Here
  <2>6. JobsFit(Here, today, jobs)' /\ DocumentsFit(Here, jobs)' /\ ProgressFits(Here, jobs, lastCompared, earlier)'
    BY <1>1, <2>1, <2>2, <2>5 DEF DaysInv
  <2>7. DraftFits(Here, jobs)'
    BY <1>1, <1>5, <2>1, <2>2 DEF DaysInv, DraftFits, Here
  <2> QED
    BY <1>4, <2>6, <2>7 DEF DaysInv
<1>6. CASE stage \in {"earlier", "sweep"}
  <2>1. /\ UNCHANGED <<backfill, lastCompared, history, equity, draft>>
        /\ earlier' = IF stage = "earlier" THEN plan.slot ELSE earlier
    BY <1>6 DEF Record
  <2>2. Here' = Here
    BY <1>1, <2>1, HereStays
  <2>3. EarlierFits(Here, jobs, earlier', {})
    BY <1>2, <2>1 DEF SlotFits, DaysInv, ProgressFits
  <2>4. ProgressFits(Here, jobs, lastCompared, earlier')
    BY <2>3 DEF DaysInv, ProgressFits
  <2>5. JobsFit(Here, today, jobs)' /\ DocumentsFit(Here, jobs)' /\ ProgressFits(Here, jobs, lastCompared, earlier)'
    BY <1>1, <2>1, <2>2, <2>4 DEF DaysInv
  <2>6. DraftFits(Here, jobs)'
    BY <1>1, <1>6 DEF DraftFits
  <2> QED
    BY <1>4, <2>5, <2>6 DEF DaysInv
<1>7. CASE ~(stage = "backfill" /\ backfill # Unset) /\ stage \notin {"earlier", "sweep"}
  <2>1. draft' = [draft EXCEPT ![item] = plan.slot] /\ UNCHANGED docs
    BY <1>7 DEF Record
  <2>2. Here' = Here
    BY <1>1, <2>1, HereStays DEF docs
  <2>3. JobsFit(Here, today, jobs)' /\ DocumentsFit(Here, jobs)' /\ ProgressFits(Here, jobs, lastCompared, earlier)'
    BY <1>1, <2>1, <2>2 DEF DaysInv, docs
  <2>4. CASE stage = "backfill"
    <3>1. backfill = Unset /\ RootFits(jobs, item, plan.slot) /\ DOMAIN draft = Families
      BY <1>2, <1>7, <2>4 DEF SlotFits, DaysInv, DraftFits, Here
    <3>2. \A f \in Families : f \in left \/ item = f \/ RootFits(jobs, f, draft[f])
      BY <2>4, <3>1 DEF DaysInv, DraftFits, Here
    <3>3. \A f \in Families : f \in left \/ RootFits(jobs, f, draft'[f])
      BY <2>1, <3>1, <3>2
    <3>4. DOMAIN draft' = Families
      BY <2>1, <3>1
    <3>5. DraftFits(Here, jobs)'
      BY <1>1, <2>4, <3>3, <3>4 DEF DraftFits
    <3> QED
      BY <1>4, <2>3, <3>5 DEF DaysInv
  <2>5. CASE stage = "daily"
    <3>1. DOMAIN draft = Roles /\ item \in Roles
      BY <1>3, <2>5 DEF SchedulesInv, DraftSound, SlotsSound, Attendable
    <3>2. ASSUME NEW r \in Roles
          PROVE  (r \in left => draft'[r] = Here.history[r]) /\ SlotFits(Here, jobs, "daily", r, draft'[r], {})
      <4>1. (r \in left => draft[r] = Here.history[r]) /\ SlotFits(Here, jobs, "daily", r, draft[r], {})
        BY <2>5 DEF DaysInv, DraftFits
      <4>2. draft'[r] = IF r = item THEN plan.slot ELSE draft[r]
        BY <2>1, <3>1
      <4> QED
        BY <1>2, <2>5, <4>1, <4>2
    <3>3. DraftFits(Here, jobs)'
      BY <1>1, <2>2, <2>5, <3>2 DEF DraftFits
    <3> QED
      BY <1>4, <2>3, <3>3 DEF DaysInv
  <2>6. CASE stage = "equity"
    <3>1. DOMAIN draft = Families /\ item \in Families
      BY <1>3, <2>6 DEF SchedulesInv, DraftSound, SlotsSound, Attendable
    <3>2. ASSUME NEW f \in Families
          PROVE  (f \in left => draft'[f] = Here.equity[f]) /\ SlotFits(Here, jobs, "equity", f, draft'[f], {})
      <4>1. (f \in left => draft[f] = Here.equity[f]) /\ SlotFits(Here, jobs, "equity", f, draft[f], {})
        BY <2>6 DEF DaysInv, DraftFits
      <4>2. draft'[f] = IF f = item THEN plan.slot ELSE draft[f]
        BY <2>1, <3>1
      <4> QED
        BY <1>2, <2>6, <4>1, <4>2
    <3>3. DraftFits(Here, jobs)'
      BY <1>1, <2>2, <2>6, <3>2 DEF DraftFits
    <3> QED
      BY <1>4, <2>3, <3>3 DEF DaysInv
  <2>7. stage \in {"backfill", "daily", "equity"}
    BY <1>3, <1>7 DEF Attendable
  <2> QED
    BY <2>4, <2>5, <2>6, <2>7
<1> QED
  BY <1>5, <1>6, <1>7

\* A schedule is written: since is where its series began.
LEMMA WriteStep ==
  ASSUME DaysInv, SchedulesInv, WriteSchedules
  PROVE  DaysInv'
<1>1. /\ left = {} /\ plan = NoPlan
      /\ backfill' = IF stage = "backfill" /\ backfill = Unset THEN draft ELSE backfill
      /\ history' = IF stage = "daily" THEN draft ELSE history
      /\ equity' = IF stage = "equity" THEN draft ELSE equity
      /\ since' = [t \in DOMAIN since |-> Since(t)]
      /\ Enter(NextStage(stage))
      /\ UNCHANGED <<today, master, jobs, lastCompared, earlier, attended>>
  BY DEF WriteSchedules
<1>2. today \in Int /\ master \in Int
  BY Typical
<1>3. Onward(Here, Here')
  BY <1>1, <1>2 DEF Onward, Here
<1>4. stage \in {Stages[n] : n \in 1 .. 6}
  BY DEF DaysInv, ClockFits
<1>5. ClockFits'
  BY <1>1, <1>4, NextStages DEF DaysInv, ClockFits, Enter
<1>6. JobsFit(Here, today, jobs)'
  <2>1. JobsFit(Here, today, jobs) /\ today <= today
    BY <1>2 DEF DaysInv
  <2>2. JobsFit(Here', today, jobs)
    BY <1>2, <1>3, <2>1, JobsFitLater
  <2> QED
    BY <1>1, <2>2
<1>7. ProgressFits(Here, jobs, lastCompared, earlier)'
  <2>1. ProgressFits(Here', jobs, lastCompared, earlier)
    BY <1>3, ProgressLater DEF DaysInv
  <2> QED
    BY <1>1, <2>1
<1>8. ASSUME backfill' # Unset, NEW f \in Families PROVE RootFits(jobs, f, backfill'[f])
  <2>1. CASE stage = "backfill" /\ backfill = Unset
    BY <1>1, <1>8, <2>1 DEF DaysInv, DraftFits, Here
  <2>2. CASE ~(stage = "backfill" /\ backfill = Unset)
    BY <1>1, <1>8, <2>2 DEF DaysInv, DocumentsFit, Here
  <2> QED
    BY <2>1, <2>2
<1>9. ASSUME NEW r \in Roles PROVE DailyFits(jobs, r, since'[<<"daily", r>>], history'[r], {})
  <2>1. since'[<<"daily", r>>] = Since(<<"daily", r>>)
    BY <1>1 DEF DaysInv, ClockFits
  <2>2. CASE stage = "daily" /\ draft[r] # Unset
    <3>1. Since(<<"daily", r>>) = DailyFirst(Here, r, draft[r])
      BY <2>2 DEF Since, DailyFirst, Here
    <3>2. DailyFits(jobs, r, DailyFirst(Here, r, draft[r]), draft[r], {})
      BY <2>2 DEF DaysInv, DraftFits, SlotFits
    <3> QED
      BY <1>1, <2>1, <2>2, <3>1, <3>2
  <2>3. CASE stage = "daily" /\ draft[r] = Unset
    BY <1>1, <2>3 DEF DailyFits
  <2>4. CASE stage # "daily"
    <3>1. Since(<<"daily", r>>) = since[<<"daily", r>>]
      BY <2>4 DEF Since
    <3> QED
      BY <1>1, <2>1, <2>4, <3>1 DEF DaysInv, DocumentsFit, Here
  <2> QED
    BY <2>2, <2>3, <2>4
<1>10. ASSUME NEW f \in Families PROVE EquityFits(jobs, f, since'[<<"equity", f>>], equity'[f], {})
  <2>1. since'[<<"equity", f>>] = Since(<<"equity", f>>)
    BY <1>1 DEF DaysInv, ClockFits
  <2>2. CASE stage = "equity" /\ draft[f] # Unset
    <3>1. Since(<<"equity", f>>) = EquityFirst(Here, jobs, f, draft[f])
      BY <2>2 DEF Since, EquityFirst, Here
    <3>2. EquityFits(jobs, f, EquityFirst(Here, jobs, f, draft[f]), draft[f], {})
      BY <2>2 DEF DaysInv, DraftFits, SlotFits
    <3> QED
      BY <1>1, <2>1, <2>2, <3>1, <3>2
  <2>3. CASE stage = "equity" /\ draft[f] = Unset
    BY <1>1, <2>3 DEF EquityFits
  <2>4. CASE stage # "equity"
    <3>1. Since(<<"equity", f>>) = since[<<"equity", f>>]
      BY <2>4 DEF Since
    <3> QED
      BY <1>1, <2>1, <2>4, <3>1 DEF DaysInv, DocumentsFit, Here
  <2> QED
    BY <2>2, <2>3, <2>4
<1>11. DocumentsFit(Here, jobs)'
  BY <1>1, <1>8, <1>9, <1>10 DEF DocumentsFit, Here
<1>12. DraftFits(Here, jobs)' /\ PlanFits(Here, jobs)'
  BY <1>1, <1>4, <1>11, NextStages, EnterFits
<1> QED
  BY <1>5, <1>6, <1>7, <1>11, <1>12 DEF DaysInv

LEMMA NewDayStep ==
  ASSUME DaysInv, SchedulesInv, NewDay
  PROVE  DaysInv'
<1>1. /\ today < LastDay /\ plan = NoPlan /\ today' = today + 1
      /\ UNCHANGED <<master, jobs, docs, stage, left, item, draft, plan, since, attended>>
  BY DEF NewDay, loop
<1>2. Here' = Here
  BY <1>1, HereStays DEF docs
<1>3. today \in Int /\ master \in Int
  BY Typical
<1>4. JobsFit(Here, today, jobs)'
  <2>1. Onward(Here, Here)
    BY <1>3 DEF Onward, Here
  <2>2. JobsFit(Here, today, jobs) /\ today <= today' /\ today' \in Int
    BY <1>1, <1>3 DEF DaysInv
  <2>3. JobsFit(Here, today', jobs)
    BY <1>3, <2>1, <2>2, JobsFitLater
  <2> QED
    BY <1>1, <1>2, <2>3
<1>5. ClockFits'
  BY <1>1, <1>3, DatesAreNumbers DEF DaysInv, ClockFits
<1>6. DocumentsFit(Here, jobs)' /\ ProgressFits(Here, jobs, lastCompared, earlier)'
  BY <1>1, <1>2 DEF DaysInv, docs
<1>7. DraftFits(Here, jobs)' /\ PlanFits(Here, jobs)'
  BY <1>1, <1>2 DEF DaysInv, DraftFits, PlanFits
<1> QED
  BY <1>4, <1>5, <1>6, <1>7 DEF DaysInv

\* A job ends, or the admin pauses or resumes one that is no root.
LEMMA OthersStep ==
  ASSUME DaysInv, SchedulesInv, UNCHANGED <<today, master, docs, loop, since, attended>>,
         Carries(jobs, jobs'), JobsFit(Here, today, jobs')
  PROVE  DaysInv'
<1>1. UNCHANGED <<stage, left, item, draft, plan>>
  BY DEF loop
<1>2. PlanFits(Here, jobs')
  BY FitsCarry DEF DaysInv, PlanFits, Carries, Settles
<1>3. PlanFits(Here, jobs)'
  BY <1>1, <1>2, HereStays DEF PlanFits, docs
<1> QED
  BY <1>1, <1>3, JobsStep

LEMMA DaysSteps ==
  ASSUME Pausable \cap {"backfill", "manual"} = {}, DaysInv, SchedulesInv, [Next]_vars
  PROVE  DaysInv'
<1>1. CASE UNCHANGED vars
  <2>1. Carries(jobs, jobs') /\ JobsFit(Here, today, jobs')
    BY <1>1 DEF vars, Carries, Settles, DaysInv
  <2> QED
    BY <1>1, <2>1, OthersStep DEF vars, docs, loop
<1>2. stage \in {Stages[n] : n \in 1 .. 6} /\ master \in 1 .. Len(Catalogues) /\ Len(Catalogues) \in Int
  BY CataloguesAssumption DEF DaysInv, ClockFits
<1>3. CASE Refresh
  <2>1. /\ stage = "catalogue" /\ Enter(NextStage(stage)) /\ master' \in master .. Len(Catalogues)
        /\ UNCHANGED <<today, jobs, docs, since, attended>>
    BY <1>2, <1>3 DEF Refresh, Least
  <2> QED
    BY <1>2, <2>1, NextStages, EnterStep
<1>4. CASE Abort \/ Advanced
  <2>1. /\ Enter(NextStage(stage)) \/ Enter("catalogue")
        /\ UNCHANGED <<today, master, jobs, docs, since, attended>>
    BY <1>4 DEF Abort, Advanced
  <2>2. master' \in master .. Len(Catalogues) /\ "catalogue" \in {Stages[n] : n \in 1 .. 6}
    BY <1>2, <2>1, StageOrder
  <2> QED
    BY <1>2, <2>1, <2>2, NextStages, EnterStep
<1>5. ASSUME NEW j \in DOMAIN jobs, NEW state, Finish(j, state) PROVE DaysInv'
  <2> DEFINE job == [jobs[j] EXCEPT !.state = state]
  <2>1. jobs' = [jobs EXCEPT ![j] = job] /\ UNCHANGED <<today, master, docs, loop, since, attended>>
    BY <1>5 DEF Finish
  <2>2. /\ job.role = jobs[j].role /\ job.family = jobs[j].family /\ job.from = jobs[j].from
        /\ job.to = jobs[j].to /\ job.scope = jobs[j].scope /\ job.cat = jobs[j].cat
        /\ job.user = jobs[j].user /\ job.started = jobs[j].started
    OBVIOUS
  <2> HIDE DEF job
  <2>3. /\ Settles(jobs, jobs') /\ DOMAIN jobs' = DOMAIN jobs /\ jobs'[j] = job
        /\ \A k \in DOMAIN jobs : k # j => jobs'[k] = jobs[k]
    BY <2>1, <2>2 DEF Settles, Settled
  <2> QED
    BY <2>1, <2>2, <2>3, OneJobStep, OthersStep
<1>6. ASSUME NEW j \in DOMAIN jobs, jobs[j].role \in Pausable, AdminPause(j) PROVE DaysInv'
  <2> DEFINE job == [jobs[j] EXCEPT !.state = "paused", !.user = TRUE]
  <2>1. jobs' = [jobs EXCEPT ![j] = job] /\ UNCHANGED <<today, master, docs, loop, since, attended>>
    BY <1>6 DEF AdminPause
  <2>2. /\ job.role = jobs[j].role /\ job.family = jobs[j].family /\ job.from = jobs[j].from
        /\ job.to = jobs[j].to /\ job.scope = jobs[j].scope /\ job.cat = jobs[j].cat
    OBVIOUS
  <2>3. job.user
    BY DEF SchedulesInv, JobsSound, JobSound, JobFields
  <2> HIDE DEF job
  <2>4. /\ Settles(jobs, jobs') /\ DOMAIN jobs' = DOMAIN jobs /\ jobs'[j] = job
        /\ \A k \in DOMAIN jobs : k # j => jobs'[k] = jobs[k]
    BY <2>1, <2>3 DEF Settles, Settled
  <2>5. jobs[j].role \notin {"backfill", "manual"}
    BY <1>6
  <2> QED
    BY <2>1, <2>2, <2>4, <2>5, OneJobStep, OthersStep
<1>7. ASSUME NEW j \in DOMAIN jobs, AdminResume(j) PROVE DaysInv'
  <2>1. jobs' = Resumed(j) /\ UNCHANGED <<today, master, docs, loop, since, attended>>
    BY <1>7 DEF AdminResume
  <2>2. Settles(jobs, jobs') /\ DOMAIN jobs' = DOMAIN jobs
    BY <2>1, ResumeIsSound DEF SchedulesInv
  <2> QED
    BY <2>1, <2>2, ResumedAsks, OneJobStep, OthersStep
<1> QED
  BY <1>1, <1>3, <1>4, <1>5, <1>6, <1>7, DecisionStep, PinStep, StartStep, RecordStep, WriteStep, NewDayStep
  DEF Next, Loop

\* data_system.py:125 "no day is silently skipped": whatever fails, whenever the
\* process dies and however long the outages, each identity that stays listed is
\* requested for every day of its series.  The admin pauses windows and not roots:
\* what a paused root defers is a finding.
THEOREM NoDayIsSkipped ==
  ASSUME Pausable \cap {"backfill", "manual"} = {}
  PROVE  Spec => []EveryDayRequested
<1>1. Init => SchedulesInv /\ DaysInv
  BY SchedulesBegin, DaysBegin
<1>2. SchedulesInv /\ DaysInv /\ [Next]_vars => SchedulesInv' /\ DaysInv'
  BY SchedulesSteps, DaysSteps
<1> QED
  BY <1>1, <1>2, DaysAreRequested, PTL DEF Spec
=============================================================================
