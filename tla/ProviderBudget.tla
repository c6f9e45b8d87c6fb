---------------------------- MODULE ProviderBudget ----------------------------
(***************************************************************************)
(* live-app/provider.py: the calls of every process of the trading room to  *)
(* the data provider, spaced by one shared document.                        *)
(*                                                                         *)
(* post() takes the lock of its process and polls reserve() until a start   *)
(* is granted.  reserve is a compare-and-swap on control/provider-budget:   *)
(* read, decide at the current time, write if the version is still the one  *)
(* that was read, at most twelve times.  A write may be applied and still   *)
(* be answered as a conflict (the storage client repeats it).               *)
(***************************************************************************)
EXTENDS Integers, FiniteSets

CONSTANTS
  Callers,       \* processes that share the store
  Endpoints,     \* families of endpoints
  Spacing,       \* [Endpoints -> time between two starts]
  GlobalSpacing, \* between any two starts
  Cooldown,      \* after the provider answered 429
  Guard,         \* starts of a day
  DayLength,
  Tries,         \* of a compare-and-swap (12)
  \* bounds of the model, not of the code
  MaxNow, MaxCalls, MaxStoreFaults

ASSUME SpacingAssumption ==
  /\ Spacing \in [Endpoints -> Nat] /\ GlobalSpacing \in Nat /\ Cooldown \in Nat
  /\ DayLength \in Nat \ {0} /\ Tries \in Nat

VARIABLES
  budget,        \* control/provider-budget, with its version
  now,
  caller,        \* [Callers -> the call in progress]
  starts,        \* history: granted starts [by, at, family, day]
  limited,       \* history: the times at which a 429 was recorded
  calls, storeFaults

budgetVars == <<budget, now, caller, starts, limited, calls, storeFaults>>

Day(t) == t \div DayLength
Larger(a, b) == IF a >= b THEN a ELSE b
Waiting == [pc |-> "idle"]

BudgetInit ==
  /\ budget = [version |-> 0, day |-> -1, calls |-> 0, global |-> 0,
               families |-> [f \in Endpoints |-> 0], cooldown |-> 0]
  /\ now = 0 /\ caller = [c \in Callers |-> Waiting]
  /\ starts = {} /\ limited = {} /\ calls = 0 /\ storeFaults = 0

Clock == now < MaxNow /\ now' = now + 1 /\ UNCHANGED <<budget, caller, starts, limited, calls, storeFaults>>

-----------------------------------------------------------------------------
(* replace: read, decide, write                                            *)

\* What reserve makes of the document it read: refused for the day, a start now,
\* or the time to wait for, which costs nothing.
NextStart(doc, family) == Larger(Larger(doc.global, doc.families[family]), doc.cooldown)
Used(doc, today) == IF doc.day = today THEN doc.calls ELSE 0
Booked(doc, family, today) ==
  [doc EXCEPT !.day = today, !.calls = Used(doc, today) + 1, !.global = now + GlobalSpacing,
              !.families[family] = now + Spacing[family]]

\* rate_backoff.
BackedOff(doc) == [doc EXCEPT !.cooldown = Larger(@, now + Cooldown)]

Become(c, r) == caller' = [caller EXCEPT ![c] = r]

\* post: only with credentials, one call of a process at a time; the day is the
\* one at the beginning of the reservation.
Post(c) ==
  /\ caller[c].pc = "idle" /\ calls < MaxCalls /\ calls' = calls + 1
  /\ \E f \in Endpoints : Become(c, [pc |-> "reserve", family |-> f, today |-> Day(now), tries |-> Tries])
  /\ UNCHANGED <<budget, now, starts, limited, storeFaults>>

Reserve(c) ==
  LET r == caller[c] IN
  /\ r.pc = "reserve"
  /\ Become(c, IF Used(budget, r.today) >= Guard \/ r.tries = 0 THEN Waiting   \* 429 BUDGET; 409
               ELSE IF NextStart(budget, r.family) > now
                    THEN [r EXCEPT !.pc = "asleep"]
                    ELSE [pc |-> "write", family |-> r.family, today |-> r.today, tries |-> r.tries,
                          version |-> budget.version, doc |-> Booked(budget, r.family, r.today), at |-> now])
  /\ UNCHANGED <<budget, now, starts, limited, calls, storeFaults>>

\* The slot is asked for again after the wait, on the day it is then.
Awake(c) ==
  /\ caller[c].pc = "asleep" /\ NextStart(budget, caller[c].family) <= now
  /\ Become(c, [caller[c] EXCEPT !.pc = "reserve", !.today = Day(now), !.tries = Tries])
  /\ UNCHANGED <<budget, now, starts, limited, calls, storeFaults>>

\* put_document.

\* A plausible error: the version is not compared.
AnyVersion(r) == TRUE

Current(r) == budget.version = r.version
Install(doc) == budget' = [doc EXCEPT !.version = budget.version + 1]
Retry(c) == Become(c, [pc |-> "reserve", family |-> caller[c].family, today |-> caller[c].today,
                       tries |-> caller[c].tries - 1])

Granted(c) ==
  /\ caller[c].pc = "write"
  /\ \/ /\ Current(caller[c]) /\ Install(caller[c].doc)
        /\ starts' = starts \cup {[by |-> c, at |-> caller[c].at, family |-> caller[c].family, day |-> caller[c].today]}
        /\ Become(c, [pc |-> "request"]) /\ UNCHANGED storeFaults
     \/ /\ ~Current(caller[c]) /\ Retry(c) /\ UNCHANGED <<budget, starts, storeFaults>>
     \/ /\ Current(caller[c]) /\ storeFaults < MaxStoreFaults /\ storeFaults' = storeFaults + 1
        /\ Install(caller[c].doc) /\ Retry(c) /\ UNCHANGED starts
  /\ UNCHANGED <<now, limited, calls>>

\* _request, and what it came to: an answer, an error, or a 429.
Answered(c) ==
  /\ caller[c].pc = "request"
  /\ \/ Become(c, Waiting)
     \/ Become(c, [pc |-> "backoff"])
  /\ UNCHANGED <<budget, now, starts, limited, calls, storeFaults>>

\* A 429: read and write, repeated on a conflict.
ReadBackoff(c) ==
  /\ caller[c].pc = "backoff"
  /\ Become(c, [pc |-> "write backoff", version |-> budget.version, doc |-> BackedOff(budget), at |-> now])
  /\ UNCHANGED <<budget, now, starts, limited, calls, storeFaults>>
WriteBackoff(c) ==
  /\ caller[c].pc = "write backoff"
  /\ IF Current(caller[c])
     THEN Install(caller[c].doc) /\ limited' = limited \cup {[from |-> caller[c].at, to |-> now]} /\ Become(c, Waiting)
     ELSE Become(c, [pc |-> "backoff"]) /\ UNCHANGED <<budget, limited>>
  /\ UNCHANGED <<now, starts, calls, storeFaults>>

BudgetNext ==
  \/ Clock
  \/ \E c \in Callers : \/ Post(c) \/ Reserve(c) \/ Awake(c) \/ Granted(c)
                        \/ Answered(c) \/ ReadBackoff(c) \/ WriteBackoff(c)

BudgetSpec == BudgetInit /\ [][BudgetNext]_budgetVars

-----------------------------------------------------------------------------
(* Properties                                                              *)

\* Whatever the processes do between a read and its write, two starts of a
\* family are booked at least its spacing apart, and any two the global spacing.
StartsSpaced ==
  \A s, u \in starts :
    s # u /\ s.at <= u.at => /\ u.at - s.at >= GlobalSpacing
                             /\ s.family = u.family => u.at - s.at >= Spacing[s.family]

\* No start is booked during the cooldown a 429 of any process has recorded.
CooldownHolds ==
  \A l \in limited, s \in starts : s.at > l.to => s.at >= l.from + Cooldown

\* What the shared document promises to every process that reads it.
BudgetHolds == StartsSpaced /\ CooldownHolds

\* The provider sees at most Guard starts of a day.
DailyBudget == \A d \in {s.day : s \in starts} : Cardinality({s \in starts : s.day = d}) <= Guard
=============================================================================
