---------------------------- MODULE GapRecovery ----------------------------
(***************************************************************************)
(* The scanner that queues bounded retries of unresolved history results   *)
(* (live-app/gap_recovery.py tick, with Collector.results and retry).      *)
(*                                                                         *)
(* Every 30 s the worker calls tick.  It reads its control document and    *)
(* lists all jobs, picks one source job, reads a page of its results after *)
(* the saved cursor and, for each eligible result, creates a child job     *)
(* under a name derived from the result and resumes it.  At the end it     *)
(* writes the control document it read, with the new positions.            *)
(***************************************************************************)
EXTENDS Naturals, FiniteSets

CONSTANTS
    Sources,      \* history jobs that are not retries, in their listing order 1..n
    Priority,     \* those with a recent-history role
    Keys,         \* result keys of a source, 1..k
    Class,        \* results to come and their kind: "resolved", "plain", "slices", "quarantine"
    PageSize,     \* results read in one page (50)
    MaxQueued,    \* children queued by one tick (5)
    MaxActive,    \* children that work through date slices (8)
    MaxFaults,    \* bound on crashes
    MaxCommands   \* bound on admin commands

ASSUME SourcesAreListed ==
    IsFiniteSet(Sources) /\ Sources = 1..Cardinality(Sources) /\ Priority \subseteq Sources
ASSUME KeysAreSorted ==
    IsFiniteSet(Keys) /\ Keys = 1..Cardinality(Keys) /\ DOMAIN Class \subseteq Sources \X Keys
ASSUME LimitsAreNumbers == MaxQueued \in Nat /\ MaxActive \in Nat

Entries == DOMAIN Class

VARIABLES
    paused,   \* sources their user has paused (the others run or are complete)
    saved,    \* results that are stored
    child,    \* [Entries -> state of the automatic child]
    manual,   \* [Entries -> an admin's retry: "none", "empty", "rows", "full"]
    control,  \* [due, turn, position, priority_position, cursor]
    scan,     \* the tick in progress
    faults, commands

vars == <<paused, saved, child, manual, control, scan, faults, commands>>

Idle == [pc |-> "idle"]

Init ==
    /\ paused = {}
    /\ saved = {}
    /\ child = [e \in Entries |-> "none"]
    /\ manual = [e \in Entries |-> "none"]
    /\ control = [due |-> TRUE, turn |-> 0, position |-> 0, priority_position |-> 0,
                  cursor |-> [s \in Sources |-> 0]]
    /\ scan = Idle /\ faults = 0 /\ commands = 0

-----------------------------------------------------------------------------
(* Choices of a tick                                                       *)

\* A plausible error: a child that waits for a token is not counted.
RunningOnly(c, e) == Class[e] = "slices" /\ c[e] = "running"

\* A child that works through slices and is not finished or paused.
Slicing(c, e) == Class[e] = "slices" /\ c[e] \in {"running", "token_required"}
Active(c) == Cardinality({e \in Entries : Slicing(c, e)})

Rank(s, set) == Cardinality({x \in set : x < s})
Nth(set, n) == CHOOSE s \in set : Rank(s, set) = n

\* A plausible error: recent history always goes first.
RecentFirst(listed, st) ==
    LET pool == IF listed \cap Priority # {} THEN listed \cap Priority ELSE listed
        pos == st.priority_position % Cardinality(pool)
    IN [source |-> Nth(pool, pos),
        control |-> [st EXCEPT !.priority_position = (pos + 1) % Cardinality(pool)],
        last |-> listed \cap Priority = {} /\ pos + 1 = Cardinality(pool)]

\* Three turns for recent-history sources, the fourth for the others.
select_recovery_source(listed, st) ==
    LET priority == listed \cap Priority
        general == listed \ Priority
        recent == priority # {} /\ (general = {} \/ st.turn % 4 # 3)
        pool == IF recent THEN priority ELSE general
        pos == (IF recent THEN st.priority_position ELSE st.position) % Cardinality(pool)
        next == (pos + 1) % Cardinality(pool)
        turned == [st EXCEPT !.turn = (@ + 1) % 4]
    IN [source |-> Nth(pool, pos),
        control |-> IF recent THEN [turned EXCEPT !.priority_position = next]
                              ELSE [turned EXCEPT !.position = next],
        last |-> priority = {} /\ pos + 1 = Cardinality(pool)]

\* A result that an earlier retry has answered for, by the listing.
Handled(e, children, manuals) ==
    \/ children[e] # "none"
    \/ Class[e] = "plain" /\ manuals[e] # "none"
    \/ Class[e] = "slices" /\ manuals[e] = "full"
    \/ Class[e] = "quarantine" /\ manuals[e] \in {"rows", "full"}

eligible(e) == Class[e] # "resolved"

-----------------------------------------------------------------------------
(* tick                                                                    *)

\* The control document and the listing of all jobs; with too many active
\* children, or no source, the tick ends here.
ListJobs ==
    /\ scan.pc = "idle" /\ control.due
    /\ Active(child) < MaxActive
    /\ paused # Sources
    /\ scan' = [pc |-> "page", control |-> control, children |-> child, manuals |-> manual,
                listed |-> Sources \ paused]
    /\ UNCHANGED <<paused, saved, child, manual, control, faults, commands>>

Page(s, after) ==
    LET names == {k \in Keys : <<s, k>> \in saved /\ k > after}
    IN {k \in names : Rank(k, names) < PageSize}
More(s, after) == Cardinality({k \in Keys : <<s, k>> \in saved /\ k > after}) > PageSize

ReadPage ==
    /\ scan.pc = "page"
    /\ LET pick == select_recovery_source(scan.listed, scan.control)
           s == pick.source
           after == scan.control.cursor[s]
       IN scan' = [pc |-> "entries", children |-> scan.children, manuals |-> scan.manuals,
                   control |-> pick.control, last |-> pick.last, source |-> s,
                   todo |-> Page(s, after), more |-> More(s, after), at |-> 0,
                   queued |-> 0, active |-> Active(scan.children)]
    /\ UNCHANGED <<paused, saved, child, manual, control, faults, commands>>

Full == scan.queued >= MaxQueued \/ (scan.queued > 0 /\ scan.active >= MaxActive)
Current == CHOOSE k \in scan.todo : Rank(k, scan.todo) = 0
Entry == <<scan.source, Current>>
Next1 == [scan EXCEPT !.todo = @ \ {Current}, !.at = Current]

Skip ==
    /\ scan.pc = "entries" /\ scan.todo # {} /\ ~Full
    /\ ~eligible(Entry) \/ Handled(Entry, scan.children, scan.manuals)
    /\ scan' = Next1
    /\ UNCHANGED <<paused, saved, child, manual, control, faults, commands>>

\* Collector.retry under the derived name: a second call returns the first child.
Retry ==
    /\ scan.pc = "entries" /\ scan.todo # {} /\ ~Full
    /\ eligible(Entry) /\ ~Handled(Entry, scan.children, scan.manuals)
    /\ child' = IF child[Entry] = "none" THEN [child EXCEPT ![Entry] = "paused"]
                ELSE child
    /\ scan' = [scan EXCEPT !.pc = "resume"]
    /\ UNCHANGED <<paused, saved, manual, control, faults, commands>>

Resume ==
    /\ scan.pc = "resume"
    /\ child' = IF child[Entry] = "paused" THEN [child EXCEPT ![Entry] = "running"]
                ELSE child
    /\ scan' = [Next1 EXCEPT !.pc = "entries", !.queued = @ + 1,
                             !.active = IF Class[Entry] = "slices" THEN @ + 1 ELSE @]
    /\ UNCHANGED <<paused, saved, manual, control, faults, commands>>

\* The control document is replaced by the one that was read, moved on.
Save ==
    /\ scan.pc = "entries" /\ (scan.todo = {} \/ Full)
    /\ LET remaining == scan.todo # {} \/ scan.more
           cursor == [scan.control.cursor EXCEPT
                        ![scan.source] = IF ~remaining THEN 0
                                         ELSE IF scan.at = 0 THEN @ ELSE scan.at]
       IN control' = [scan.control EXCEPT
                        !.cursor = cursor,
                        !.due = ~(scan.last /\ \A s \in Sources : cursor[s] = 0)]
    /\ scan' = Idle
    /\ UNCHANGED <<paused, saved, child, manual, faults, commands>>

tick == ListJobs \/ ReadPage \/ Skip \/ Retry \/ Resume \/ Save

-----------------------------------------------------------------------------
(* The rest of the system                                                  *)

\* 900 s after a finished round, or an admin's start of the recovery.
Due == ~control.due /\ control' = [control EXCEPT !.due = TRUE]
       /\ UNCHANGED <<paused, saved, child, manual, scan, faults, commands>>

\* Collector.run on a source: results arrive in any key order.
Result(s, k) ==
    /\ s \notin paused /\ <<s, k>> \in Entries \ saved
    /\ saved' = saved \cup {<<s, k>>}
    /\ UNCHANGED <<paused, child, manual, control, scan, faults, commands>>

\* Collector.run on a child: it ends, or stops for a token until one is saved.
RunChild(e) ==
    /\ child[e] = "running"
    /\ child' = [child EXCEPT ![e] = "completed"]
    /\ UNCHANGED <<paused, saved, manual, control, scan, faults, commands>>
TokenExpires(e) ==
    /\ child[e] = "running" /\ commands < MaxCommands
    /\ child' = [child EXCEPT ![e] = "token_required"] /\ commands' = commands + 1
    /\ UNCHANGED <<paused, saved, manual, control, scan, faults>>
TokenSaved(e) ==
    /\ child[e] = "token_required" /\ child' = [child EXCEPT ![e] = "running"]
    /\ UNCHANGED <<paused, saved, manual, control, scan, faults, commands>>

\* An admin pauses or resumes a source, or retries a result by hand.
PauseSource(s) ==
    /\ commands < MaxCommands /\ commands' = commands + 1
    /\ s \notin paused /\ paused' = paused \cup {s}
    /\ UNCHANGED <<saved, child, manual, control, scan, faults>>
ResumeSource(s) ==
    /\ s \in paused /\ paused' = paused \ {s}
    /\ UNCHANGED <<saved, child, manual, control, scan, faults, commands>>
RetryByHand(e) ==
    /\ commands < MaxCommands /\ commands' = commands + 1
    /\ e \in saved /\ eligible(e) /\ manual[e] = "none"
    /\ \E m \in {"empty", "rows", "full"} : manual' = [manual EXCEPT ![e] = m]
    /\ UNCHANGED <<paused, saved, child, control, scan, faults>>

Crash ==
    /\ scan.pc # "idle" /\ faults < MaxFaults
    /\ scan' = Idle /\ faults' = faults + 1
    /\ UNCHANGED <<paused, saved, child, manual, control, commands>>

Next ==
    \/ tick \/ Due \/ Crash
    \/ \E s \in Sources : PauseSource(s) \/ ResumeSource(s)
    \/ \E s \in Sources, k \in Keys : Result(s, k)
    \/ \E e \in Entries : RunChild(e) \/ TokenExpires(e) \/ TokenSaved(e) \/ RetryByHand(e)

Spec == Init /\ [][Next]_vars

-----------------------------------------------------------------------------
(* Properties                                                              *)

\* "Drain first": however stale the listing, whatever crashed between the
\* creation of a child and the checkpoint, no more than eight children work
\* through date slices.
SlicesBounded ==
    Cardinality({e \in Entries : /\ Class[e] = "slices"
                                 /\ child[e] \in {"running", "token_required"}}) <= MaxActive

\* Every unresolved result gets its retry: neither the turns, nor the cursor
\* of a page that was cut short, nor results that arrive behind it, nor a
\* crash leave one out.
EveryGapRetried ==
    \A e \in Entries :
      (e \in saved /\ eligible(e)) ~> (child[e] # "none" \/ manual[e] # "none")

\* "Deterministic identity closes a crash between creation and checkpoint":
\* a child that was created is set going.
ChildrenStarted == \A e \in Entries : child[e] = "paused" ~> child[e] # "paused"
=============================================================================
