----------------------------- MODULE SystemDoctor -----------------------------
(***************************************************************************)
(* live-app/system_doctor.py: a resumable diagnosis of everything stored.   *)
(*                                                                         *)
(* One document holds the scan.  A worker calls tick every two seconds; a   *)
(* tick takes a lease of 600 s on the scan, does one bounded step of its    *)
(* phase (checks, a page of the inventory, repair, verification) and gives  *)
(* the lease back.  An admin may stop a scan and start another meanwhile;   *)
(* records are added all the time; a tick may fail, die or outlive its      *)
(* lease, and another worker takes the scan over where the document says.   *)
(***************************************************************************)
EXTENDS Integers, FiniteSets

CONSTANTS
  Namespaces,    \* 1 .. n, in the order they are scanned
  Keys,          \* 1 .. k, in cursor order
  Given,         \* what is stored at the beginning, [namespace -> keys]
  Later,         \* records that may be added, <<namespace, key>>
  Broken,        \* records that cannot be read, <<namespace, key>>
  Repairs,       \* the scans that are asked to repair
  Workers, None,
  PageSize,
  \* bounds of the model, not of the code
  MaxScans, MaxScanFaults

ASSUME PagesAdvance == PageSize \in Nat \ {0}
ASSUME RecordsOrdered ==
  /\ Namespaces = 1 .. Cardinality(Namespaces) /\ Cardinality(Namespaces) \in Nat \ {0}
  /\ Keys = 1 .. Cardinality(Keys) /\ Cardinality(Keys) \in Nat
  /\ Given \in [Namespaces -> SUBSET Keys] /\ Later \subseteq Namespaces \X Keys

VARIABLES
  scan,          \* doctor/current
  archive,       \* [namespace -> the keys stored in it]
  pages,         \* doctor/findings: <<scan, namespace, key>> of a finding
  ticks,         \* the tick each worker is in
  active,        \* the worker that holds control/worker
  inspected,     \* history: <<namespace, key>> this scan looked at
  known,         \* history: <<namespace, key>> stored when the scan began
  scanFaults

doctorVars == <<scan, archive, pages, ticks, active, inspected, known, scanFaults>>

Pending(s) == s.state \in {"QUEUED", "SCANNING", "REPAIRING", "VERIFYING"}
Idle == [pc |-> "idle"]
NoScan == [id |-> 0, state |-> "NOT_STARTED", phase |-> "checks", repair |-> FALSE, ns |-> 1, cursor |-> 0,
           lease |-> None, retry |-> FALSE]
First == CHOOSE w \in Workers : TRUE
Stored == {r \in Namespaces \X Keys : r[2] \in archive[r[1]]}

DoctorInit ==
  /\ scan = NoScan
  /\ archive = Given
  /\ pages = {} /\ ticks = [w \in Workers |-> Idle] /\ active = First
  /\ inspected = {} /\ known = {} /\ scanFaults = 0

ScanFault == scanFaults < MaxScanFaults /\ scanFaults' = scanFaults + 1

-----------------------------------------------------------------------------
(* The admin, and the rest of the system                                   *)

\* start: a new scan, unless one is pending.
StartScan ==
  /\ ~Pending(scan) /\ scan.id < MaxScans
  /\ scan' = [NoScan EXCEPT !.id = scan.id + 1, !.state = "QUEUED", !.repair = scan.id + 1 \in Repairs]
  /\ known' = Stored /\ inspected' = {}
  /\ UNCHANGED <<archive, pages, ticks, active, scanFaults>>

StopScan ==
  /\ Pending(scan)
  /\ scan' = [scan EXCEPT !.state = "STOPPED"]
  /\ UNCHANGED <<archive, pages, ticks, active, inspected, known, scanFaults>>

\* While a scan is going on; what is added before it might as well be given.
AddRecord ==
  /\ scan.phase = "inventory" /\ scan.id = 1
  /\ \E r \in Later \ Stored : archive' = [archive EXCEPT ![r[1]] = @ \cup {r[2]}]
  /\ UNCHANGED <<scan, pages, ticks, active, inspected, known, scanFaults>>

\* 600 s after the claim.  That a tick is still at work then is a fault.
LeaseEnds ==
  /\ scan.lease # None /\ scan' = [scan EXCEPT !.lease = None]
  /\ \/ ticks[scan.lease].pc \in {"idle", "claim"} /\ UNCHANGED scanFaults
     \/ ticks[scan.lease].pc \notin {"idle", "claim"} /\ ScanFault
  /\ UNCHANGED <<archive, pages, ticks, active, inspected, known>>

RetryDue ==
  /\ scan.retry /\ scan' = [scan EXCEPT !.retry = FALSE]
  /\ UNCHANGED <<archive, pages, ticks, active, inspected, known, scanFaults>>

-----------------------------------------------------------------------------
(* One tick                                                                *)

Go(w, t) == ticks' = [ticks EXCEPT ![w] = t]
\* update: a scan that was stopped or replaced is left alone.
Mine(old, id) == old.id = id /\ old.state # "STOPPED"
Updated(id, new) == IF Mine(scan, id) THEN [new EXCEPT !.id = scan.id, !.lease = scan.lease] ELSE scan

ReadScan(w) ==
  /\ w = active /\ ticks[w].pc = "idle" /\ Pending(scan) /\ ~scan.retry
  /\ Go(w, [pc |-> "claim", scan |-> scan])
  /\ UNCHANGED <<scan, archive, pages, active, inspected, known, scanFaults>>

Claimable(mine) ==
  /\ scan.id = mine.id /\ scan.state # "STOPPED" /\ scan.lease = None
  /\ <<scan.phase, scan.ns, scan.cursor>> = <<mine.phase, mine.ns, mine.cursor>>
\* replace with claim.  The flag it sets is kept when the write meets a conflict:
\* a tick whose first try came before that of another worker goes on with it.
Claim(w) ==
  LET mine == ticks[w].scan
      free == Claimable(mine)
  IN /\ ticks[w].pc = "claim"
     /\ scan' = IF free THEN [scan EXCEPT !.lease = w] ELSE scan
     /\ \E tried \in {FALSE, mine.lease = None /\ scan # mine} :
          Go(w, IF free \/ tried THEN [pc |-> "work", scan |-> mine] ELSE Idle)
     /\ UNCHANGED <<archive, pages, active, inspected, known, scanFaults>>

\* checks, repair and verify: independent steps whose outcome is recorded, none
\* of which can fail the scan.
Assessed(s) ==
  CASE s.phase = "checks" -> [s EXCEPT !.state = "SCANNING", !.phase = "inventory", !.retry = FALSE]
    [] s.phase = "repair" -> [s EXCEPT !.state = "VERIFYING", !.phase = "verify", !.retry = FALSE]
    [] s.phase = "verify" -> [s EXCEPT !.state = "FINISHED_WITH_FINDINGS", !.phase = "finished", !.retry = FALSE]
Assess(w) ==
  LET t == ticks[w] IN
  /\ t.pc = "work" /\ t.scan.phase # "inventory"
  /\ Go(w, [pc |-> "update", scan |-> t.scan, new |-> Assessed(t.scan), details |-> {}])
  /\ UNCHANGED <<scan, archive, pages, active, inspected, known, scanFaults>>

\* inventory_reads: the page after the cursor, as much of it as fits the time;
\* at least the first batch.
Page(s) ==
  LET after == {k \in archive[s.ns] : k > s.cursor}
  IN {k \in after : Cardinality({j \in after : j < k}) < PageSize}
Last(visited) == CHOOSE k \in visited : \A j \in visited : j <= k
Prefixes(names) == {p \in SUBSET names : /\ names # {} => p # {}
                                         /\ \A k \in p, j \in names : j < k => j \in p}

Advance(s, names, visited) ==
  LET finished == Cardinality(names) < PageSize /\ visited = names
  IN [ns |-> s.ns + (IF finished THEN 1 ELSE 0), cursor |-> IF finished THEN 0 ELSE Last(visited)]

\* The order of the writes: the findings of the page, then the cursor.

\* A plausible error: the cursor first.
CursorFirst(pc) == CASE pc = "work" -> "update" [] pc = "update" -> "details" [] pc = "details" -> "release"

Then(pc) == CASE pc = "work" -> "details" [] pc = "details" -> "update" [] pc = "update" -> "release"

Inventory(w) ==
  LET t == ticks[w]  s == t.scan  names == Page(s) IN
  /\ t.pc = "work" /\ s.phase = "inventory"
  /\ \E visited \in Prefixes(names) :
       LET at == Advance(s, names, visited)
           over == at.ns \notin Namespaces
           seen == {<<s.id, s.ns, k>> : k \in visited}
       IN /\ inspected' = IF s.id = scan.id THEN inspected \cup ({s.ns} \X visited) ELSE inspected
          /\ Go(w, [pc |-> Then("work"), scan |-> s,
                    details |-> {f \in seen : <<f[2], f[3]>> \in Broken},
                    new |-> [s EXCEPT !.ns = at.ns, !.cursor = at.cursor, !.retry = FALSE,
                                      !.phase = IF ~over THEN @ ELSE IF s.repair THEN "repair" ELSE "verify",
                                      !.state = IF over /\ s.repair THEN "REPAIRING" ELSE "SCANNING"]])
  /\ UNCHANGED <<scan, archive, pages, active, known, scanFaults>>

SaveDetails(w) ==
  /\ ticks[w].pc = "details"
  /\ pages' = pages \cup ticks[w].details
  /\ Go(w, [ticks[w] EXCEPT !.pc = Then("details")])
  /\ UNCHANGED <<scan, archive, active, inspected, known, scanFaults>>

Update(w) ==
  /\ ticks[w].pc = "update"
  /\ scan' = Updated(ticks[w].scan.id, ticks[w].new)
  /\ Go(w, [ticks[w] EXCEPT !.pc = Then("update")])
  /\ UNCHANGED <<archive, pages, active, inspected, known, scanFaults>>

\* A listing or a write fails: the cursor stays, the scan waits for 60 s.
Fail(w) ==
  /\ ticks[w].pc \in {"work", "details", "update"} /\ ScanFault
  /\ scan' = Updated(ticks[w].scan.id, [scan EXCEPT !.retry = TRUE])
  /\ Go(w, [ticks[w] EXCEPT !.pc = "release"])
  /\ UNCHANGED <<archive, pages, active, inspected, known>>

Release(w) ==
  /\ ticks[w].pc = "release"
  /\ scan' = IF scan.lease = w THEN [scan EXCEPT !.lease = None] ELSE scan
  /\ Go(w, Idle)
  /\ UNCHANGED <<archive, pages, active, inspected, known, scanFaults>>

\* The worker dies in its tick; the lease stays.
Die(w) ==
  /\ ticks[w].pc # "idle" /\ ScanFault
  /\ Go(w, Idle)
  /\ UNCHANGED <<scan, archive, pages, active, inspected, known>>

\* Another worker takes the lease of one that is late: its tick goes on, but it
\* starts no other.
TakeOver ==
  /\ ticks[active].pc # "idle"
  /\ active' \in {w \in Workers : w # active /\ active = First}
  /\ UNCHANGED <<scan, archive, pages, ticks, inspected, known, scanFaults>>

Ticking(w) ==
  \/ ReadScan(w) \/ Claim(w) \/ Assess(w) \/ Inventory(w)
  \/ SaveDetails(w) \/ Update(w) \/ Release(w)

DoctorNext ==
  \/ StartScan \/ StopScan \/ AddRecord \/ LeaseEnds \/ RetryDue \/ TakeOver
  \/ \E w \in Workers : Ticking(w) \/ Fail(w) \/ Die(w)

DoctorSpec == DoctorInit /\ [][DoctorNext]_doctorVars

-----------------------------------------------------------------------------
(* Properties                                                              *)

\* A scan that says its traversal is complete has looked at every record that
\* was stored when it began: the cursor never passes an uninspected record,
\* whatever failed, died, was stopped and started again or outlived its lease.
EveryRecordInspected ==
  scan.phase \in {"repair", "verify", "finished"} => known \subseteq inspected

\* Behind the cursor no finding is lost: the page of findings is written before
\* the cursor moves over its records, and a repeated page adds to it.
Behind(n, k) == n < scan.ns \/ (n = scan.ns /\ k <= scan.cursor)
FindingsKept ==
  \A r \in known \cap Broken : Behind(r[1], r[2]) => <<scan.id, r[1], r[2]>> \in pages

\* A scan keeps up with what is stored: both of the above.
ScanKeepsUp == EveryRecordInspected /\ FindingsKept

\* A scan that was started ends or is stopped: a step that failed is retried, a
\* lease that was left behind runs out.
ScanEnds == \A i \in 1 .. MaxScans : scan.id = i /\ Pending(scan) ~> scan.id # i \/ ~Pending(scan)

\* A finished scan stays as it is until another is started.
FinishedStays == [][scan.phase = "finished" => scan'.phase = "finished" \/ scan'.id # scan.id]_doctorVars

\* Two ticks work on a scan only when one of them has outlived its lease.
OneTick ==
  \A v, w \in Workers :
    /\ v # w /\ scan.lease = v /\ ticks[v].pc = "work"
    => ~(ticks[w].pc = "work" /\ ticks[w].scan = ticks[v].scan)
=============================================================================
