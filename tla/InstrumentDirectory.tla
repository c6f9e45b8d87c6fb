------------------------- MODULE InstrumentDirectory -------------------------
(***************************************************************************)
(* live-app/collection.py (the catalogue) and instrument_directory.py: the  *)
(* whole instrument master, and what an operator picks from it.            *)
(*                                                                         *)
(* A refresh downloads the master under the collector's lease and stores    *)
(* it page by page.  The server keeps one search index, a file named after  *)
(* the master, built by whichever request needs it first and replaced when  *)
(* a newer master is published.  A request opens the index, reads, and may  *)
(* go on to the provider.  Requests run side by side in threads.           *)
(*                                                                         *)
(* A key of the master is reused: the same exchange, id and line may be     *)
(* another contract in a later master.                                     *)
(***************************************************************************)
EXTENDS Naturals, FiniteSets, Sequences

CONSTANTS
  Masters,        \* the masters the provider publishes: the lines [id, contract, mapped]
  Refreshers,     \* who refreshes: maintenance, an admin
  Requests,       \* requests that run side by side
  Pages,          \* pages of a master
  Nothing,
  \* bounds of the model, not of the code
  MaxAsks, MaxFaults

ASSUME MastersAssumption ==
  Masters # <<>> /\ \A m \in DOMAIN Masters : Masters[m] # <<>>

VARIABLES
  published,      \* the master the provider has now
  stored,         \* documents below catalogue/<sha>
  current,        \* catalogue/current
  lease,          \* control/lease
  refresh,        \* [Refreshers -> the refresh in progress]
  files,          \* indexes in the temporary directory
  lock,           \* InstrumentDirectory.lock
  request,        \* [Requests -> the request in progress]
  shown,          \* history: <<master, key, contract>> an answer has shown
  fetched,        \* history: [picked, item] of the records saved
  overran,        \* history: a holder of the lease has outlived it
  asks, faults

catalogueVars == <<published, stored, current, lease, refresh, overran>>
serverVars == <<files, lock, request, shown, fetched, asks>>
directoryVars == <<catalogueVars, serverVars, faults>>

Fault == faults < MaxFaults /\ faults' = faults + 1
NoRefresh == [pc |-> "idle", sha |-> 0]
Served == [pc |-> "none"]

DirectoryInit ==
  /\ published = 1 /\ stored = {} /\ current = Nothing /\ lease = Nothing
  /\ refresh = [r \in Refreshers |-> NoRefresh]
  /\ files = {} /\ lock = Nothing /\ request = [r \in Requests |-> Served]
  /\ shown = {} /\ fetched = {} /\ overran = FALSE /\ asks = 0 /\ faults = 0

-----------------------------------------------------------------------------
(* The catalogue                                                           *)

\* parse_catalogue: every line becomes an item under its id and line; a second
\* line of an id, and one without an API segment, is kept for review only.
Items(sha) ==
  LET lines == Masters[sha]
      first(n) == \A m \in 1 .. n - 1 : lines[m].id # lines[n].id
  IN [key \in {<<lines[n].id, n>> : n \in DOMAIN lines} |->
        [contract |-> lines[key[2]].contract, reason |-> ~lines[key[2]].mapped \/ ~first(key[2])]]

\* acquire: a lease of 600 s; another request is refused meanwhile.
Free == lease = Nothing

Documents(sha) == {<<"source", sha>>, <<"manifest", sha>>} \cup {<<"page", sha, p>> : p \in Pages}

\* The order of a refresh: the source, all the pages, the manifest, the pointer.

\* A plausible error: the pointer is moved before the pages are stored.
PointerFirst(pc) ==
  CASE pc = "source" -> "current" [] pc = "current" -> "pages" [] pc = "pages" -> "manifest" [] pc = "manifest" -> "release"

Following(pc) ==
  CASE pc = "source" -> "pages" [] pc = "pages" -> "manifest" [] pc = "manifest" -> "current" [] pc = "current" -> "release"

Downloading(r) ==
  /\ refresh[r].pc = "idle" /\ Free
  /\ lease' = r
  /\ refresh' = [refresh EXCEPT ![r] = [pc |-> "source", sha |-> published]]
  /\ UNCHANGED <<published, stored, current, overran, serverVars, faults>>

\* install_once of every document, the pages by eight threads in any order.
Saving(r) ==
  LET sha == refresh[r].sha
      onto(pc) == refresh' = [refresh EXCEPT ![r].pc = pc]
      rest == {p \in Pages : <<"page", sha, p>> \notin stored}
  IN /\ CASE refresh[r].pc = "source" ->
               stored' = stored \cup {<<"source", sha>>} /\ onto(Following("source")) /\ UNCHANGED <<current, lease>>
          [] refresh[r].pc = "pages" ->
               /\ \/ \E p \in rest : stored' = stored \cup {<<"page", sha, p>>} /\ UNCHANGED refresh
                  \/ rest = {} /\ onto(Following("pages")) /\ UNCHANGED stored
               /\ UNCHANGED <<current, lease>>
          [] refresh[r].pc = "manifest" ->
               stored' = stored \cup {<<"manifest", sha>>} /\ onto(Following("manifest")) /\ UNCHANGED <<current, lease>>
          [] refresh[r].pc = "current" ->
               current' = sha /\ onto(Following("current")) /\ UNCHANGED <<stored, lease>>
          [] refresh[r].pc = "release" ->
               lease' = (IF lease = r THEN Nothing ELSE lease) /\ onto("idle") /\ UNCHANGED <<stored, current>>
          [] OTHER -> FALSE
     /\ UNCHANGED <<published, overran, serverVars, faults>>

\* The download or a write fails, and the lease is given back; or the process
\* dies with it.
RefreshFails(r) ==
  /\ refresh[r].pc \notin {"idle", "release"} /\ Fault
  /\ \/ refresh' = [refresh EXCEPT ![r].pc = "release"]
     \/ refresh' = [refresh EXCEPT ![r] = NoRefresh]
  /\ UNCHANGED <<published, stored, current, lease, overran, serverVars>>

NewMaster ==
  /\ published < Len(Masters) /\ published' = published + 1
  /\ UNCHANGED <<stored, current, lease, refresh, overran, serverVars, faults>>

\* 600 s later, whether its holder is done or not.
Holding(h) == IF h \in Refreshers THEN refresh[h].pc # "idle" ELSE request[h].pc \in {"call", "save", "drop"}
LeaseRunsOut ==
  /\ lease # Nothing /\ lease' = Nothing
  /\ IF Holding(lease) THEN Fault /\ overran' = TRUE ELSE UNCHANGED <<overran, faults>>
  /\ UNCHANGED <<published, stored, current, refresh, serverVars>>

-----------------------------------------------------------------------------
(* The search index                                                        *)

Proceed(r, q) == request' = [request EXCEPT ![r] = q]
Onto(r, pc) == request' = [request EXCEPT ![r].pc = pc]
InServer == UNCHANGED <<catalogueVars, shown, fetched, asks, faults>>

\* A search, or the quote or history of something an answer has shown.
Ask(r) ==
  /\ request[r].pc = "none" /\ asks < MaxAsks /\ asks' = asks + 1
  /\ \E picked \in shown \cup {Nothing} : Proceed(r, [pc |-> "index", picked |-> picked, cat |-> Nothing, tries |-> 2])
  /\ UNCHANGED <<catalogueVars, files, lock, shown, fetched, faults>>

\* index: the catalogue is read, then its file is looked for, without the lock.
ReadCatalogue(r) ==
  /\ request[r].pc = "index"
  /\ IF current = Nothing THEN Proceed(r, Served)     \* 409
     ELSE Proceed(r, [request[r] EXCEPT !.cat = current, !.pc = IF current \in files THEN "open" ELSE "build"])
  /\ UNCHANGED <<files, lock>> /\ InServer

\* The lock of the directory, for 30 s; then the file may be there already.
TakeLock(r) ==
  /\ request[r].pc = "build"
  /\ IF lock = Nothing
     THEN IF request[r].cat \in files THEN Onto(r, "open") /\ UNCHANGED lock
          ELSE Onto(r, "building") /\ lock' = r
     ELSE Proceed(r, Served) /\ UNCHANGED lock     \* 503
  /\ UNCHANGED files /\ InServer

\* The index is built aside and moved into place; the others are removed.
Build(r) ==
  LET sha == request[r].cat IN
  /\ request[r].pc = "building"
  /\ \/ Documents(sha) \subseteq stored /\ files' = {sha} /\ Onto(r, "open") /\ UNCHANGED faults
     \/ files' = files /\ Proceed(r, Served) /\ IF Documents(sha) \subseteq stored THEN Fault ELSE UNCHANGED faults
  /\ lock' = Nothing
  /\ UNCHANGED <<catalogueVars, shown, fetched, asks>>

\* database: opened under the lock; a file that is gone means looking again, once.
Open(r) ==
  /\ request[r].pc = "open" /\ lock = Nothing
  /\ IF request[r].cat \in files THEN Onto(r, "read")
     ELSE IF request[r].tries > 1 THEN Proceed(r, [request[r] EXCEPT !.pc = "index", !.tries = @ - 1])
     ELSE Proceed(r, Served)                       \* 503
  /\ UNCHANGED <<files, lock>> /\ InServer

-----------------------------------------------------------------------------
(* Answers                                                                 *)

\* search and overview: contracts under the checksum of the master they are of.
Answer(r) ==
  LET sha == request[r].cat IN
  /\ request[r].pc = "read" /\ request[r].picked = Nothing
  /\ \E key \in DOMAIN Items(sha) : shown' = shown \cup {<<sha, key, Items(sha)[key].contract>>}
  /\ Proceed(r, Served)
  /\ UNCHANGED <<catalogueVars, files, lock, fetched, asks, faults>>

\* resolve: the selection is of the master that is current now; an item kept for
\* review is refused, and a quote also from an old master or past the expiry.
SameMaster(q) == q.picked[1] = q.cat
Resolve(r) ==
  LET q == request[r]
      key == q.picked[2]
      usable == SameMaster(q) /\ key \in DOMAIN Items(q.cat) /\ ~Items(q.cat)[key].reason
  IN
  /\ q.pc = "read" /\ q.picked # Nothing
  /\ \/ usable /\ Proceed(r, [pc |-> "acquire", picked |-> q.picked, item |-> Items(q.cat)[key].contract])
     \/ Proceed(r, Served)                         \* 409, 404
  /\ UNCHANGED <<files, lock>> /\ InServer

\* quote and history: the lease, the provider, the record, the lease again.
Acquire(r) ==
  /\ request[r].pc = "acquire"
  /\ IF Free THEN lease' = r /\ Onto(r, "call") ELSE Proceed(r, Served) /\ UNCHANGED lease
  /\ UNCHANGED <<published, stored, current, refresh, overran, files, lock, shown, fetched, asks, faults>>
FetchQuote(r) ==
  /\ request[r].pc = "call"
  /\ Onto(r, "save") \/ Onto(r, "drop")
  /\ UNCHANGED <<files, lock>> /\ InServer
Save(r) ==
  /\ request[r].pc = "save"
  /\ fetched' = fetched \cup {[picked |-> request[r].picked, item |-> request[r].item]}
  /\ Onto(r, "drop")
  /\ UNCHANGED <<catalogueVars, files, lock, shown, asks, faults>>
Drop(r) ==
  /\ request[r].pc = "drop"
  /\ lease' = IF lease = r THEN Nothing ELSE lease
  /\ Proceed(r, Served)
  /\ UNCHANGED <<published, stored, current, refresh, overran, files, lock, shown, fetched, asks, faults>>

Serving(r) ==
  \/ ReadCatalogue(r) \/ TakeLock(r) \/ Build(r) \/ Open(r) \/ Answer(r) \/ Resolve(r)
  \/ Acquire(r) \/ FetchQuote(r) \/ Save(r) \/ Drop(r)
DirectoryNext ==
  \/ NewMaster \/ LeaseRunsOut
  \/ \E r \in Refreshers : Downloading(r) \/ Saving(r) \/ RefreshFails(r)
  \/ \E r \in Requests : Ask(r) \/ Serving(r)

DirectorySpec == DirectoryInit /\ [][DirectoryNext]_directoryVars

-----------------------------------------------------------------------------
(* Properties                                                              *)

\* What is fetched for a selection is the contract the operator was shown, although
\* keys and ids are reused and masters replaced between the answer, the pick and
\* the request, and the index is rebuilt under the requests that use it.
FetchedAsShown == \A f \in fetched : f.picked[3] = f.item

\* The catalogue every job and index starts from is complete in the store,
\* wherever a refresh failed or died, and whoever refreshed beside it.
CurrentIsComplete == current # Nothing => Documents(current) \subseteq stored

\* What the directory shows is whole, and what it fetches is what it has shown.
DirectorySound == FetchedAsShown /\ CurrentIsComplete

\* The catalogue never goes back to an older master while every refresh ends
\* within its lease.
NeverBack == [][~overran' /\ current # Nothing => current' >= current]_directoryVars
=============================================================================
