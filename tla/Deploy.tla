-------------------------------- MODULE Deploy --------------------------------
(***************************************************************************)
(* personal-trading-phase1/deploy/auto_update.py: the release manager of   *)
(* the machine.  A timer starts it; it takes the newest revision of the    *)
(* main branch whose checks have passed, unpacks and builds it, dumps the  *)
(* database, starts its containers, waits until they answer, and only then *)
(* moves the link and records the revision.  When they do not answer it    *)
(* brings the recorded release up again.  A lock keeps runs apart; any     *)
(* command may fail, and systemd ends a run after 1200 s wherever it is.   *)
(***************************************************************************)
EXTENDS Naturals

CONSTANTS
  Revisions,      \* 1 .. n, in the order of their commits
  WithLive,       \* those whose compose file has the live service
  Broken,         \* those whose containers never answer
  NoRelease,
  \* bound of the model, not of the code
  MaxRunFaults

ASSUME DeployAssumption == WithLive \subseteq Revisions /\ Broken \subseteq Revisions
ASSUME FirstRevision == 1 \in Revisions

VARIABLES
  head,           \* newest revision of main
  checked,        \* revisions whose integration check has succeeded
  tree,           \* [Revisions -> "none", "part" or "whole"]: the unpacked release
  link,        \* the release the link points to, or NoRelease
  recorded,       \* release.json: sha, or NoRelease
  containers,     \* [Services -> <<release, image>> that runs, or NoRelease]
  schema,         \* the newest revision that has started on the database
  dumps,          \* the schemas that have been dumped
  run,            \* the run in progress
  outcome,        \* what the last run came to
  runFaults

deployVars == <<head, checked, tree, link, recorded, containers, schema, dumps, run, outcome, runFaults>>

Services == {"app", "live"}       \* app: api, worker and dispatcher
NoRun == [pc |-> "idle"]
RunFault == runFaults < MaxRunFaults /\ runFaults' = runFaults + 1

\* app_services: what the compose file of a release defines.
AppServices(release) == IF release \in WithLive THEN Services ELSE {"app"}

\* A new machine, or one that an earlier manager has left with revision 1.
DeployInit ==
  /\ head = 1 /\ checked = {} /\ dumps = {}
  /\ \/ /\ tree = [r \in Revisions |-> "none"] /\ link = NoRelease /\ recorded = NoRelease
        /\ containers = [s \in Services |-> NoRelease] /\ schema = 0
     \/ /\ tree = [r \in Revisions |-> IF r = 1 THEN "whole" ELSE "none"] /\ link = 1 /\ recorded = 1
        /\ containers = [s \in Services |-> IF s \in AppServices(1) THEN <<1, 1>> ELSE NoRelease] /\ schema = 1
  /\ run = NoRun /\ outcome = "none" /\ runFaults = 0

-----------------------------------------------------------------------------
(* The repository and its checks                                           *)

Commit ==
  /\ head + 1 \in Revisions /\ head' = head + 1
  /\ UNCHANGED <<checked, tree, link, recorded, containers, schema, dumps, run, outcome, runFaults>>
Verified ==
  /\ head \notin checked /\ checked' = checked \cup {head}
  /\ UNCHANGED <<head, tree, link, recorded, containers, schema, dumps, run, outcome, runFaults>>

-----------------------------------------------------------------------------
(* A run                                                                   *)

RunOnto(pc) == run' = [run EXCEPT !.pc = pc]
End(result) == run' = NoRun /\ outcome' = result

\* A command before the containers are touched fails and the run ends.
Fails(pc) ==
  /\ run.pc = pc /\ End("failed") /\ RunFault
  /\ UNCHANGED <<head, checked, tree, link, recorded, containers, schema, dumps>>

\* main: the newest revision, unless it is deployed or not yet verified.
Begin ==
  /\ run.pc = "idle" /\ recorded # head /\ head \in checked
  /\ run' = [pc |-> "extract", candidate |-> head, previous |-> link, sha |-> recorded]
  /\ UNCHANGED <<head, checked, tree, link, recorded, containers, schema, dumps, outcome, runFaults>>

\* git archive | tar, unless the directory is there.

\* A plausible error: a directory that an earlier run has left is an error.
ExtractOnce ==
  /\ \/ /\ run.pc = "extract" /\ tree[run.candidate] = "none"
        /\ tree' = [tree EXCEPT ![run.candidate] = "part"] /\ RunOnto("unpack") /\ UNCHANGED outcome
     \/ /\ run.pc = "unpack" /\ tree' = [tree EXCEPT ![run.candidate] = "whole"] /\ RunOnto("build") /\ UNCHANGED outcome
     \/ run.pc = "extract" /\ tree[run.candidate] # "none" /\ End("failed") /\ UNCHANGED tree
  /\ UNCHANGED <<head, checked, link, recorded, containers, schema, dumps, runFaults>>

Extract ==
  /\ \/ /\ run.pc = "extract" /\ tree[run.candidate] = "none"
        /\ tree' = [tree EXCEPT ![run.candidate] = "part"] /\ RunOnto("unpack")
     \/ run.pc = "unpack" /\ tree' = [tree EXCEPT ![run.candidate] = "whole"] /\ RunOnto("build")
     \/ run.pc = "extract" /\ tree[run.candidate] # "none" /\ RunOnto("build") /\ UNCHANGED tree
  /\ UNCHANGED <<head, checked, link, recorded, containers, schema, dumps, outcome, runFaults>>

\* The configuration is read, the live service required, the image built; a half
\* release fails in one of them or is built as it is.
BuildImage ==
  /\ run.pc = "build"
  /\ \/ (tree[run.candidate] = "part" \/ run.candidate \notin WithLive) /\ End("failed")
     \/ /\ run.candidate \in WithLive /\ UNCHANGED outcome
        /\ RunOnto(IF run.previous # NoRelease /\ run.sha # NoRelease THEN "dump" ELSE "up")
  /\ UNCHANGED <<head, checked, tree, link, recorded, containers, schema, dumps, runFaults>>

\* pg_dump through the containers of the recorded release.
Dump ==
  /\ run.pc = "dump" /\ dumps' = dumps \cup {schema} /\ RunOnto("up")
  /\ UNCHANGED <<head, checked, tree, link, recorded, containers, schema, outcome, runFaults>>

\* compose up: every service of a release, on an image; its start migrates.
Started(release, image) == [s \in Services |-> IF s \in AppServices(release) THEN <<release, image>> ELSE containers[s]]
Newer(image) == IF image > schema THEN image ELSE schema

Up ==
  /\ run.pc = "up"
  /\ \/ containers' = Started(run.candidate, run.candidate) /\ RunOnto("await") /\ UNCHANGED runFaults
     \/ /\ RunFault /\ RunOnto("restore")          \* up fails, with some of them started
        /\ \E some \in SUBSET Services :
             containers' = [s \in Services |-> IF s \in some THEN <<run.candidate, run.candidate>> ELSE containers[s]]
  /\ schema' = Newer(run.candidate)
  /\ UNCHANGED <<head, checked, tree, link, recorded, dumps, outcome>>

\* healthy: every container of the release runs its image and answers.
Healthy(release, image) ==
  image \notin Broken /\ \A s \in AppServices(release) : containers[s] # NoRelease /\ containers[s][2] = image

Await ==
  /\ run.pc = "await"
  /\ \/ Healthy(run.candidate, run.candidate) /\ RunOnto("link") /\ UNCHANGED runFaults
     \/ ~Healthy(run.candidate, run.candidate) /\ RunOnto("restore") /\ UNCHANGED runFaults
     \/ RunFault /\ RunOnto("restore")             \* not within its sixty attempts
  /\ UNCHANGED <<head, checked, tree, link, recorded, containers, schema, dumps, outcome>>

\* The rollback: services the candidate has brought are stopped, the recorded
\* release is started; without one the failed candidate is left as it is.

\* A plausible error: the recorded release is started over the candidate.
NoneIntroduced(candidate, previous) == {}

Introduced(candidate, previous) == AppServices(candidate) \ AppServices(previous)

Restore ==
  /\ run.pc = "restore"
  /\ IF run.previous = NoRelease \/ run.sha = NoRelease THEN End("failed") /\ UNCHANGED containers
     ELSE /\ containers' = [s \in Services |-> IF s \in Introduced(run.candidate, run.previous) THEN NoRelease
                                               ELSE Started(run.previous, run.sha)[s]]
          /\ RunOnto("settle") /\ UNCHANGED outcome
  /\ UNCHANGED <<head, checked, tree, link, recorded, schema, dumps, runFaults>>

Settle ==
  /\ run.pc = "settle"
  /\ \/ Healthy(run.previous, run.sha) /\ End("restored") /\ UNCHANGED runFaults
     \/ RunFault /\ End("review")
  /\ UNCHANGED <<head, checked, tree, link, recorded, containers, schema, dumps>>

\* The link is replaced, then the revision is written.
Link ==
  /\ run.pc = "link" /\ link' = run.candidate /\ RunOnto("record")
  /\ UNCHANGED <<head, checked, tree, recorded, containers, schema, dumps, outcome, runFaults>>
Record ==
  /\ run.pc = "record" /\ recorded' = run.candidate /\ End("deployed")
  /\ UNCHANGED <<head, checked, tree, link, containers, schema, dumps, runFaults>>

\* systemd's time limit, the machine, or a command of the rollback.
RunKilled ==
  /\ run.pc # "idle" /\ RunFault /\ End("killed")
  /\ UNCHANGED <<head, checked, tree, link, recorded, containers, schema, dumps>>

RunNext == Begin \/ Extract \/ BuildImage \/ Dump \/ Up \/ Await \/ Restore \/ Settle \/ Link \/ Record
DeployNext == Commit \/ Verified \/ RunNext \/ Fails("unpack") \/ Fails("dump") \/ RunKilled

\* The timer starts a run five minutes after the last one.
DeploySpec == DeployInit /\ [][DeployNext]_deployVars /\ WF_deployVars(RunNext)

-----------------------------------------------------------------------------
(* Properties                                                              *)

\* When a run says that a release is deployed or restored, the recorded image
\* runs, every service of the release in place is up on it, and none that the
\* release does not have: a rollback leaves no live process of the candidate, over
\* any sequence of failed, killed and repeated runs.
RunsWhatItRecords ==
  outcome \in {"deployed", "restored"} /\ run.pc = "idle" =>
    \A s \in Services :
      containers[s] = IF s \in AppServices(link) THEN <<link, recorded>> ELSE NoRelease

\* A database that a recorded release serves is dumped, as it is, before a newer
\* revision starts on it, whatever was started and killed before.
DumpedFirst == [][schema' # schema /\ recorded # NoRelease => schema \in dumps]_deployVars

\* The newest revision, verified and sound, is deployed in the end, whatever failed
\* on the way; a release that a killed run has unpacked half is the exception.
HeadDeployed ==
  <>[](recorded = head \/ head \notin checked \cap (WithLive \ Broken) \/ tree[head] = "part")

\* Read beside them: the containers of a release run its own image.
OwnImage == \A s \in Services : containers[s] # NoRelease => containers[s][1] = containers[s][2]

\* Read beside them: no revision starts on a database that was never dumped.
NeverUndumped == [][schema' # schema /\ schema # 0 => schema \in dumps]_deployVars

\* Read beside them: a verified, sound revision is deployed in the end.
AlwaysDeployed == <>[](recorded = head \/ head \notin checked \cap (WithLive \ Broken))
=============================================================================
