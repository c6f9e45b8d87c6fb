------------------------------- MODULE Handover -------------------------------
(***************************************************************************)
(* personal-trading-phase1/deploy/merge_cloudshell.py: collection moves from *)
(* the old workers in the cloud to the live process of the new backend,     *)
(* while both exist.                                                       *)
(*                                                                         *)
(* The script writes a marker into the old store that every old process     *)
(* reads before it collects, stops the old schedule and the executions it   *)
(* finds, waits for requests in flight, copies what was written, lets the   *)
(* new process start, moves the public address and writes the final marker. *)
(* Any command may fail, with or without its effect; a failure rolls back   *)
(* what the script knows it has done.  The script may also be killed.       *)
(* How the archive is copied is ArchiveMirror's; here it is the number of   *)
(* writes that have been copied.                                           *)
(***************************************************************************)
EXTENDS Naturals

CONSTANTS
  Executions,     \* executions of the old collector's job
  Servers,        \* requests that the old server handles
  Unbounded,      \* those of them that no timeout ends and no second look at the marker
  ReleaseAnyTime, \* BOOLEAN: a new release may arrive while the script runs
  LostReplies,    \* commands that may take effect and still fail
  NoInventory,
  \* bounds of the model, not of the code
  MaxWrites, MaxCommandFaults, MaxKills, MaxRuns

\* An execution of the job and a request of the service are different things.
ASSUME ActorsAreDistinct == Executions \cap Servers = {}

VARIABLES
  marker, generation,   \* control/migration and its generation
  schedule,             \* the scheduler of the old job
  phase,                \* [Executions \cup Servers -> where it is]
  writes,               \* what the old side has written to the bucket
  imported,             \* how much of it the new database holds
  owner,                \* collection-owner of the new database
  container, live,      \* the live container; its process holds the sockets
  traffic,              \* which backend the public address reaches
  template,             \* the service template: plain or private
  script,               \* the handover in progress
  commandFaults, kills, runs

world == <<marker, generation, schedule, phase, writes, imported, owner, container, live, traffic, template>>
oldSide == <<schedule, phase, writes>>
newSide == <<imported, owner, container, live>>
gateway == <<traffic, template>>
fence == <<marker, generation>>
budget == <<kills, runs>>
handoverVars == <<world, script, commandFaults, budget>>

Actors == Executions \cup Servers
Migrated == marker \in {"FENCED", "NEW_BACKEND"}
NoScript == [pc |-> "idle"]

HandoverInit ==
  /\ marker = "LEGACY" /\ generation = 0 /\ schedule = "ENABLED"
  /\ phase = [a \in Actors |-> "none"] /\ writes = 0 /\ imported = 0
  /\ owner = "HOLD" /\ container = "up" /\ live = FALSE
  /\ traffic = "old" /\ template = "plain"
  /\ script = NoScript /\ commandFaults = 0 /\ kills = 0 /\ runs = 0

-----------------------------------------------------------------------------
(* The old side                                                            *)

At(a, p) ==
  /\ phase' = [phase EXCEPT ![a] = p]
  /\ UNCHANGED <<fence, schedule, newSide, gateway, script, commandFaults, budget>>

\* The scheduler starts an execution; so does launch_worker of a request that
\* read the marker before the fence.
Launch(e) == phase[e] = "none" /\ schedule = "ENABLED" /\ At(e, "created") /\ UNCHANGED writes
Dispatch(s, e) == phase[s] = "running" /\ phase[e] = "none" /\ At(e, "created") /\ UNCHANGED writes

\* worker.main: the marker, once, before the collector starts.
Main(e) == phase[e] = "created" /\ At(e, IF Migrated THEN "none" ELSE "running") /\ UNCHANGED writes

\* server.boundary: the marker before a request is handled.
Handle(s) == phase[s] = "none" /\ ~Migrated /\ At(s, "running") /\ UNCHANGED writes

\* Dhan._request: the marker again before every call; the master download has none.
CallProvider(a) == /\ phase[a] = "running" /\ writes < MaxWrites /\ (~Migrated \/ a \in Unbounded)
           /\ At(a, "calling") /\ UNCHANGED writes

\* The answer is written to the store, or the call has failed.
Return(a) == /\ phase[a] = "calling" /\ At(a, "running")
             /\ writes' \in {writes, writes + 1}

\* A request is answered, a worker has nothing left to do or was cancelled.
Finish(a) == phase[a] \in {"running", "cancelled"} /\ At(a, "none") /\ UNCHANGED writes

OldNext ==
  \/ \E e \in Executions : Launch(e) \/ Main(e) \/ \E s \in Servers : Dispatch(s, e)
  \/ \E s \in Servers : Handle(s)
  \/ \E a \in Actors : CallProvider(a) \/ Return(a) \/ Finish(a)

-----------------------------------------------------------------------------
(* The new side                                                            *)

\* live_runtime.main: every 30 s, and every 5 s while it owns the sockets.
LiveNext ==
  /\ \/ container = "up" /\ owner = "NEW_BACKEND" /\ ~live /\ live' = TRUE
     \/ live /\ owner # "NEW_BACKEND" /\ live' = FALSE
  /\ UNCHANGED <<fence, oldSide, imported, owner, container, gateway, script, commandFaults, budget>>

\* A new release, looked for every five minutes, starts every container of the
\* compose file.  One that arrives during a handover is a choice of the model.
Release ==
  /\ container = "down" /\ (ReleaseAnyTime \/ script.pc \in {"idle", "failed", "stuck", "killed"}) /\ container' = "up"
  /\ UNCHANGED <<fence, oldSide, imported, owner, live, gateway, script, commandFaults, budget>>

-----------------------------------------------------------------------------
(* The script                                                              *)

\* The commands in their order, and those of the rollback in theirs.
After(pc) ==
  CASE pc = "prepare" -> "first" [] pc = "first" -> "fence" [] pc = "fence" -> "pause" [] pc = "pause" -> "cancel"
    [] pc = "cancel" -> "confirm" [] pc = "confirm" -> "wait" [] pc = "wait" -> "inventory"
    [] pc = "inventory" -> "copy" [] pc = "copy" -> "compare" [] pc = "compare" -> "activate"
    [] pc = "activate" -> "start" [] pc = "start" -> "verify" [] pc = "verify" -> "promote"
    [] pc = "promote" -> "finish" [] pc = "finish" -> "done"

\* A plausible error: the old collector is restored before the new one is stopped.
OldFirst(pc) ==
  CASE pc = "traffic" -> "restore" [] pc = "restore" -> "resume" [] pc = "resume" -> "execute"
    [] pc = "execute" -> "stop" [] pc = "stop" -> "deactivate" [] pc = "deactivate" -> "failed"

Undo(pc) ==
  CASE pc = "traffic" -> "stop" [] pc = "stop" -> "deactivate" [] pc = "deactivate" -> "restore"
    [] pc = "restore" -> "resume" [] pc = "resume" -> "execute" [] pc = "execute" -> "failed"

ScriptOnto(pc) == script' = [script EXCEPT !.pc = pc]
CommandFault == commandFaults < MaxCommandFaults /\ commandFaults' = commandFaults + 1

\* A command has its effect and the script goes on, noting what it has done; or it
\* fails, before or after its effect, and the rollback begins.
Command(pc, effect, noted) ==
  /\ script.pc = pc /\ UNCHANGED budget
  /\ \/ effect /\ script' = [noted EXCEPT !.pc = After(pc)] /\ UNCHANGED commandFaults
     \/ CommandFault /\ ScriptOnto("traffic") /\ UNCHANGED world
     \/ pc \in LostReplies /\ CommandFault /\ effect /\ ScriptOnto("traffic")

\* A command of the rollback: when it fails the script ends with it.
Undoing(pc, needed, effect) ==
  /\ script.pc = pc /\ UNCHANGED budget
  /\ \/ ~needed /\ ScriptOnto(Undo(pc)) /\ UNCHANGED <<world, commandFaults>>
     \/ needed /\ effect /\ ScriptOnto(Undo(pc)) /\ UNCHANGED commandFaults
     \/ needed /\ CommandFault /\ ScriptOnto("stuck") /\ UNCHANGED world

\* main reads the marker: handed over already, or an earlier run was interrupted.
Start ==
  /\ script.pc \in {"idle", "failed", "stuck", "killed"} /\ ~Migrated /\ runs < MaxRuns
  /\ runs' = runs + 1
  /\ script' = [pc |-> "prepare", old |-> marker, generation |-> generation, before |-> NoInventory, paused |-> FALSE,
                fenced |-> FALSE, active |-> FALSE, promoted |-> FALSE, changed |-> FALSE, reused |-> template = "private"]
  /\ UNCHANGED <<world, commandFaults, kills>>

\* The release is brought up and a candidate without traffic gets the private network.
Prepare ==
  Command("prepare",
    template' = "private" /\ container' = "up"
      /\ UNCHANGED <<fence, oldSide, imported, owner, live, traffic>>,
    [script EXCEPT !.changed = TRUE])

\* The long first copy, while the old side goes on.
First == Command("first", imported' = writes /\ UNCHANGED <<fence, oldSide, owner, container, live, gateway>>, script)

\* set_fence: only over the generation that was read.
Write(value) ==
  /\ generation = script.generation
  /\ marker' = value /\ generation' = generation + 1 /\ UNCHANGED <<oldSide, newSide, gateway>>
FenceOff ==
  Command("fence", Write("FENCED"), [script EXCEPT !.fenced = TRUE, !.generation = generation + 1])

Pause ==
  Command("pause",
    schedule' = "PAUSED" /\ UNCHANGED <<fence, phase, writes, newSide, gateway>>,
    [script EXCEPT !.paused = schedule = "ENABLED"])

\* The executions that are listed now are cancelled, in a while.
Cancel ==
  Command("cancel",
    phase' = [a \in Actors |-> IF a \in Executions /\ phase[a] # "none" THEN "cancelled" ELSE phase[a]]
      /\ UNCHANGED <<fence, schedule, writes, newSide, gateway>>,
    script)
Confirm == Command("confirm", (\A e \in Executions : phase[e] = "none") /\ UNCHANGED world, script)

\* Two minutes: every call has a timeout of 60 s, its write a margin.
Wait == Command("wait", (\A s \in Servers \ Unbounded : phase[s] # "calling") /\ UNCHANGED world, script)

\* mirror_and_import(quiescent): an inventory, the copy, the inventory again.
Inventory == Command("inventory", UNCHANGED world, [script EXCEPT !.before = writes])
Copy == Command("copy", imported' = writes /\ UNCHANGED <<fence, oldSide, owner, container, live, gateway>>, script)
Compare ==
  IF script.pc = "compare" /\ writes # script.before
  THEN ScriptOnto("traffic") /\ UNCHANGED <<world, commandFaults, budget>>      \* SOURCE_CHANGED_DURING_FINAL_IMPORT
  ELSE Command("compare", UNCHANGED world, script)

Activate ==
  Command("activate",
    owner' = "NEW_BACKEND" /\ UNCHANGED <<fence, oldSide, imported, container, live, gateway>>,
    [script EXCEPT !.active = TRUE])
StartLive ==
  Command("start", container' = "up" /\ UNCHANGED <<fence, oldSide, imported, owner, live, gateway>>, script)
VerifyLive == Command("verify", live /\ UNCHANGED world, script)
Promote ==
  Command("promote",
    traffic' = "new" /\ UNCHANGED <<fence, oldSide, newSide, template>>,
    [script EXCEPT !.promoted = TRUE])
FinishUp == Command("finish", Write("NEW_BACKEND"), script)

\* The rollback.
RollBack ==
  \/ Undoing("traffic", script.promoted \/ script.changed,
       /\ traffic' = (IF script.promoted THEN "old" ELSE traffic)
       /\ template' = (IF script.changed /\ ~script.reused THEN "plain" ELSE template)
       /\ UNCHANGED <<fence, oldSide, newSide>>)
  \/ Undoing("stop", script.active,
       container' = "down" /\ live' = FALSE /\ UNCHANGED <<fence, oldSide, imported, owner, gateway>>)
  \/ Undoing("deactivate", script.active,
       owner' = "HOLD" /\ UNCHANGED <<fence, oldSide, imported, container, live, gateway>>)
  \/ Undoing("restore", script.fenced, Write(script.old))
  \/ /\ script.pc = "restore" /\ script.fenced /\ generation # script.generation   \* refused
     /\ ScriptOnto("stuck") /\ UNCHANGED <<world, commandFaults, budget>>
  \/ Undoing("resume", script.fenced /\ script.paused,
       schedule' = "ENABLED" /\ UNCHANGED <<fence, phase, writes, newSide, gateway>>)
  \/ Undoing("execute", script.fenced,
       /\ \/ \E e \in Executions : phase[e] = "none" /\ phase' = [phase EXCEPT ![e] = "created"]
          \/ (\A e \in Executions : phase[e] # "none") /\ UNCHANGED phase
       /\ UNCHANGED <<fence, schedule, writes, newSide, gateway>>)

\* The shell or its host goes away.
Kill ==
  /\ script.pc \notin {"idle", "failed", "stuck", "killed", "done"} /\ kills < MaxKills /\ kills' = kills + 1
  /\ ScriptOnto("killed") /\ UNCHANGED <<world, commandFaults, runs>>

ScriptNext ==
  \/ Prepare \/ First \/ FenceOff \/ Pause \/ Cancel \/ Confirm \/ Wait \/ Inventory \/ Copy \/ Compare
  \/ Activate \/ StartLive \/ VerifyLive \/ Promote \/ FinishUp \/ RollBack
HandoverNext == OldNext \/ LiveNext \/ Release \/ Start \/ ScriptNext \/ Kill

\* Schedules, processes and the script run; nothing forces a kill, a new run, a
\* release or a request.
HandoverSpec ==
  /\ HandoverInit /\ [][HandoverNext]_handoverVars
  /\ WF_handoverVars(ScriptNext) /\ WF_handoverVars(LiveNext)
  /\ \A e \in Executions : WF_handoverVars(Launch(e)) /\ WF_handoverVars(Main(e))
  /\ \A a \in Actors : WF_handoverVars(Return(a)) /\ WF_handoverVars(phase[a] = "cancelled" /\ Finish(a))
  /\ \A s \in Servers : WF_handoverVars(Finish(s))

-----------------------------------------------------------------------------
(* Properties                                                              *)

OldCollects ==
  \/ \E e \in Executions : phase[e] \in {"running", "calling"}
  \/ \E s \in Servers : phase[s] = "calling"

\* The account is collected by one side: the sockets of the new process are never
\* open while an old worker runs or an old request is at the provider, wherever the
\* script fails or is killed and however an old process read the marker late.
OneOwner == ~(live /\ OldCollects)

\* When the old store says NEW_BACKEND, everything the old side has written is in
\* the new database, and nothing more is written there.
NothingLost == marker = "NEW_BACKEND" => imported = writes

\* One owner at every time, and what the old one has written with the new one.
HandoverSafe == OneOwner /\ NothingLost

\* A first handover that failed and rolled back leaves somebody collecting.
SomeoneCollects == (runs = 1 /\ script.pc = "failed") ~> (OldCollects \/ live \/ script.pc # "failed")
=============================================================================
