---------------------------- MODULE Handover_proofs ----------------------------
(***************************************************************************)
(* What changes a running installation: the handover to the new backend,   *)
(* the release manager, and the copy of the archive with its import.  They *)
(* share nothing; what is proved of each stands in a part of its own.      *)
(***************************************************************************)
EXTENDS Handover, Deploy, ArchiveMirror, FiniteSetTheorems, WellFoundedInduction, TLAPS

(***************************************************************************)
(* One side collects at every time, and nothing is lost between the two,   *)
(* for any number of executions and requests, of failed commands, killed   *)
(* scripts and attempts; as long as every request looks at the marker, no   *)
(* release arrives during a handover, and the command that activates the    *)
(* new owner does not take effect and fail: the findings show what happens  *)
(* otherwise.                                                              *)
(***************************************************************************)

\* The commands of the script in their order, from each of them on.
FromStart == {"start", "verify", "promote", "finish"}
FromCompare == {"compare", "activate"} \cup FromStart
FromInventory == {"inventory", "copy"} \cup FromCompare
FromWait == {"wait"} \cup FromInventory
FromPause == {"pause", "cancel", "confirm"} \cup FromWait
UpToActivate == ({"prepare", "first", "fence"} \cup FromPause) \ FromStart
\* The rollback, and the states in which there is no script.
Undoings == {"traffic", "stop", "deactivate", "restore", "resume", "execute"}
Ends == {"failed", "stuck", "killed", "done"}

Commands == UpToActivate \cup FromStart \cup Undoings \cup Ends
ScriptState ==
  [pc : Commands, old : {"LEGACY"}, generation : Nat,
   before : Nat \cup {NoInventory}, paused : BOOLEAN, fenced : BOOLEAN, active : BOOLEAN,
   promoted : BOOLEAN, changed : BOOLEAN, reused : BOOLEAN]

TypeInv ==
  /\ marker \in {"LEGACY", "FENCED", "NEW_BACKEND"} /\ generation \in Nat
  /\ schedule \in {"ENABLED", "PAUSED"}
  /\ phase \in [Actors -> {"none", "created", "running", "calling", "cancelled"}]
  /\ writes \in Nat /\ imported \in Nat
  /\ owner \in {"HOLD", "NEW_BACKEND"} /\ container \in {"up", "down"} /\ live \in BOOLEAN
  /\ traffic \in {"old", "new"} /\ template \in {"plain", "private"}
  /\ script \in [pc : {"idle"}] \cup ScriptState

(* The old side can only read the marker: no execution runs, no request is  *)
(* at the provider.                                                        *)
ExecutionsQuiet(ph) == \A e \in Executions : ph[e] \in {"none", "created"}
RequestsQuiet(ph) == \A s \in Servers : ph[s] # "calling"
Quiet(ph) == ExecutionsQuiet(ph) /\ RequestsQuiet(ph)

(* Whoever owns the new side, or still holds its sockets, does so behind the *)
(* fence and after the old side has become quiet.                          *)
OwnsBehindFence == (live \/ owner = "NEW_BACKEND") => Migrated /\ Quiet(phase)
HandedOver == marker = "NEW_BACKEND" => Quiet(phase) /\ imported = writes

(* What the script has reached by each of its commands.                    *)
Reached ==
  /\ script.pc \in FromPause => marker = "FENCED"
  /\ script.pc \in FromWait => ExecutionsQuiet(phase)
  /\ script.pc \in FromInventory => RequestsQuiet(phase)
  /\ script.pc \in FromCompare => imported = writes
  /\ script.pc \in FromStart => script.active

(* Until the script activates the new side, that side holds nothing; a      *)
(* rollback takes back what the script has noted, the live process first.  *)
NewSideHolds ==
  /\ script.pc \in UpToActivate \cup {"restore", "resume", "execute", "failed"} => owner = "HOLD" /\ ~live
  /\ script.pc \in {"traffic", "stop", "deactivate"} /\ ~script.active => owner = "HOLD" /\ ~live
  /\ script.pc = "deactivate" => ~live /\ (script.active => container = "down")

OwnerInv == OwnsBehindFence /\ HandedOver /\ Reached /\ NewSideHolds
HandoverInv == TypeInv /\ OwnerInv

USE ActorsAreDistinct

\* The state of the script once there is one.
LEMMA RunningScript ==
  ASSUME TypeInv, script.pc # "idle"
  PROVE  script \in ScriptState
BY DEF TypeInv, ScriptState

\* Going on to a command changes only the command.
LEMMA GoingOn ==
  ASSUME NEW marked \in ScriptState, NEW pc \in Commands
  PROVE  [marked EXCEPT !.pc = pc] \in ScriptState
         /\ [marked EXCEPT !.pc = pc].pc = pc /\ [marked EXCEPT !.pc = pc].active = marked.active
BY DEF ScriptState

-----------------------------------------------------------------------------
(* Types                                                                   *)

LEMMA TypeInit == HandoverInit => TypeInv
<1> SUFFICES ASSUME HandoverInit PROVE TypeInv
  OBVIOUS
<1>1. script \in [pc : {"idle"}]
  BY DEF HandoverInit, NoScript
<1> QED
  BY <1>1 DEF HandoverInit, TypeInv

LEMMA TypeStep == TypeInv /\ [HandoverNext]_handoverVars => TypeInv'
<1> SUFFICES ASSUME TypeInv, [HandoverNext]_handoverVars
             PROVE  TypeInv'
  OBVIOUS
<1>1. CASE OldNext
  BY <1>1 DEF OldNext, Launch, Dispatch, Main, Handle, CallProvider, Return, Finish, At, Actors, TypeInv, newSide, gateway, fence
<1>2. CASE LiveNext
  BY <1>2 DEF LiveNext, TypeInv, oldSide, gateway, fence
<1>3. CASE Release
  BY <1>3 DEF Release, TypeInv, oldSide, gateway, fence
<1>4. CASE Start
  <2>1. script' \in ScriptState
    BY <1>4 DEF Start, Migrated, TypeInv, ScriptState, Commands, UpToActivate
  <2> QED
    BY <1>4, <2>1 DEF Start, TypeInv, world
<1>5. CASE Kill
  <2>1. script' \in ScriptState
    BY <1>5, RunningScript DEF Kill, ScriptOnto, ScriptState, Commands, Ends
  <2> QED
    BY <1>5, <2>1 DEF Kill, TypeInv, world
<1>6. CASE ScriptNext
  <2>1. CASE Prepare
    <3> USE DEF Prepare, Command, CommandFault, After, ScriptOnto
    <3>1. script \in ScriptState
      BY <2>1, RunningScript
    <3> DEFINE marked == [script EXCEPT !.changed = TRUE]
    <3>2. marked \in ScriptState
      BY <3>1 DEF TypeInv, ScriptState
    <3>3. \/ script' = [marked EXCEPT !.pc = "first"]
          \/ script' = [script EXCEPT !.pc = "traffic"]
      BY <2>1
    <3>4. "first" \in Commands /\ "traffic" \in Commands
      BY DEF Commands, UpToActivate, FromPause, FromWait, FromInventory, FromCompare, FromStart, Undoings
    <3> HIDE DEF marked
    <3>5. script' \in ScriptState
      BY <3>1, <3>2, <3>3, <3>4, GoingOn
    <3> QED
      BY <2>1, <3>5 DEF TypeInv, world, oldSide, newSide, gateway, fence
  <2>2. CASE First
    <3> USE DEF First, Command, CommandFault, After, ScriptOnto
    <3>1. script \in ScriptState
      BY <2>2, RunningScript
    <3>2. script' \in ScriptState
      BY <2>2, <3>1 DEF TypeInv, ScriptState,
         UpToActivate, FromPause, FromWait, FromInventory, FromCompare, FromStart, Undoings, Ends, Commands
    <3> QED
      BY <2>2, <3>2 DEF TypeInv, world, oldSide, newSide, gateway, fence
  <2>3. CASE FenceOff
    <3> USE DEF FenceOff, Command, CommandFault, After, ScriptOnto, Write
    <3>1. script \in ScriptState
      BY <2>3, RunningScript
    <3> DEFINE marked == [script EXCEPT !.fenced = TRUE, !.generation = generation + 1]
    <3>2. marked \in ScriptState
      <4>1. generation + 1 \in Nat
        BY DEF TypeInv
      <4>2. ASSUME NEW g \in Nat PROVE [script EXCEPT !.fenced = TRUE, !.generation = g] \in ScriptState
        BY <3>1 DEF ScriptState
      <4> QED
        BY <4>1, <4>2
    <3>3. \/ script' = [marked EXCEPT !.pc = "pause"]
          \/ script' = [script EXCEPT !.pc = "traffic"]
      BY <2>3
    <3>4. "pause" \in Commands /\ "traffic" \in Commands
      BY DEF Commands, UpToActivate, FromPause, FromWait, FromInventory, FromCompare, FromStart, Undoings
    <3> HIDE DEF marked
    <3>5. script' \in ScriptState
      BY <3>1, <3>2, <3>3, <3>4, GoingOn
    <3> QED
      BY <2>3, <3>5 DEF TypeInv, world, oldSide, newSide, gateway, fence
  <2>4. CASE Pause
    <3> USE DEF Pause, Command, CommandFault, After, ScriptOnto
    <3>1. script \in ScriptState
      BY <2>4, RunningScript
    <3> DEFINE marked == [script EXCEPT !.paused = schedule = "ENABLED"]
    <3>2. marked \in ScriptState
      BY <3>1 DEF TypeInv, ScriptState
    <3>3. \/ script' = [marked EXCEPT !.pc = "cancel"]
          \/ script' = [script EXCEPT !.pc = "traffic"]
      BY <2>4
    <3>4. "cancel" \in Commands /\ "traffic" \in Commands
      BY DEF Commands, UpToActivate, FromPause, FromWait, FromInventory, FromCompare, FromStart, Undoings
    <3> HIDE DEF marked
    <3>5. script' \in ScriptState
      BY <3>1, <3>2, <3>3, <3>4, GoingOn
    <3> QED
      BY <2>4, <3>5 DEF TypeInv, world, oldSide, newSide, gateway, fence
  <2>5. CASE Cancel
    <3> USE DEF Cancel, Command, CommandFault, After, ScriptOnto
    <3>1. script \in ScriptState
      BY <2>5, RunningScript
    <3>2. script' \in ScriptState
      BY <2>5, <3>1 DEF TypeInv, ScriptState,
         UpToActivate, FromPause, FromWait, FromInventory, FromCompare, FromStart, Undoings, Ends, Commands
    <3> QED
      BY <2>5, <3>2 DEF TypeInv, world, oldSide, newSide, gateway, fence
  <2>6. CASE Confirm
    <3> USE DEF Confirm, Command, CommandFault, After, ScriptOnto
    <3>1. script \in ScriptState
      BY <2>6, RunningScript
    <3>2. script' \in ScriptState
      BY <2>6, <3>1 DEF TypeInv, ScriptState,
         UpToActivate, FromPause, FromWait, FromInventory, FromCompare, FromStart, Undoings, Ends, Commands
    <3> QED
      BY <2>6, <3>2 DEF TypeInv, world, oldSide, newSide, gateway, fence
  <2>7. CASE Wait
    <3> USE DEF Wait, Command, CommandFault, After, ScriptOnto
    <3>1. script \in ScriptState
      BY <2>7, RunningScript
    <3>2. script' \in ScriptState
      BY <2>7, <3>1 DEF TypeInv, ScriptState,
         UpToActivate, FromPause, FromWait, FromInventory, FromCompare, FromStart, Undoings, Ends, Commands
    <3> QED
      BY <2>7, <3>2 DEF TypeInv, world, oldSide, newSide, gateway, fence
  <2>8. CASE Inventory
    <3> USE DEF Inventory, Command, CommandFault, After, ScriptOnto
    <3>1. script \in ScriptState
      BY <2>8, RunningScript
    <3> DEFINE marked == [script EXCEPT !.before = writes]
    <3>2. marked \in ScriptState
      BY <3>1 DEF TypeInv, ScriptState
    <3>3. \/ script' = [marked EXCEPT !.pc = "copy"]
          \/ script' = [script EXCEPT !.pc = "traffic"]
      BY <2>8
    <3>4. "copy" \in Commands /\ "traffic" \in Commands
      BY DEF Commands, UpToActivate, FromPause, FromWait, FromInventory, FromCompare, FromStart, Undoings
    <3> HIDE DEF marked
    <3>5. script' \in ScriptState
      BY <3>1, <3>2, <3>3, <3>4, GoingOn
    <3> QED
      BY <2>8, <3>5 DEF TypeInv, world, oldSide, newSide, gateway, fence
  <2>9. CASE Copy
    <3> USE DEF Copy, Command, CommandFault, After, ScriptOnto
    <3>1. script \in ScriptState
      BY <2>9, RunningScript
    <3>2. script' \in ScriptState
      BY <2>9, <3>1 DEF TypeInv, ScriptState,
         UpToActivate, FromPause, FromWait, FromInventory, FromCompare, FromStart, Undoings, Ends, Commands
    <3> QED
      BY <2>9, <3>2 DEF TypeInv, world, oldSide, newSide, gateway, fence
  <2>10. CASE Compare
    <3> USE DEF Compare, Command, CommandFault, After, ScriptOnto
    <3>1. script \in ScriptState
      BY <2>10, RunningScript
    <3>2. script' \in ScriptState
      BY <2>10, <3>1 DEF TypeInv, ScriptState,
         UpToActivate, FromPause, FromWait, FromInventory, FromCompare, FromStart, Undoings, Ends, Commands
    <3> QED
      BY <2>10, <3>2 DEF TypeInv, world, oldSide, newSide, gateway, fence
  <2>11. CASE Activate
    <3> USE DEF Activate, Command, CommandFault, After, ScriptOnto
    <3>1. script \in ScriptState
      BY <2>11, RunningScript
    <3> DEFINE marked == [script EXCEPT !.active = TRUE]
    <3>2. marked \in ScriptState
      BY <3>1 DEF TypeInv, ScriptState
    <3>3. \/ script' = [marked EXCEPT !.pc = "start"]
          \/ script' = [script EXCEPT !.pc = "traffic"]
      BY <2>11
    <3>4. "start" \in Commands /\ "traffic" \in Commands
      BY DEF Commands, UpToActivate, FromPause, FromWait, FromInventory, FromCompare, FromStart, Undoings
    <3> HIDE DEF marked
    <3>5. script' \in ScriptState
      BY <3>1, <3>2, <3>3, <3>4, GoingOn
    <3> QED
      BY <2>11, <3>5 DEF TypeInv, world, oldSide, newSide, gateway, fence
  <2>12. CASE StartLive
    <3> USE DEF StartLive, Command, CommandFault, After, ScriptOnto
    <3>1. script \in ScriptState
      BY <2>12, RunningScript
    <3>2. script' \in ScriptState
      BY <2>12, <3>1 DEF TypeInv, ScriptState,
         UpToActivate, FromPause, FromWait, FromInventory, FromCompare, FromStart, Undoings, Ends, Commands
    <3> QED
      BY <2>12, <3>2 DEF TypeInv, world, oldSide, newSide, gateway, fence
  <2>13. CASE VerifyLive
    <3> USE DEF VerifyLive, Command, CommandFault, After, ScriptOnto
    <3>1. script \in ScriptState
      BY <2>13, RunningScript
    <3>2. script' \in ScriptState
      BY <2>13, <3>1 DEF TypeInv, ScriptState,
         UpToActivate, FromPause, FromWait, FromInventory, FromCompare, FromStart, Undoings, Ends, Commands
    <3> QED
      BY <2>13, <3>2 DEF TypeInv, world, oldSide, newSide, gateway, fence
  <2>14. CASE Promote
    <3> USE DEF Promote, Command, CommandFault, After, ScriptOnto
    <3>1. script \in ScriptState
      BY <2>14, RunningScript
    <3> DEFINE marked == [script EXCEPT !.promoted = TRUE]
    <3>2. marked \in ScriptState
      BY <3>1 DEF TypeInv, ScriptState
    <3>3. \/ script' = [marked EXCEPT !.pc = "finish"]
          \/ script' = [script EXCEPT !.pc = "traffic"]
      BY <2>14
    <3>4. "finish" \in Commands /\ "traffic" \in Commands
      BY DEF Commands, UpToActivate, FromPause, FromWait, FromInventory, FromCompare, FromStart, Undoings
    <3> HIDE DEF marked
    <3>5. script' \in ScriptState
      BY <3>1, <3>2, <3>3, <3>4, GoingOn
    <3> QED
      BY <2>14, <3>5 DEF TypeInv, world, oldSide, newSide, gateway, fence
  <2>15. CASE FinishUp
    <3> USE DEF FinishUp, Command, CommandFault, After, ScriptOnto, Write
    <3>1. script \in ScriptState
      BY <2>15, RunningScript
    <3>2. script' \in ScriptState
      BY <2>15, <3>1 DEF TypeInv, ScriptState,
         UpToActivate, FromPause, FromWait, FromInventory, FromCompare, FromStart, Undoings, Ends, Commands
    <3> QED
      BY <2>15, <3>2 DEF TypeInv, world, oldSide, newSide, gateway, fence
  <2>16. CASE RollBack
    <3> USE DEF RollBack, Command, CommandFault, After, ScriptOnto, Undoing, Undo, Write
    <3>1. script \in ScriptState
      BY <2>16, RunningScript
    <3>2. script' \in ScriptState
      BY <2>16, <3>1 DEF TypeInv, ScriptState,
         UpToActivate, FromPause, FromWait, FromInventory, FromCompare, FromStart, Undoings, Ends, Commands
    <3>3. marker' \in {"LEGACY", "FENCED", "NEW_BACKEND"} /\ generation' \in Nat
      BY <2>16, <3>1 DEF TypeInv, ScriptState, world, fence
    <3>4. schedule' \in {"ENABLED", "PAUSED"} /\ writes' \in Nat /\ imported' \in Nat
      BY <2>16 DEF TypeInv, world, oldSide, newSide
    <3>5. phase' \in [Actors -> {"none", "created", "running", "calling", "cancelled"}]
      BY <2>16 DEF TypeInv, world, oldSide
    <3>6. owner' \in {"HOLD", "NEW_BACKEND"} /\ container' \in {"up", "down"} /\ live' \in BOOLEAN
      BY <2>16 DEF TypeInv, world, newSide
    <3>7. traffic' \in {"old", "new"} /\ template' \in {"plain", "private"}
      BY <2>16 DEF TypeInv, world, gateway
    <3> QED
      BY <3>2, <3>3, <3>4, <3>5, <3>6, <3>7 DEF TypeInv
  <2> QED
    BY <1>6, <2>1, <2>2, <2>3, <2>4, <2>5, <2>6, <2>7, <2>8, <2>9, <2>10, <2>11, <2>12, <2>13, <2>14, <2>15, <2>16 DEF ScriptNext
<1>7. CASE UNCHANGED handoverVars
  BY <1>7 DEF handoverVars, world, TypeInv
<1> QED
  BY <1>1, <1>2, <1>3, <1>4, <1>5, <1>6, <1>7 DEF HandoverNext

-----------------------------------------------------------------------------
(* One owner                                                               *)

LEMMA OwnerInit == HandoverInit => OwnerInv
BY DEF HandoverInit, NoScript, OwnerInv, OwnsBehindFence, HandedOver, Reached, NewSideHolds,
         UpToActivate, FromPause, FromWait, FromInventory, FromCompare, FromStart, Undoings, Ends, Commands

\* What the old side may do once it can only read the marker.
LEMMA OldSideStays ==
  ASSUME TypeInv, OldNext, Unbounded = {}, Migrated
  PROVE  /\ ExecutionsQuiet(phase) => ExecutionsQuiet(phase')
         /\ RequestsQuiet(phase) => RequestsQuiet(phase')
         /\ Quiet(phase) => writes' = writes
<1> USE DEF TypeInv, Actors, ExecutionsQuiet, RequestsQuiet, Quiet, At
<1>1. CASE \E e \in Executions : Launch(e)
  BY <1>1 DEF Launch
<1>2. CASE \E e \in Executions : Main(e)
  BY <1>2 DEF Main
<1>3. CASE \E e \in Executions : \E s \in Servers : Dispatch(s, e)
  BY <1>3 DEF Dispatch
<1>4. CASE \E s \in Servers : Handle(s)
  BY <1>4 DEF Handle
<1>5. CASE \E a \in Actors : CallProvider(a)
  BY <1>5 DEF CallProvider
<1>6. CASE \E a \in Actors : Return(a)
  BY <1>6 DEF Return
<1>7. CASE \E a \in Actors : Finish(a)
  BY <1>7 DEF Finish
<1> QED
  BY <1>1, <1>2, <1>3, <1>4, <1>5, <1>6, <1>7 DEF OldNext

LEMMA OldSideKeepsOwner ==
  ASSUME TypeInv, OwnerInv, OldNext, Unbounded = {}
  PROVE  OwnerInv'
<1>1. UNCHANGED <<fence, newSide, gateway, script>>
  BY DEF OldNext, Launch, Dispatch, Main, Handle, CallProvider, Return, Finish, At
<1>2. OwnsBehindFence'
  BY <1>1, OldSideStays DEF OwnerInv, OwnsBehindFence, Migrated, Quiet, fence, newSide
<1>3. HandedOver'
  BY <1>1, OldSideStays DEF OwnerInv, HandedOver, Migrated, Quiet, fence, newSide
<1>4. script.pc \in FromPause => Migrated
  BY DEF OwnerInv, Reached, Migrated
<1>5. Reached'
  <2>1. FromStart \subseteq FromCompare /\ FromCompare \subseteq FromInventory
        /\ FromInventory \subseteq FromWait /\ FromWait \subseteq FromPause
    BY DEF FromPause, FromWait, FromInventory, FromCompare, FromStart
  <2> QED
    BY <1>1, <1>4, <2>1, OldSideStays DEF OwnerInv, Reached, Quiet, fence, newSide
<1>6. NewSideHolds'
  BY <1>1 DEF OwnerInv, NewSideHolds, newSide
<1> QED
  BY <1>2, <1>3, <1>5, <1>6 DEF OwnerInv

LEMMA NewSideKeepsOwner ==
  ASSUME TypeInv, OwnerInv, ReleaseAnyTime = FALSE, LiveNext \/ Release
  PROVE  OwnerInv'
<1> USE DEF OwnerInv,
           UpToActivate, FromPause, FromWait, FromInventory, FromCompare, FromStart, Undoings, Ends, Commands
<1>1. OwnsBehindFence' /\ HandedOver' /\ Reached'
  BY DEF LiveNext, Release, OwnsBehindFence, HandedOver, Reached, Migrated, fence, oldSide
<1>2. NewSideHolds'
  BY DEF LiveNext, Release, NewSideHolds
<1> QED
  BY <1>1, <1>2

LEMMA PrepareKeepsOwner ==
  ASSUME TypeInv, OwnerInv, Prepare
  PROVE  OwnerInv'
<1> USE DEF OwnerInv, Prepare, Command, CommandFault, After, ScriptOnto,
           UpToActivate, FromPause, FromWait, FromInventory, FromCompare, FromStart, Undoings, Ends, Commands,
           world, oldSide, newSide, gateway, fence
<1>1. script \in ScriptState
  BY RunningScript
<1>6. \/ script'.pc = "first" /\ script'.active = script.active
      \/ script'.pc = "traffic" /\ script'.active = script.active
  <2> DEFINE marked == [script EXCEPT !.changed = TRUE]
  <2>1. marked \in ScriptState /\ marked.active = script.active
    BY <1>1 DEF TypeInv, ScriptState
  <2>2. \/ script' = [marked EXCEPT !.pc = "first"]
        \/ script' = [script EXCEPT !.pc = "traffic"]
    OBVIOUS
  <2>3. "first" \in Commands /\ "traffic" \in Commands
    BY DEF Commands, UpToActivate, FromPause, FromWait, FromInventory, FromCompare, FromStart, Undoings
  <2> HIDE DEF marked
  <2>4. [script EXCEPT !.pc = "traffic"].pc = "traffic" /\ [script EXCEPT !.pc = "traffic"].active = script.active
    BY <1>1, <2>3, GoingOn
  <2>5. [marked EXCEPT !.pc = "first"].pc = "first" /\ [marked EXCEPT !.pc = "first"].active = marked.active
    BY <2>1, <2>3, GoingOn
  <2> QED
    BY <2>1, <2>2, <2>4, <2>5, Zenon
<1>2. OwnsBehindFence'
  BY <1>1 DEF TypeInv, OwnsBehindFence, Reached, NewSideHolds, Migrated, Quiet
<1>3. HandedOver'
  BY <1>1 DEF TypeInv, HandedOver, Reached, NewSideHolds, Migrated, Quiet
<1>4. Reached'
  BY <1>1, <1>6 DEF TypeInv, ScriptState, Reached, NewSideHolds, ExecutionsQuiet, RequestsQuiet
<1>5. NewSideHolds'
  BY <1>1, <1>6 DEF TypeInv, ScriptState, Reached, NewSideHolds
<1> QED
  BY <1>2, <1>3, <1>4, <1>5

LEMMA FirstKeepsOwner ==
  ASSUME TypeInv, OwnerInv, First
  PROVE  OwnerInv'
<1> USE DEF OwnerInv, First, Command, CommandFault, After, ScriptOnto,
           UpToActivate, FromPause, FromWait, FromInventory, FromCompare, FromStart, Undoings, Ends, Commands,
           world, oldSide, newSide, gateway, fence
<1>1. script \in ScriptState
  BY RunningScript
<1>2. OwnsBehindFence'
  BY <1>1 DEF TypeInv, OwnsBehindFence, Reached, NewSideHolds, Migrated, Quiet
<1>3. HandedOver'
  BY <1>1 DEF TypeInv, HandedOver, Reached, NewSideHolds, Migrated, Quiet
<1>4. Reached'
  BY <1>1 DEF TypeInv, ScriptState, Reached, NewSideHolds, ExecutionsQuiet, RequestsQuiet
<1>5. NewSideHolds'
  BY <1>1 DEF TypeInv, ScriptState, Reached, NewSideHolds
<1> QED
  BY <1>2, <1>3, <1>4, <1>5

LEMMA FenceOffKeepsOwner ==
  ASSUME TypeInv, OwnerInv, FenceOff
  PROVE  OwnerInv'
<1> USE DEF OwnerInv, FenceOff, Command, CommandFault, After, ScriptOnto, Write,
           UpToActivate, FromPause, FromWait, FromInventory, FromCompare, FromStart, Undoings, Ends, Commands,
           world, oldSide, newSide, gateway, fence
<1>1. script \in ScriptState
  BY RunningScript
<1>6. \/ script'.pc = "pause" /\ script'.active = script.active
      \/ script'.pc = "traffic" /\ script'.active = script.active
  <2> DEFINE marked == [script EXCEPT !.fenced = TRUE, !.generation = generation + 1]
  <2>1. marked \in ScriptState /\ marked.active = script.active
    <3>1. generation + 1 \in Nat
      BY DEF TypeInv
    <3>2. ASSUME NEW g \in Nat
          PROVE  [script EXCEPT !.fenced = TRUE, !.generation = g] \in ScriptState
                 /\ [script EXCEPT !.fenced = TRUE, !.generation = g].active = script.active
      BY <1>1 DEF ScriptState
    <3> QED
      BY <3>1, <3>2
  <2>2. \/ script' = [marked EXCEPT !.pc = "pause"]
        \/ script' = [script EXCEPT !.pc = "traffic"]
    OBVIOUS
  <2>3. "pause" \in Commands /\ "traffic" \in Commands
    BY DEF Commands, UpToActivate, FromPause, FromWait, FromInventory, FromCompare, FromStart, Undoings
  <2> HIDE DEF marked
  <2>4. [script EXCEPT !.pc = "traffic"].pc = "traffic" /\ [script EXCEPT !.pc = "traffic"].active = script.active
    BY <1>1, <2>3, GoingOn
  <2>5. [marked EXCEPT !.pc = "pause"].pc = "pause" /\ [marked EXCEPT !.pc = "pause"].active = marked.active
    BY <2>1, <2>3, GoingOn
  <2> QED
    BY <2>1, <2>2, <2>4, <2>5, Zenon
<1>2. OwnsBehindFence'
  BY <1>1 DEF TypeInv, OwnsBehindFence, Reached, NewSideHolds, Migrated, Quiet
<1>3. HandedOver'
  BY <1>1 DEF TypeInv, HandedOver, Reached, NewSideHolds, Migrated, Quiet
<1>4. Reached'
  BY <1>1, <1>6 DEF TypeInv, ScriptState, Reached, NewSideHolds, ExecutionsQuiet, RequestsQuiet
<1>5. NewSideHolds'
  BY <1>1, <1>6 DEF TypeInv, ScriptState, Reached, NewSideHolds
<1> QED
  BY <1>2, <1>3, <1>4, <1>5

LEMMA PauseKeepsOwner ==
  ASSUME TypeInv, OwnerInv, Pause
  PROVE  OwnerInv'
<1> USE DEF OwnerInv, Pause, Command, CommandFault, After, ScriptOnto,
           UpToActivate, FromPause, FromWait, FromInventory, FromCompare, FromStart, Undoings, Ends, Commands,
           world, oldSide, newSide, gateway, fence
<1>1. script \in ScriptState
  BY RunningScript
<1>6. \/ script'.pc = "cancel" /\ script'.active = script.active
      \/ script'.pc = "traffic" /\ script'.active = script.active
  <2> DEFINE marked == [script EXCEPT !.paused = schedule = "ENABLED"]
  <2>1. marked \in ScriptState /\ marked.active = script.active
    BY <1>1 DEF TypeInv, ScriptState
  <2>2. \/ script' = [marked EXCEPT !.pc = "cancel"]
        \/ script' = [script EXCEPT !.pc = "traffic"]
    OBVIOUS
  <2>3. "cancel" \in Commands /\ "traffic" \in Commands
    BY DEF Commands, UpToActivate, FromPause, FromWait, FromInventory, FromCompare, FromStart, Undoings
  <2> HIDE DEF marked
  <2>4. [script EXCEPT !.pc = "traffic"].pc = "traffic" /\ [script EXCEPT !.pc = "traffic"].active = script.active
    BY <1>1, <2>3, GoingOn
  <2>5. [marked EXCEPT !.pc = "cancel"].pc = "cancel" /\ [marked EXCEPT !.pc = "cancel"].active = marked.active
    BY <2>1, <2>3, GoingOn
  <2> QED
    BY <2>1, <2>2, <2>4, <2>5, Zenon
<1>2. OwnsBehindFence'
  BY <1>1 DEF TypeInv, OwnsBehindFence, Reached, NewSideHolds, Migrated, Quiet
<1>3. HandedOver'
  BY <1>1 DEF TypeInv, HandedOver, Reached, NewSideHolds, Migrated, Quiet
<1>4. Reached'
  BY <1>1, <1>6 DEF TypeInv, ScriptState, Reached, NewSideHolds, ExecutionsQuiet, RequestsQuiet
<1>5. NewSideHolds'
  BY <1>1, <1>6 DEF TypeInv, ScriptState, Reached, NewSideHolds
<1> QED
  BY <1>2, <1>3, <1>4, <1>5

LEMMA CancelKeepsOwner ==
  ASSUME TypeInv, OwnerInv, Cancel
  PROVE  OwnerInv'
<1> USE DEF OwnerInv, Cancel, Command, CommandFault, After, ScriptOnto,
           UpToActivate, FromPause, FromWait, FromInventory, FromCompare, FromStart, Undoings, Ends, Commands,
           world, oldSide, newSide, gateway, fence
<1>1. script \in ScriptState
  BY RunningScript
<1>2. OwnsBehindFence'
  BY <1>1 DEF TypeInv, OwnsBehindFence, Reached, NewSideHolds, Migrated, Quiet
<1>3. HandedOver'
  BY <1>1 DEF TypeInv, HandedOver, Reached, NewSideHolds, Migrated, Quiet
<1>4. Reached'
  BY <1>1 DEF TypeInv, ScriptState, Reached, NewSideHolds, ExecutionsQuiet, RequestsQuiet
<1>5. NewSideHolds'
  BY <1>1 DEF TypeInv, ScriptState, Reached, NewSideHolds
<1> QED
  BY <1>2, <1>3, <1>4, <1>5

LEMMA ConfirmKeepsOwner ==
  ASSUME TypeInv, OwnerInv, Confirm
  PROVE  OwnerInv'
<1> USE DEF OwnerInv, Confirm, Command, CommandFault, After, ScriptOnto,
           UpToActivate, FromPause, FromWait, FromInventory, FromCompare, FromStart, Undoings, Ends, Commands,
           world, oldSide, newSide, gateway, fence
<1>1. script \in ScriptState
  BY RunningScript
<1>2. OwnsBehindFence'
  BY <1>1 DEF TypeInv, OwnsBehindFence, Reached, NewSideHolds, Migrated, Quiet
<1>3. HandedOver'
  BY <1>1 DEF TypeInv, HandedOver, Reached, NewSideHolds, Migrated, Quiet
<1>4. Reached'
  BY <1>1 DEF TypeInv, ScriptState, Reached, NewSideHolds, ExecutionsQuiet, RequestsQuiet
<1>5. NewSideHolds'
  BY <1>1 DEF TypeInv, ScriptState, Reached, NewSideHolds
<1> QED
  BY <1>2, <1>3, <1>4, <1>5

LEMMA WaitKeepsOwner ==
  ASSUME TypeInv, OwnerInv, Wait, Unbounded = {}
  PROVE  OwnerInv'
<1> USE DEF OwnerInv, Wait, Command, CommandFault, After, ScriptOnto,
           UpToActivate, FromPause, FromWait, FromInventory, FromCompare, FromStart, Undoings, Ends, Commands,
           world, oldSide, newSide, gateway, fence
<1>1. script \in ScriptState
  BY RunningScript
<1>2. OwnsBehindFence'
  BY <1>1 DEF TypeInv, OwnsBehindFence, Reached, NewSideHolds, Migrated, Quiet
<1>3. HandedOver'
  BY <1>1 DEF TypeInv, HandedOver, Reached, NewSideHolds, Migrated, Quiet
<1>4. Reached'
  BY <1>1 DEF TypeInv, ScriptState, Reached, NewSideHolds, ExecutionsQuiet, RequestsQuiet
<1>5. NewSideHolds'
  BY <1>1 DEF TypeInv, ScriptState, Reached, NewSideHolds
<1> QED
  BY <1>2, <1>3, <1>4, <1>5

LEMMA InventoryKeepsOwner ==
  ASSUME TypeInv, OwnerInv, Inventory
  PROVE  OwnerInv'
<1> USE DEF OwnerInv, Inventory, Command, CommandFault, After, ScriptOnto,
           UpToActivate, FromPause, FromWait, FromInventory, FromCompare, FromStart, Undoings, Ends, Commands,
           world, oldSide, newSide, gateway, fence
<1>1. script \in ScriptState
  BY RunningScript
<1>6. \/ script'.pc = "copy" /\ script'.active = script.active
      \/ script'.pc = "traffic" /\ script'.active = script.active
  <2> DEFINE marked == [script EXCEPT !.before = writes]
  <2>1. marked \in ScriptState /\ marked.active = script.active
    BY <1>1 DEF TypeInv, ScriptState
  <2>2. \/ script' = [marked EXCEPT !.pc = "copy"]
        \/ script' = [script EXCEPT !.pc = "traffic"]
    OBVIOUS
  <2>3. "copy" \in Commands /\ "traffic" \in Commands
    BY DEF Commands, UpToActivate, FromPause, FromWait, FromInventory, FromCompare, FromStart, Undoings
  <2> HIDE DEF marked
  <2>4. [script EXCEPT !.pc = "traffic"].pc = "traffic" /\ [script EXCEPT !.pc = "traffic"].active = script.active
    BY <1>1, <2>3, GoingOn
  <2>5. [marked EXCEPT !.pc = "copy"].pc = "copy" /\ [marked EXCEPT !.pc = "copy"].active = marked.active
    BY <2>1, <2>3, GoingOn
  <2> QED
    BY <2>1, <2>2, <2>4, <2>5, Zenon
<1>2. OwnsBehindFence'
  BY <1>1 DEF TypeInv, OwnsBehindFence, Reached, NewSideHolds, Migrated, Quiet
<1>3. HandedOver'
  BY <1>1 DEF TypeInv, HandedOver, Reached, NewSideHolds, Migrated, Quiet
<1>4. Reached'
  BY <1>1, <1>6 DEF TypeInv, ScriptState, Reached, NewSideHolds, ExecutionsQuiet, RequestsQuiet
<1>5. NewSideHolds'
  BY <1>1, <1>6 DEF TypeInv, ScriptState, Reached, NewSideHolds
<1> QED
  BY <1>2, <1>3, <1>4, <1>5

LEMMA CopyKeepsOwner ==
  ASSUME TypeInv, OwnerInv, Copy
  PROVE  OwnerInv'
<1> USE DEF OwnerInv, Copy, Command, CommandFault, After, ScriptOnto,
           UpToActivate, FromPause, FromWait, FromInventory, FromCompare, FromStart, Undoings, Ends, Commands,
           world, oldSide, newSide, gateway, fence
<1>1. script \in ScriptState
  BY RunningScript
<1>2. OwnsBehindFence'
  BY <1>1 DEF TypeInv, OwnsBehindFence, Reached, NewSideHolds, Migrated, Quiet
<1>3. HandedOver'
  BY <1>1 DEF TypeInv, HandedOver, Reached, NewSideHolds, Migrated, Quiet
<1>4. Reached'
  BY <1>1 DEF TypeInv, ScriptState, Reached, NewSideHolds, ExecutionsQuiet, RequestsQuiet
<1>5. NewSideHolds'
  BY <1>1 DEF TypeInv, ScriptState, Reached, NewSideHolds
<1> QED
  BY <1>2, <1>3, <1>4, <1>5

LEMMA CompareKeepsOwner ==
  ASSUME TypeInv, OwnerInv, Compare
  PROVE  OwnerInv'
<1> USE DEF OwnerInv, Compare, Command, CommandFault, After, ScriptOnto,
           UpToActivate, FromPause, FromWait, FromInventory, FromCompare, FromStart, Undoings, Ends, Commands,
           world, oldSide, newSide, gateway, fence
<1>1. script \in ScriptState
  BY RunningScript
<1>2. OwnsBehindFence'
  BY <1>1 DEF TypeInv, OwnsBehindFence, Reached, NewSideHolds, Migrated, Quiet
<1>3. HandedOver'
  BY <1>1 DEF TypeInv, HandedOver, Reached, NewSideHolds, Migrated, Quiet
<1>4. Reached'
  BY <1>1 DEF TypeInv, ScriptState, Reached, NewSideHolds, ExecutionsQuiet, RequestsQuiet
<1>5. NewSideHolds'
  BY <1>1 DEF TypeInv, ScriptState, Reached, NewSideHolds
<1> QED
  BY <1>2, <1>3, <1>4, <1>5

LEMMA ActivateKeepsOwner ==
  ASSUME TypeInv, OwnerInv, Activate, "activate" \notin LostReplies
  PROVE  OwnerInv'
<1> USE DEF OwnerInv, Activate, Command, CommandFault, After, ScriptOnto,
           UpToActivate, FromPause, FromWait, FromInventory, FromCompare, FromStart, Undoings, Ends, Commands,
           world, oldSide, newSide, gateway, fence
<1>1. script \in ScriptState
  BY RunningScript
<1>6. \/ script'.pc = "start" /\ script'.active = TRUE
      \/ script'.pc = "traffic" /\ script'.active = script.active /\ UNCHANGED world
  <2> DEFINE marked == [script EXCEPT !.active = TRUE]
  <2>1. marked \in ScriptState /\ marked.active = TRUE
    BY <1>1 DEF TypeInv, ScriptState
  <2>2. \/ script' = [marked EXCEPT !.pc = "start"]
        \/ script' = [script EXCEPT !.pc = "traffic"] /\ UNCHANGED world
    OBVIOUS
  <2>3. "start" \in Commands /\ "traffic" \in Commands
    BY DEF Commands, UpToActivate, FromPause, FromWait, FromInventory, FromCompare, FromStart, Undoings
  <2> HIDE DEF marked
  <2>4. [script EXCEPT !.pc = "traffic"].pc = "traffic" /\ [script EXCEPT !.pc = "traffic"].active = script.active
    BY <1>1, <2>3, GoingOn
  <2>5. [marked EXCEPT !.pc = "start"].pc = "start" /\ [marked EXCEPT !.pc = "start"].active = marked.active
    BY <2>1, <2>3, GoingOn
  <2> QED
    BY <2>1, <2>2, <2>4, <2>5, Zenon
<1>2. OwnsBehindFence'
  BY <1>1 DEF TypeInv, OwnsBehindFence, Reached, NewSideHolds, Migrated, Quiet
<1>3. HandedOver'
  BY <1>1 DEF TypeInv, HandedOver, Reached, NewSideHolds, Migrated, Quiet
<1>4. Reached'
  BY <1>1, <1>6 DEF TypeInv, ScriptState, Reached, NewSideHolds, ExecutionsQuiet, RequestsQuiet
<1>5. NewSideHolds'
  BY <1>1, <1>6 DEF TypeInv, ScriptState, Reached, NewSideHolds
<1> QED
  BY <1>2, <1>3, <1>4, <1>5

LEMMA StartLiveKeepsOwner ==
  ASSUME TypeInv, OwnerInv, StartLive
  PROVE  OwnerInv'
<1> USE DEF OwnerInv, StartLive, Command, CommandFault, After, ScriptOnto,
           UpToActivate, FromPause, FromWait, FromInventory, FromCompare, FromStart, Undoings, Ends, Commands,
           world, oldSide, newSide, gateway, fence
<1>1. script \in ScriptState
  BY RunningScript
<1>2. OwnsBehindFence'
  BY <1>1 DEF TypeInv, OwnsBehindFence, Reached, NewSideHolds, Migrated, Quiet
<1>3. HandedOver'
  BY <1>1 DEF TypeInv, HandedOver, Reached, NewSideHolds, Migrated, Quiet
<1>4. Reached'
  BY <1>1 DEF TypeInv, ScriptState, Reached, NewSideHolds, ExecutionsQuiet, RequestsQuiet
<1>5. NewSideHolds'
  BY <1>1 DEF TypeInv, ScriptState, Reached, NewSideHolds
<1> QED
  BY <1>2, <1>3, <1>4, <1>5

LEMMA VerifyLiveKeepsOwner ==
  ASSUME TypeInv, OwnerInv, VerifyLive
  PROVE  OwnerInv'
<1> USE DEF OwnerInv, VerifyLive, Command, CommandFault, After, ScriptOnto,
           UpToActivate, FromPause, FromWait, FromInventory, FromCompare, FromStart, Undoings, Ends, Commands,
           world, oldSide, newSide, gateway, fence
<1>1. script \in ScriptState
  BY RunningScript
<1>2. OwnsBehindFence'
  BY <1>1 DEF TypeInv, OwnsBehindFence, Reached, NewSideHolds, Migrated, Quiet
<1>3. HandedOver'
  BY <1>1 DEF TypeInv, HandedOver, Reached, NewSideHolds, Migrated, Quiet
<1>4. Reached'
  BY <1>1 DEF TypeInv, ScriptState, Reached, NewSideHolds, ExecutionsQuiet, RequestsQuiet
<1>5. NewSideHolds'
  BY <1>1 DEF TypeInv, ScriptState, Reached, NewSideHolds
<1> QED
  BY <1>2, <1>3, <1>4, <1>5

LEMMA PromoteKeepsOwner ==
  ASSUME TypeInv, OwnerInv, Promote
  PROVE  OwnerInv'
<1> USE DEF OwnerInv, Promote, Command, CommandFault, After, ScriptOnto,
           UpToActivate, FromPause, FromWait, FromInventory, FromCompare, FromStart, Undoings, Ends, Commands,
           world, oldSide, newSide, gateway, fence
<1>1. script \in ScriptState
  BY RunningScript
<1>6. /\ script'.pc \in {"finish", "traffic"} /\ script'.active = script.active
      /\ script'.pc = "finish" => script.pc = "promote"
  <2> DEFINE marked == [script EXCEPT !.promoted = TRUE]
  <2>1. marked \in ScriptState /\ marked.active = script.active
    BY <1>1 DEF TypeInv, ScriptState
  <2>2. script' = [marked EXCEPT !.pc = "finish"] \/ script' = [script EXCEPT !.pc = "traffic"]
    OBVIOUS
  <2>3. "finish" \in Commands /\ "traffic" \in Commands
    BY DEF Commands, UpToActivate, FromPause, FromWait, FromInventory, FromCompare, FromStart, Undoings
  <2>6. script.pc = "promote"
    OBVIOUS
  <2> HIDE DEF marked
  <2>4. [script EXCEPT !.pc = "traffic"].pc = "traffic" /\ [script EXCEPT !.pc = "traffic"].active = script.active
    BY <1>1, <2>3, GoingOn
  <2>5. [marked EXCEPT !.pc = "finish"].pc = "finish" /\ [marked EXCEPT !.pc = "finish"].active = marked.active
    BY <2>1, <2>3, GoingOn
  <2> QED
    BY <2>1, <2>2, <2>4, <2>5, <2>6, Zenon
<1>7. /\ UNCHANGED <<fence, oldSide, newSide>>
      /\ script.pc = "promote"
  OBVIOUS
<1> HIDE DEF Promote
<1>2. OwnsBehindFence'
  BY <1>1, <1>7 DEF TypeInv, OwnsBehindFence, Reached, NewSideHolds, Migrated, Quiet
<1>3. HandedOver'
  BY <1>1, <1>7 DEF TypeInv, HandedOver, Reached, NewSideHolds, Migrated, Quiet
<1>4. Reached'
  BY <1>1, <1>6, <1>7 DEF TypeInv, ScriptState, Reached, NewSideHolds, ExecutionsQuiet, RequestsQuiet
<1>5. NewSideHolds'
  BY <1>1, <1>6, <1>7 DEF TypeInv, ScriptState, Reached, NewSideHolds
<1> QED
  BY <1>2, <1>3, <1>4, <1>5

LEMMA FinishUpKeepsOwner ==
  ASSUME TypeInv, OwnerInv, FinishUp
  PROVE  OwnerInv'
<1> USE DEF OwnerInv, FinishUp, Command, CommandFault, After, ScriptOnto, Write,
           UpToActivate, FromPause, FromWait, FromInventory, FromCompare, FromStart, Undoings, Ends, Commands,
           world, oldSide, newSide, gateway, fence
<1>1. script \in ScriptState
  BY RunningScript
<1>2. OwnsBehindFence'
  BY <1>1 DEF TypeInv, OwnsBehindFence, Reached, NewSideHolds, Migrated, Quiet
<1>3. HandedOver'
  BY <1>1 DEF TypeInv, HandedOver, Reached, NewSideHolds, Migrated, Quiet
<1>4. Reached'
  BY <1>1 DEF TypeInv, ScriptState, Reached, NewSideHolds, ExecutionsQuiet, RequestsQuiet
<1>5. NewSideHolds'
  BY <1>1 DEF TypeInv, ScriptState, Reached, NewSideHolds
<1> QED
  BY <1>2, <1>3, <1>4, <1>5

LEMMA RollBackKeepsOwner ==
  ASSUME TypeInv, OwnerInv, RollBack
  PROVE  OwnerInv'
<1> USE DEF OwnerInv, RollBack, Undoing, Undo, CommandFault, ScriptOnto, Write,
           UpToActivate, FromPause, FromWait, FromInventory, FromCompare, FromStart, Undoings, Ends, Commands,
           world, oldSide, newSide, gateway, fence
<1>1. script \in ScriptState
  BY RunningScript
<1>2. PICK pc \in Undoings : script.pc = pc /\ script' = [script EXCEPT !.pc = script'.pc]
                           /\ script'.pc \in {Undo(pc), "stuck"}
  BY <1>1 DEF ScriptState
<1>3. script'.active = script.active
  BY <1>1, <1>2 DEF ScriptState
<1>4. OwnsBehindFence'
  BY <1>1, <1>2 DEF TypeInv, OwnsBehindFence, NewSideHolds, Migrated, Quiet, ExecutionsQuiet, RequestsQuiet
<1>5. HandedOver'
  <2>1. CASE UNCHANGED <<marker, phase, imported, writes>>
    BY <2>1 DEF HandedOver
  <2>2. CASE script.pc = "restore"
    BY <1>1, <2>2 DEF ScriptState, HandedOver, world, oldSide, newSide, fence
  <2>3. CASE script.pc = "execute"
    BY <1>1, <2>3 DEF TypeInv, HandedOver, Quiet, ExecutionsQuiet, RequestsQuiet, Actors, world, oldSide, newSide, fence
  <2> QED
    BY <1>2, <2>1, <2>2, <2>3 DEF Undoings, world, oldSide, newSide, fence
<1>6. Reached'
  BY <1>2 DEF Reached
<1>7. NewSideHolds'
  <2>1. CASE script.pc = "traffic"
    <3>1. script'.pc \in {"stop", "stuck"} /\ UNCHANGED <<owner, live, container>>
      BY <1>2, <2>1 DEF world, newSide
    <3> QED
      BY <1>3, <2>1, <3>1 DEF NewSideHolds, UpToActivate, FromPause, FromWait, FromInventory, FromCompare, FromStart
  <2>2. CASE script.pc = "stop"
    <3>1. \/ script'.pc = "deactivate" /\ UNCHANGED owner
             /\ (IF script.active THEN ~live' /\ container' = "down" ELSE UNCHANGED live)
          \/ script'.pc = "stuck"
      BY <1>1, <1>2, <2>2 DEF ScriptState, world, newSide
    <3> QED
      BY <1>3, <2>2, <3>1 DEF NewSideHolds, UpToActivate, FromPause, FromWait, FromInventory, FromCompare, FromStart
  <2>3. CASE script.pc = "deactivate"
    <3>1. \/ script'.pc = "restore" /\ UNCHANGED live /\ (IF script.active THEN owner' = "HOLD" ELSE UNCHANGED owner)
          \/ script'.pc = "stuck"
      BY <1>1, <1>2, <2>3 DEF ScriptState, world, newSide
    <3> QED
      BY <1>3, <2>3, <3>1 DEF NewSideHolds, UpToActivate, FromPause, FromWait, FromInventory, FromCompare, FromStart
  <2>4. CASE script.pc \in {"restore", "resume", "execute"}
    <3>1. script'.pc \in {"resume", "execute", "failed", "stuck"} /\ UNCHANGED <<owner, live>>
      BY <1>2, <2>4 DEF world, newSide
    <3> QED
      BY <1>3, <2>4, <3>1 DEF NewSideHolds, UpToActivate, FromPause, FromWait, FromInventory, FromCompare, FromStart
  <2> QED
    BY <1>2, <2>1, <2>2, <2>3, <2>4 DEF Undoings
<1> QED
  BY <1>4, <1>5, <1>6, <1>7

LEMMA StartKeepsOwner ==
  ASSUME TypeInv, OwnerInv, Start
  PROVE  OwnerInv'
<1>1. script'.pc = "prepare"
  BY DEF Start
<1> QED
  BY <1>1 DEF Start, OwnerInv, TypeInv, OwnsBehindFence, HandedOver, Reached, NewSideHolds, Migrated,
         UpToActivate, FromPause, FromWait, FromInventory, FromCompare,
         FromStart, Undoings, Ends, Commands, world, oldSide, newSide, fence

LEMMA KillKeepsOwner ==
  ASSUME TypeInv, OwnerInv, Kill
  PROVE  OwnerInv'
<1>1. script'.pc = "killed"
  BY RunningScript DEF Kill, ScriptOnto, ScriptState
<1> QED
  BY <1>1 DEF Kill, OwnerInv, OwnsBehindFence, HandedOver, Reached, NewSideHolds, Migrated,
         UpToActivate, FromPause, FromWait, FromInventory, FromCompare,
         FromStart, Undoings, Ends, Commands, world, oldSide, newSide, fence

-----------------------------------------------------------------------------
(* The theorem                                                             *)

\* The account is collected by one side, and when the old store says NEW_BACKEND
\* everything written there is in the new database: whatever fails and wherever
\* the script is killed or started again.
THEOREM HandoverIsSafe ==
  ASSUME Unbounded = {}, ReleaseAnyTime = FALSE, "activate" \notin LostReplies
  PROVE  HandoverSpec => []HandoverSafe
<1>1. HandoverInit => HandoverInv
  BY TypeInit, OwnerInit DEF HandoverInv
<1>2. HandoverInv /\ [HandoverNext]_handoverVars => HandoverInv'
  <2> SUFFICES ASSUME HandoverInv, [HandoverNext]_handoverVars
               PROVE  HandoverInv'
    OBVIOUS
  <2>1. TypeInv' /\ TypeInv /\ OwnerInv
    BY TypeStep DEF HandoverInv
  <2>2. CASE OldNext
    BY <2>1, <2>2, OldSideKeepsOwner DEF HandoverInv
  <2>3. CASE LiveNext \/ Release
    BY <2>1, <2>3, NewSideKeepsOwner DEF HandoverInv
  <2>4. CASE ScriptNext
    BY <2>1, <2>4, PrepareKeepsOwner, FirstKeepsOwner, FenceOffKeepsOwner, PauseKeepsOwner, CancelKeepsOwner,
       ConfirmKeepsOwner, WaitKeepsOwner, InventoryKeepsOwner, CopyKeepsOwner, CompareKeepsOwner, ActivateKeepsOwner,
       StartLiveKeepsOwner, VerifyLiveKeepsOwner, PromoteKeepsOwner, FinishUpKeepsOwner, RollBackKeepsOwner
       DEF ScriptNext, HandoverInv
  <2>5. CASE Start \/ Kill
    BY <2>1, <2>5, StartKeepsOwner, KillKeepsOwner DEF HandoverInv
  <2>6. CASE UNCHANGED handoverVars
    BY <2>1, <2>6 DEF handoverVars, world, HandoverInv, OwnerInv, OwnsBehindFence, HandedOver, Reached, NewSideHolds, Migrated
  <2> QED
    BY <2>2, <2>3, <2>4, <2>5, <2>6 DEF HandoverNext
<1>3. HandoverInv => HandoverSafe
  BY DEF HandoverInv, TypeInv, OwnerInv, OwnsBehindFence, HandedOver, Quiet, ExecutionsQuiet, RequestsQuiet,
         HandoverSafe, OneOwner, NothingLost, OldCollects
<1> QED
  BY <1>1, <1>2, <1>3, PTL DEF HandoverSpec

(***************************************************************************)
(* What the machine runs is what it records, for any number of revisions    *)
(* and faults.  A run owns what it touches: while it is before its link it  *)
(* knows the release in place, and what it has started is all that runs.    *)
(***************************************************************************)

BeforeLink == {"extract", "unpack", "build", "dump", "up", "await", "link", "restore", "settle"}
Verifying == {"dump", "up", "await", "link", "record", "restore", "settle"}
RunState == [pc : BeforeLink \cup {"record"}, candidate : Revisions,
             previous : Revisions \cup {NoRelease}, sha : Revisions \cup {NoRelease}]

\* A release in place is all that runs.
AllRun(release, image) ==
  \A s \in Services : containers[s] = IF s \in AppServices(release) THEN <<release, image>> ELSE NoRelease

RunInv ==
  /\ run \in {NoRun} \cup RunState /\ head \in Revisions
  /\ {link, recorded} \subseteq Revisions \cup {NoRelease}
  /\ containers = [s \in Services |-> containers[s]]
  /\ run.pc \in BeforeLink => run.previous = link /\ run.sha = recorded
  /\ run.pc \in Verifying => run.candidate \in WithLive
  /\ run.pc \in {"await", "link", "record"} => AllRun(run.candidate, run.candidate)
  /\ run.pc = "record" => link = run.candidate
  /\ run.pc = "settle" => AllRun(run.previous, run.sha)
  /\ RunsWhatItRecords

LEMMA RunningState ==
  ASSUME run \in {NoRun} \cup RunState, run.pc # "idle"
  PROVE  run \in RunState
BY DEF NoRun, RunState

\* A run goes on with another command.
LEMMA RunGoesOn ==
  ASSUME NEW pc \in BeforeLink \cup {"record"}, run \in RunState, RunOnto(pc)
  PROVE  /\ run' \in RunState /\ run'.pc = pc /\ run'.candidate = run.candidate
         /\ run'.previous = run.previous /\ run'.sha = run.sha
BY DEF RunOnto, RunState

\* A run that ends without deploying or restoring leaves nothing to be said.
LEMMA RunEnds ==
  ASSUME RunInv, NEW result, End(result), result \notin {"deployed", "restored"},
         containers' = [s \in Services |-> containers'[s]], UNCHANGED <<head, link, recorded>>
  PROVE  RunInv'
<1>1. run' = NoRun /\ run'.pc = "idle" /\ outcome' = result
  BY DEF End, NoRun
<1> QED
  BY <1>1 DEF RunInv, RunsWhatItRecords, BeforeLink, Verifying

LEMMA RunBegins == DeployInit => RunInv
<1> SUFFICES ASSUME DeployInit PROVE RunInv
  OBVIOUS
<1>1. run = NoRun /\ run.pc = "idle" /\ outcome = "none"
  BY DEF DeployInit, NoRun
<1>2. containers = [s \in Services |-> containers[s]]
  BY DEF DeployInit
<1>3. head \in Revisions /\ {link, recorded} \subseteq Revisions \cup {NoRelease}
  BY FirstRevision DEF DeployInit
<1> QED
  BY <1>1, <1>2, <1>3 DEF RunInv, RunsWhatItRecords, BeforeLink, Verifying

LEMMA RunStep == RunInv /\ [DeployNext]_deployVars => RunInv'
<1> SUFFICES ASSUME RunInv, [DeployNext]_deployVars PROVE RunInv'
  OBVIOUS
<1>0. /\ run \in {NoRun} \cup RunState /\ head \in Revisions
      /\ {link, recorded} \subseteq Revisions \cup {NoRelease}
      /\ containers = [s \in Services |-> containers[s]]
  BY DEF RunInv
<1>1. CASE Commit \/ Verified \/ UNCHANGED deployVars
  <2>1. head' \in Revisions /\ UNCHANGED <<link, recorded, containers, run, outcome>>
    BY <1>0, <1>1 DEF Commit, Verified, deployVars
  <2> QED
    BY <2>1 DEF RunInv, RunsWhatItRecords, AllRun
<1>2. CASE Begin
  <2>1. run' \in RunState /\ run'.pc = "extract" /\ run'.previous = link /\ run'.sha = recorded
    BY <1>0, <1>2 DEF Begin, RunState, BeforeLink
  <2>2. UNCHANGED <<head, link, recorded, containers>>
    BY <1>2 DEF Begin
  <2> QED
    BY <1>0, <2>1, <2>2 DEF RunInv, RunsWhatItRecords, BeforeLink, Verifying
<1>3. CASE Extract
  <2>1. run.pc \in {"extract", "unpack"} /\ (RunOnto("unpack") \/ RunOnto("build"))
        /\ UNCHANGED <<head, link, recorded, containers>>
    BY <1>3 DEF Extract
  <2>2. run \in RunState /\ {"unpack", "build"} \subseteq BeforeLink
    BY <1>0, <2>1, RunningState DEF BeforeLink
  <2>3. run' \in RunState /\ run'.pc \in {"unpack", "build"} /\ run'.previous = run.previous /\ run'.sha = run.sha
    BY <2>1, <2>2, RunGoesOn
  <2> QED
    BY <1>0, <2>1, <2>3 DEF RunInv, RunsWhatItRecords, BeforeLink, Verifying
<1>4. CASE BuildImage
  <2>1. run.pc = "build" /\ UNCHANGED <<head, link, recorded, containers>>
    BY <1>4 DEF BuildImage
  <2>2. run \in RunState /\ {"dump", "up"} \subseteq BeforeLink
    BY <1>0, <2>1, RunningState DEF BeforeLink
  <2>3. CASE End("failed")
    BY <1>0, <2>1, <2>3, RunEnds
  <2>4. CASE run.candidate \in WithLive /\ (RunOnto("dump") \/ RunOnto("up"))
    <3>1. run' \in RunState /\ run'.pc \in {"dump", "up"} /\ run'.candidate = run.candidate
          /\ run'.previous = run.previous /\ run'.sha = run.sha
      BY <2>2, <2>4, RunGoesOn
    <3> QED
      BY <1>0, <2>1, <2>4, <3>1 DEF RunInv, RunsWhatItRecords, BeforeLink, Verifying
  <2> QED
    BY <1>4, <2>3, <2>4 DEF BuildImage
<1>5. CASE Dump
  <2>1. run.pc = "dump" /\ RunOnto("up") /\ UNCHANGED <<head, link, recorded, containers>>
    BY <1>5 DEF Dump
  <2>2. run \in RunState /\ "up" \in BeforeLink
    BY <1>0, <2>1, RunningState DEF BeforeLink
  <2>3. run' \in RunState /\ run'.pc = "up" /\ run'.candidate = run.candidate
        /\ run'.previous = run.previous /\ run'.sha = run.sha
    BY <2>1, <2>2, RunGoesOn
  <2> QED
    BY <1>0, <2>1, <2>3 DEF RunInv, RunsWhatItRecords, BeforeLink, Verifying
<1>6. CASE Up
  <2>1. run.pc = "up" /\ UNCHANGED <<head, link, recorded, outcome>>
    BY <1>6 DEF Up
  <2>2. run \in RunState /\ {"await", "restore"} \subseteq BeforeLink
    BY <1>0, <2>1, RunningState DEF BeforeLink
  <2>3. run.candidate \in WithLive /\ run.previous = link /\ run.sha = recorded
    BY <2>1 DEF RunInv, BeforeLink, Verifying
  <2>4. CASE containers' = Started(run.candidate, run.candidate) /\ RunOnto("await")
    <3>1. run' \in RunState /\ run'.pc = "await" /\ run'.candidate = run.candidate
          /\ run'.previous = run.previous /\ run'.sha = run.sha
      BY <2>2, <2>4, RunGoesOn
    <3>2. \A s \in Services : s \in AppServices(run.candidate)
      BY <2>3 DEF AppServices
    <3>3. containers' = [s \in Services |-> containers'[s]]
      BY <2>4 DEF Started
    <3>4. \A s \in Services : containers'[s] = <<run.candidate, run.candidate>>
      BY <2>4, <3>2 DEF Started
    <3>5. AllRun(run.candidate, run.candidate)'
      BY <3>1, <3>2, <3>4 DEF AllRun
    <3> QED
      BY <1>0, <2>1, <2>3, <3>1, <3>3, <3>5 DEF RunInv, RunsWhatItRecords, BeforeLink, Verifying
  <2>5. CASE RunOnto("restore") /\ containers' = [s \in Services |-> containers'[s]]
    <3>1. run' \in RunState /\ run'.pc = "restore" /\ run'.candidate = run.candidate
          /\ run'.previous = run.previous /\ run'.sha = run.sha
      BY <2>2, <2>5, RunGoesOn
    <3> QED
      BY <1>0, <2>1, <2>3, <2>5, <3>1 DEF RunInv, RunsWhatItRecords, BeforeLink, Verifying
  <2>6. (\E some \in SUBSET Services :
           containers' = [s \in Services |-> IF s \in some THEN <<run.candidate, run.candidate>> ELSE containers[s]])
         => containers' = [s \in Services |-> containers'[s]]
    OBVIOUS
  <2> QED
    BY <1>6, <2>4, <2>5, <2>6 DEF Up
<1>7. CASE Await
  <2>1. run.pc = "await" /\ (RunOnto("link") \/ RunOnto("restore")) /\ UNCHANGED <<head, link, recorded, containers>>
    BY <1>7 DEF Await
  <2>2. run \in RunState /\ {"link", "restore"} \subseteq BeforeLink
    BY <1>0, <2>1, RunningState DEF BeforeLink
  <2>3. run' \in RunState /\ run'.pc \in {"link", "restore"} /\ run'.candidate = run.candidate
        /\ run'.previous = run.previous /\ run'.sha = run.sha
    BY <2>1, <2>2, RunGoesOn
  <2>4. AllRun(run.candidate, run.candidate)'
    BY <2>1, <2>3 DEF RunInv, AllRun
  <2> QED
    BY <1>0, <2>1, <2>3, <2>4 DEF RunInv, RunsWhatItRecords, BeforeLink, Verifying
<1>8. CASE Restore
  <2>1. run.pc = "restore" /\ UNCHANGED <<head, link, recorded>>
    BY <1>8 DEF Restore
  <2>2. run \in RunState /\ "settle" \in BeforeLink
    BY <1>0, <2>1, RunningState DEF BeforeLink
  <2>3. run.candidate \in WithLive /\ run.previous = link /\ run.sha = recorded
    BY <2>1 DEF RunInv, BeforeLink, Verifying
  <2>4. CASE End("failed") /\ UNCHANGED containers
    BY <1>0, <2>1, <2>4, RunEnds
  <2>5. CASE /\ containers' = [s \in Services |-> IF s \in Introduced(run.candidate, run.previous) THEN NoRelease
                                                  ELSE Started(run.previous, run.sha)[s]]
             /\ RunOnto("settle")
    <3>1. run' \in RunState /\ run'.pc = "settle" /\ run'.candidate = run.candidate
          /\ run'.previous = run.previous /\ run'.sha = run.sha
      BY <2>2, <2>5, RunGoesOn
    <3>2. ASSUME NEW s \in Services
          PROVE  containers'[s] = IF s \in AppServices(run.previous) THEN <<run.previous, run.sha>> ELSE NoRelease
      <4>1. s \in Introduced(run.candidate, run.previous) <=> s \notin AppServices(run.previous)
        BY <2>3 DEF Introduced, AppServices
      <4> QED
        BY <2>5, <4>1 DEF Started
    <3>3. AllRun(run.previous, run.sha)' /\ containers' = [s \in Services |-> containers'[s]]
      BY <2>5, <3>1, <3>2 DEF AllRun
    <3> QED
      BY <1>0, <2>1, <2>3, <3>1, <3>3 DEF RunInv, RunsWhatItRecords, BeforeLink, Verifying
  <2> QED
    BY <1>8, <2>4, <2>5 DEF Restore
<1>9. CASE Settle
  <2>1. run.pc = "settle" /\ UNCHANGED <<head, link, recorded, containers>>
    BY <1>9 DEF Settle
  <2>2. AllRun(link, recorded)
    BY <2>1 DEF RunInv, BeforeLink
  <2>3. CASE End("restored")
    <3>1. run' = NoRun /\ run'.pc = "idle"
      BY <2>3 DEF End, NoRun
    <3> QED
      BY <1>0, <2>1, <2>2, <3>1 DEF RunInv, RunsWhatItRecords, AllRun, BeforeLink, Verifying
  <2>4. CASE End("review")
    BY <1>0, <2>1, <2>4, RunEnds
  <2> QED
    BY <1>9, <2>3, <2>4 DEF Settle
<1>10. CASE Link
  <2>1. run.pc = "link" /\ link' = run.candidate /\ RunOnto("record") /\ UNCHANGED <<head, recorded, containers>>
    BY <1>10 DEF Link
  <2>2. run \in RunState
    BY <1>0, <2>1, RunningState
  <2>3. run' \in RunState /\ run'.pc = "record" /\ run'.candidate = run.candidate
    BY <2>1, <2>2, RunGoesOn
  <2>4. run.candidate \in WithLive /\ AllRun(run.candidate, run.candidate) /\ run.candidate \in Revisions
    BY <2>1, <2>2 DEF RunInv, Verifying, RunState
  <2>5. AllRun(run.candidate, run.candidate)'
    BY <2>1, <2>3, <2>4 DEF AllRun
  <2> QED
    BY <1>0, <2>1, <2>3, <2>4, <2>5 DEF RunInv, RunsWhatItRecords, BeforeLink, Verifying
<1>11. CASE Record
  <2>1. run.pc = "record" /\ recorded' = run.candidate /\ End("deployed") /\ UNCHANGED <<head, link, containers>>
    BY <1>11 DEF Record
  <2>2. link = run.candidate /\ AllRun(run.candidate, run.candidate)
    BY <2>1 DEF RunInv
  <2>3. run' = NoRun /\ run'.pc = "idle"
    BY <2>1 DEF End, NoRun
  <2> QED
    BY <1>0, <2>1, <2>2, <2>3 DEF RunInv, RunsWhatItRecords, AllRun, BeforeLink, Verifying
<1>12. CASE Fails("unpack") \/ Fails("dump") \/ RunKilled
  <2>1. (End("failed") \/ End("killed")) /\ UNCHANGED <<head, link, recorded, containers>>
    BY <1>12 DEF Fails, RunKilled
  <2> QED
    BY <1>0, <2>1, RunEnds
<1> QED
  BY <1>1, <1>2, <1>3, <1>4, <1>5, <1>6, <1>7, <1>8, <1>9, <1>10, <1>11, <1>12 DEF DeployNext, RunNext

\* auto_update.py, main: over any sequence of failed, killed and repeated runs, a
\* run that says it has deployed or restored a release leaves that release running,
\* every service of it on the recorded image and no other.
THEOREM ReleaseIsWhatRuns == DeploySpec => []RunsWhatItRecords
<1>1. RunInv => RunsWhatItRecords
  BY DEF RunInv
<1> QED
  BY <1>1, RunBegins, RunStep, PTL DEF DeploySpec

-----------------------------------------------------------------------------
(***************************************************************************)
(* A copy of the archive that is verified holds what the bucket held, and  *)
(* so does the database after a verified import, for any objects, page     *)
(* size, writes, damages and faults.  The copy is whole because the notes  *)
(* of one scan stand for the names it has passed: CopyInv.  The import is  *)
(* whole because it ends with a comparison, which no later write of the    *)
(* store undoes: ImportInv.                                                *)
(***************************************************************************)

Entries == Objects \X Nat
NoteOf == [generation : Nat, scan : Nat]
RowOf == [content : {"local", "source"} \X Nat, source : {Absent} \cup ({"source"} \X Nat), version : Nat]
CopyOf == [pc : {"list", "page", "manifest", "report"}, scan : Nat, after : Nat,
           page : SUBSET Entries, done : SUBSET Entries, marked : SUBSET Objects]

CopyTypes ==
  /\ bucket \in [Objects -> Nat] /\ sourceWrites \in Nat /\ copyRequest \in Nat
  /\ noted \in [Objects -> NoteOf \cup {Absent}]
  /\ copy = AtRest \/ copy \in CopyOf

\* What a manifest, or the entries of an import, say of the objects as they were
\* when the copy was asked for.
Whole(entries) == \A o \in Objects \ changed :
  IF bucket[o] = 0 THEN \A g : <<o, g>> \notin entries ELSE <<o, bucket[o]>> \in entries

Sound(entries) == entries \in SUBSET Entries /\ Whole(entries)

NotedBy(o, scan) == noted[o] # Absent /\ noted[o].scan = scan
Awaited == copy.page \cup copy.done

\* An object that was not written since the request: when the scan has passed its
\* name, it waits, or is noted as it is; when there is none, it is not met at all.
Passed(o) ==
  IF bucket[o] = 0
  THEN (\A g : <<o, g>> \notin Awaited) /\ o \notin copy.marked /\ ~NotedBy(o, copy.scan)
  ELSE /\ \A g : <<o, g>> \in Awaited => g = bucket[o]
       /\ o \in copy.marked => noted[o].generation = bucket[o]
       /\ o <= copy.after =>
            \/ <<o, bucket[o]>> \in Awaited
            \/ noted[o] # Absent /\ noted[o].generation = bucket[o] /\ (o \in copy.marked \/ noted[o].scan = copy.scan)

ScanSound ==
  /\ \A o \in copy.marked : noted[o] # Absent
  /\ copy.pc # "page" => Awaited = {} /\ copy.marked = {}
  /\ \A o \in Objects \ changed : Passed(o)
  /\ copy.pc = "manifest" => \A o \in Objects \ changed : bucket[o] # 0 => o <= copy.after

StatusSound ==
  /\ status.request \in Nat /\ status.request <= copyRequest
  /\ copy.pc # "idle" => status.state = "COPYING"
  /\ Answered(copyRequest) => Sound(manifest)

CopyInv ==
  /\ CopyTypes /\ StatusSound
  /\ copy.pc \in {"list", "page", "manifest"} => ScanSound
  /\ copy.pc = "report" => Sound(manifest)

\* A row is as it was imported, or was written over by the store.
RowSound(row) == row = Absent \/ (row \in RowOf /\ (row.content = row.source \/ row.content \in {"local"} \X Nat))
Stands(o, g) == rows[o] # Absent /\ rows[o].source = Bytes(g)

ImportInv ==
  /\ locals \in Nat /\ DOMAIN rows = Objects /\ \A o \in Objects : RowSound(rows[o])
  /\ import.pc \in {"idle", "look", "commit", "verify"}
  /\ import.pc # "idle" => Sound(import.entries) /\ import.left \in SUBSET import.entries
  /\ import.pc = "commit" => RowSound(import.row) /\ ~Conflict(import.row) /\ import.entry[2] \in Nat
  /\ import.pc = "verify" => \A e \in import.entries \ import.left : Stands(e[1], e[2])

MirrorInv == CopyInv /\ ImportInv

-----------------------------------------------------------------------------
(* Names in order, scans in order                                          *)

\* A non-empty set of numbers has a least element.
LEMMA LeastExists ==
  ASSUME NEW S \in SUBSET Nat, S # {}
  PROVE  \E m \in S : \A x \in S : m <= x
<1>1. PICK m \in S : \A x \in S : ~(<<x, m>> \in OpToRel(<, Nat))
  BY NatLessThanWellFounded, WFMin
<1>2. ASSUME NEW x \in S PROVE m <= x
  <2>1. x \in Nat /\ m \in Nat /\ <<x, m>> \in Nat \X Nat
    OBVIOUS
  <2>2. ~(x < m)
    BY <1>1, <2>1 DEF OpToRel
  <2> QED
    BY <2>1, <2>2
<1> QED
  BY <1>2

\* A non-empty finite set of numbers has a greatest element: one with the fewest
\* elements above it.
LEMMA GreatestExists ==
  ASSUME NEW S \in SUBSET Nat, S # {}, IsFiniteSet(S)
  PROVE  \E m \in S : \A x \in S : x <= m
<1> DEFINE Above(x) == {y \in S : y > x}
           T == {Above(x) : x \in S}
<1>1. T \subseteq FiniteSubsetsOf(S)
  <2>1. \A x \in S : Above(x) \in SUBSET S
    OBVIOUS
  <2>2. \A x \in S : IsFiniteSet(Above(x))
    BY <2>1, FS_Subset
  <2> QED
    BY <2>1, <2>2 DEF FiniteSubsetsOf
<1>2. T # {}
  OBVIOUS
<1>3. PICK U \in T : \A V \in T : <<V, U>> \notin StrictSubsetOrdering(S)
  <2> HIDE DEF T
  <2> QED
    BY <1>1, <1>2, WFMin, FS_StrictSubsetOrderingWellFounded
<1>4. PICK m \in S : U = Above(m)
  BY <1>3
<1>5. ASSUME NEW x \in S, ~(x <= m) PROVE FALSE
  <2>1. x \in Above(m) /\ x \notin Above(x)
    BY <1>5
  <2>2. Above(x) \subseteq Above(m)
    <3>1. x \in Nat /\ m \in Nat /\ x > m
      BY <1>5
    <3>2. \A y \in S : y \in Nat
      OBVIOUS
    <3>3. ASSUME NEW y \in S, y > x PROVE y > m
      BY <3>1, <3>2, <3>3
    <3> QED
      BY <3>3
  <2>3. Above(x) # Above(m)
    BY <2>1
  <2>4. Above(x) \in SUBSET S /\ Above(m) \in SUBSET S /\ Above(x) \in T
    OBVIOUS
  <2> HIDE DEF Above, T
  <2>5. <<Above(x), U>> \in StrictSubsetOrdering(S)
    BY <1>4, <2>2, <2>3, <2>4 DEF StrictSubsetOrdering
  <2> QED
    BY <1>3, <2>4, <2>5
<1> QED
  BY <1>4, <1>5

LEMMA ObjectsAreNumbers == Objects \subseteq Nat /\ IsFiniteSet(Objects)
BY MirrorAssumption, FS_CardinalityType

LEMMA EarliestIsOne ==
  ASSUME NEW S \in SUBSET Entries, S # {}
  PROVE  Earliest(S) \in S
<1> DEFINE names == {e[1] : e \in S}
<1>1. names \in SUBSET Nat /\ names # {}
  BY ObjectsAreNumbers DEF Entries
<1>2. PICK m \in names : \A x \in names : m <= x
  <2> HIDE DEF names
  <2> QED
    BY <1>1, LeastExists
<1>3. \E e \in S : \A other \in S : e[1] <= other[1]
  BY <1>2
<1> QED
  BY <1>3 DEF Earliest

\* A new scan has a number that no note has.
LEMMA ScanIsNew ==
  ASSUME CopyTypes
  PROVE  LET top == Max({0} \cup {noted[o].scan : o \in {p \in Objects : noted[p] # Absent}})
         IN top \in Nat /\ \A o \in Objects : noted[o] # Absent => noted[o].scan <= top
<1> DEFINE P == {p \in Objects : noted[p] # Absent}
           f == [o \in P |-> noted[o].scan]
           T == {noted[o].scan : o \in P}
           S == {0} \cup T
<1>1. \A o \in P : noted[o].scan \in Nat
  BY DEF CopyTypes, NoteOf
<1>2. IsFiniteSet(T)
  <2>1. IsFiniteSet(P)
    BY ObjectsAreNumbers, FS_Subset
  <2>2. f \in Surjection(P, T)
    BY DEF Surjection
  <2> HIDE DEF f, T, P
  <2> QED
    BY <2>1, <2>2, FS_Surjection
<1>3. S \in SUBSET Nat /\ S # {}
  BY <1>1
<1>4. IsFiniteSet(S)
  <2> HIDE DEF T
  <2> QED
    BY <1>2, FS_Singleton, FS_Union
<1>5. \A o \in P : noted[o].scan \in S
  OBVIOUS
<1> HIDE DEF S
<1>6. PICK m \in S : \A x \in S : x <= m
  BY <1>3, <1>4, GreatestExists
<1>7. Max(S) \in S /\ \A x \in S : Max(S) >= x
  BY <1>6, <1>3 DEF Max
<1>8. Max(S) \in Nat /\ \A o \in Objects : noted[o] # Absent => noted[o].scan <= Max(S)
  BY <1>1, <1>3, <1>5, <1>7
<1> QED
  BY <1>8 DEF S

\* A page takes the next names, and leaves out none before its last one.
LEMMA PageIsNext ==
  ASSUME NEW names \in SUBSET Objects, names # {}
  PROVE  LET next == {o \in names : Cardinality({p \in names : p < o}) < PageSize}
             last == CHOOSE o \in next : \A p \in next : p <= o
         IN next # {} /\ last \in next /\ \A o \in names : o \in next <=> o <= last
<1> DEFINE before(o) == {p \in names : p < o}
           next == {o \in names : Cardinality(before(o)) < PageSize}
           last == CHOOSE o \in next : \A p \in next : p <= o
<1>1. names \in SUBSET Nat /\ IsFiniteSet(names)
  BY ObjectsAreNumbers, FS_Subset
<1>2. PICK m \in names : \A x \in names : m <= x
  BY <1>1, LeastExists
<1>3. m \in next
  <2>1. before(m) = {}
    <3>1. \A p \in names : p \in Nat /\ m \in Nat /\ ~(p < m)
      BY <1>1, <1>2
    <3> QED
      BY <3>1
  <2>2. Cardinality(before(m)) = 0
    BY <2>1, FS_EmptySet
  <2> HIDE DEF before
  <2> QED
    BY <2>2, MirrorAssumption
<1>4. next \in SUBSET Nat /\ IsFiniteSet(next) /\ next \subseteq names
  BY <1>1, FS_Subset
<1>5. last \in next /\ \A p \in next : p <= last
  <2> HIDE DEF next
  <2> QED
    BY <1>3, <1>4, GreatestExists
<1>6. ASSUME NEW o \in names, o <= last PROVE o \in next
  <2>1. before(o) \in SUBSET before(last) /\ IsFiniteSet(before(last))
    <3>1. o \in Nat /\ last \in Nat /\ \A p \in names : p \in Nat
      BY <1>1, <1>4, <1>5
    <3>2. before(last) \in SUBSET names
      OBVIOUS
    <3> HIDE DEF last
    <3>3. \A p \in names : p < o => p < last
      BY <1>6, <3>1
    <3> QED
      BY <1>1, <3>2, <3>3, FS_Subset
  <2>2. /\ Cardinality(before(o)) <= Cardinality(before(last))
        /\ IsFiniteSet(before(o))
    <3> HIDE DEF before
    <3> QED
      BY <2>1, FS_Subset
  <2>3. Cardinality(before(last)) < PageSize
    BY <1>5
  <2>4. Cardinality(before(o)) \in Nat /\ Cardinality(before(last)) \in Nat /\ PageSize \in Nat
    <3> HIDE DEF before
    <3> QED
      BY <2>1, <2>2, FS_CardinalityType, MirrorAssumption
  <2>5. Cardinality(before(o)) < PageSize
    <3> HIDE DEF before
    <3> QED
      BY <2>2, <2>3, <2>4
  <2> QED
    BY <2>5
<1> HIDE DEF last, next
<1>7. next # {} /\ last \in next /\ \A o \in names : o \in next <=> o <= last
  BY <1>5, <1>6
<1> QED
  BY <1>7 DEF last, next

-----------------------------------------------------------------------------
(* The bucket and the copy                                                 *)

LEMMA MirrorBegins == MirrorInit => MirrorInv
<1> SUFFICES ASSUME MirrorInit PROVE MirrorInv
  OBVIOUS
<1>1. CopyInv
  BY DEF MirrorInit, CopyInv, CopyTypes, StatusSound, Answered, AtRest
<1>2. ImportInv
  BY DEF MirrorInit, ImportInv, RowSound, AtRest
<1> QED
  BY <1>1, <1>2 DEF MirrorInv

\* A written object drops out of what the copy has to hold.
LEMMA SourceStep == ASSUME MirrorInv, SourceWrite PROVE MirrorInv'
<1>1. PICK o \in Objects, g \in {0, sourceWrites + 1} : bucket' = [bucket EXCEPT ![o] = g] /\ changed' = changed \cup {o}
  BY DEF SourceWrite
<1>2. sourceWrites' = sourceWrites + 1 /\ UNCHANGED <<copyVars, rowVars>>
  BY DEF SourceWrite
<1>3. bucket \in [Objects -> Nat] /\ sourceWrites \in Nat
  BY DEF MirrorInv, CopyInv, CopyTypes
<1>4. /\ bucket' \in [Objects -> Nat] /\ sourceWrites' \in Nat
      /\ \A p \in Objects \ changed' : p \in Objects \ changed /\ bucket'[p] = bucket[p]
  BY <1>1, <1>2, <1>3
<1>5. ASSUME NEW entries, Sound(entries) PROVE Sound(entries)'
  BY <1>4, <1>5 DEF Sound, Whole
<1>6. CopyTypes' /\ StatusSound'
  BY <1>2, <1>4, <1>5 DEF MirrorInv, CopyInv, CopyTypes, StatusSound, Answered, copyVars
<1>7. ScanSound => ScanSound'
  BY <1>2, <1>4 DEF ScanSound, Passed, Awaited, NotedBy, copyVars
<1>8. CopyInv'
  BY <1>2, <1>5, <1>6, <1>7 DEF MirrorInv, CopyInv, copyVars
<1>9. ImportInv'
  BY <1>2, <1>5 DEF MirrorInv, ImportInv, rowVars, Stands
<1> QED
  BY <1>8, <1>9 DEF MirrorInv

LEMMA QueueStep == ASSUME MirrorInv, Queue PROVE MirrorInv'
<1>1. /\ copyRequest' = copyRequest + 1 /\ copy.pc = "idle" /\ import.pc = "idle"
      /\ status' = Said(copyRequest + 1, "PENDING") \/ status' = status
      /\ UNCHANGED <<bucket, sourceWrites, copied, noted, manifest, copy, rowVars>>
  BY DEF Queue
<1>2. copyRequest \in Nat /\ status.request \in Nat /\ status.request <= copyRequest
  BY DEF MirrorInv, CopyInv, CopyTypes, StatusSound
<1>3. CopyTypes'
  BY <1>1, <1>2 DEF MirrorInv, CopyInv, CopyTypes
<1>4. StatusSound'
  <2>1. CASE status' = Said(copyRequest + 1, "PENDING")
    BY <1>1, <1>2, <2>1 DEF StatusSound, Answered, Said
  <2>2. CASE status' = status
    BY <1>1, <1>2, <2>2 DEF StatusSound, Answered
  <2> QED
    BY <1>1, <2>1, <2>2
<1>5. CopyInv'
  BY <1>1, <1>3, <1>4 DEF CopyInv
<1>6. ImportInv'
  BY <1>1 DEF MirrorInv, ImportInv, rowVars
<1> QED
  BY <1>5, <1>6 DEF MirrorInv

\* Steps of the copy do not touch the import.
LEMMA ImportRests == ASSUME MirrorInv, UNCHANGED <<bucketVars, rowVars>> PROVE ImportInv'
BY DEF MirrorInv, ImportInv, Sound, Whole, Stands, bucketVars, rowVars

LEMMA ExecuteStep == ASSUME MirrorInv, Execute PROVE MirrorInv'
<1> DEFINE top == Max({0} \cup {noted[o].scan : o \in {p \in Objects : noted[p] # Absent}})
<1>1. /\ status' = Said(copyRequest, "COPYING")
      /\ copy' = [pc |-> "list", scan |-> top + 1, after |-> 0, page |-> {}, done |-> {}, marked |-> {}]
      /\ UNCHANGED <<bucketVars, copyRequest, copied, noted, manifest, rowVars>>
  BY DEF Execute
<1>2. top \in Nat /\ \A o \in Objects : noted[o] # Absent => noted[o].scan <= top
  BY ScanIsNew DEF MirrorInv, CopyInv
<1> HIDE DEF top
<1>3. copy' \in CopyOf
  BY <1>1, <1>2 DEF CopyOf
<1>4. CopyTypes'
  BY <1>1, <1>3 DEF MirrorInv, CopyInv, CopyTypes, bucketVars
<1>5. StatusSound'
  BY <1>1 DEF MirrorInv, CopyInv, CopyTypes, StatusSound, Answered, Said
<1>6. ScanSound'
  <2>1. \A o \in Objects : ~NotedBy(o, copy.scan)'
    <3>1. \A o \in Objects : noted[o] # Absent => noted[o].scan \in Nat
      BY DEF MirrorInv, CopyInv, CopyTypes, NoteOf
    <3>2. \A o \in Objects : ~(noted[o] # Absent /\ noted[o].scan = top + 1)
      BY <1>2, <3>1
    <3> QED
      BY <1>1, <3>2 DEF NotedBy
  <2>2. \A o \in Objects : o \in Nat /\ ~(o <= 0)
    BY MirrorAssumption, FS_CardinalityType
  <2>3. copy'.after = 0 /\ copy'.scan = top + 1 /\ Awaited' = {} /\ copy'.marked = {} /\ copy'.pc = "list"
    BY <1>1 DEF Awaited
  <2>4. ASSUME NEW o \in Objects PROVE Passed(o)'
    BY <2>1, <2>2, <2>3 DEF Passed
  <2> QED
    BY <2>3, <2>4 DEF ScanSound
<1>7. CopyInv'
  BY <1>1, <1>4, <1>5, <1>6 DEF CopyInv
<1> QED
  BY <1>1, <1>7, ImportRests DEF MirrorInv

\* Steps of a copy at work that stop short of its manifest.
LEMMA CopyGoesOn ==
  ASSUME MirrorInv, copy.pc # "idle", UNCHANGED <<bucketVars, copyRequest, status, manifest, rowVars>>,
         noted' \in [Objects -> NoteOf \cup {Absent}], copy' \in CopyOf,
         copy'.pc \in {"list", "page", "manifest"}, ScanSound'
  PROVE  MirrorInv'
<1>1. CopyTypes'
  BY DEF MirrorInv, CopyInv, CopyTypes, bucketVars
<1>2. StatusSound'
  BY DEF MirrorInv, CopyInv, StatusSound, Answered
<1>3. CopyInv'
  BY <1>1, <1>2 DEF CopyInv, CopyOf
<1> QED
  BY <1>3, ImportRests DEF MirrorInv

LEMMA ListStep == ASSUME MirrorInv, ListPage PROVE MirrorInv'
<1> DEFINE names == {o \in Objects : o > copy.after /\ bucket[o] # 0}
           next == {o \in names : Cardinality({p \in names : p < o}) < PageSize}
           last == CHOOSE o \in next : \A p \in next : p <= o
<1>1. /\ copy.pc = "list"
      /\ copy' = IF next = {} THEN [copy EXCEPT !.pc = "manifest"]
                 ELSE [copy EXCEPT !.pc = "page", !.page = {<<o, bucket[o]>> : o \in next}, !.after = last]
      /\ UNCHANGED <<bucketVars, copyRequest, status, copied, noted, manifest, rowVars>>
  BY DEF ListPage
<1>2. /\ copy \in CopyOf /\ noted \in [Objects -> NoteOf \cup {Absent}] /\ bucket \in [Objects -> Nat]
      /\ ScanSound /\ Awaited = {} /\ copy.marked = {} /\ copy.page = {} /\ copy.done = {}
  BY <1>1 DEF MirrorInv, CopyInv, CopyTypes, AtRest, ScanSound, Awaited
<1>3. \A o \in Objects : o \in Nat /\ copy.after \in Nat
  BY <1>2, ObjectsAreNumbers DEF CopyOf
<1>4. names # {} => next # {} /\ last \in next /\ \A o \in names : o \in next <=> o <= last
  <2>1. names \in SUBSET Objects
    OBVIOUS
  <2> HIDE DEF names
  <2> QED
    BY <2>1, PageIsNext
<1>5. next \subseteq names /\ names \subseteq Objects
  OBVIOUS
<1>6. \A o \in Objects : o \in names <=> o > copy.after /\ bucket[o] # 0
  OBVIOUS
<1> HIDE DEF names, next, last
<1>7. CASE next = {}
  <2>1. copy' = [copy EXCEPT !.pc = "manifest"] /\ names = {}
    BY <1>1, <1>4, <1>7
  <2>2. copy' \in CopyOf /\ copy'.pc = "manifest" /\ Awaited' = {} /\ copy'.marked = {} /\ copy'.after = copy.after
        /\ copy'.scan = copy.scan
    BY <1>2, <2>1 DEF CopyOf, Awaited
  <2>3. \A o \in Objects : bucket[o] # 0 => o <= copy.after
    BY <1>3, <1>6, <2>1
  <2>4. ScanSound'
    BY <1>1, <1>2, <2>2, <2>3 DEF ScanSound, Passed, NotedBy, bucketVars
  <2> QED
    BY <1>1, <1>2, <2>2, <2>4, CopyGoesOn
<1>8. CASE next # {}
  <2>1. copy' = [copy EXCEPT !.pc = "page", !.page = {<<o, bucket[o]>> : o \in next}, !.after = last] /\ names # {}
    BY <1>1, <1>5, <1>8
  <2>2. last \in Objects /\ last > copy.after
    BY <1>4, <1>5, <1>6, <2>1
  <2>3. {<<o, bucket[o]>> : o \in next} \in SUBSET Entries
    BY <1>2, <1>5 DEF Entries
  <2>4. copy' \in CopyOf /\ copy'.pc = "page" /\ copy'.marked = {} /\ copy'.after = last /\ copy'.scan = copy.scan
        /\ Awaited' = {<<o, bucket[o]>> : o \in next}
    BY <1>2, <1>3, <2>1, <2>2, <2>3 DEF CopyOf, Awaited
  <2>5. ASSUME NEW o \in Objects \ changed PROVE Passed(o)'
    <3>1. Passed(o)
      BY <1>2 DEF ScanSound
    <3>2. CASE bucket[o] = 0
      BY <1>1, <1>5, <1>6, <2>4, <3>1, <3>2 DEF Passed, NotedBy, bucketVars
    <3>3. CASE bucket[o] # 0
      <4>1. o <= last => o \in next \/ o <= copy.after
        BY <1>3, <1>4, <1>6, <2>1, <3>3
      <4>2. o <= copy.after => noted[o] # Absent /\ noted[o].generation = bucket[o] /\ noted[o].scan = copy.scan
        BY <1>2, <3>1, <3>3 DEF Passed
      <4> QED
        BY <1>1, <2>4, <3>3, <4>1, <4>2 DEF Passed, bucketVars
    <3> QED
      BY <3>2, <3>3
  <2>6. ScanSound'
    BY <1>1, <2>4, <2>5 DEF ScanSound, bucketVars
  <2> QED
    BY <1>1, <1>2, <2>4, <2>6, CopyGoesOn
<1> QED
  BY <1>7, <1>8

LEMMA DownloadStep == ASSUME MirrorInv, NEW o \in Objects, NEW g, Download(o, g) PROVE MirrorInv'
<1>1. /\ copy.pc = "page" /\ <<o, g>> \in copy.page
      /\ UNCHANGED <<bucketVars, copyRequest, status, noted, manifest, rowVars>>
  BY DEF Download
<1>2. copy \in CopyOf /\ noted \in [Objects -> NoteOf \cup {Absent}] /\ ScanSound
  BY <1>1 DEF MirrorInv, CopyInv, CopyTypes, AtRest
<1>3. CASE Reusable(o, g) /\ copy' = [copy EXCEPT !.page = @ \ {<<o, g>>}, !.marked = @ \cup {o}]
  <2>1. noted[o] # Absent /\ noted[o].generation = g
    BY <1>3 DEF Reusable
  <2>2. /\ copy' \in CopyOf /\ copy'.pc = "page" /\ copy'.scan = copy.scan /\ copy'.after = copy.after
        /\ Awaited' \subseteq Awaited /\ Awaited \subseteq Awaited' \cup {<<o, g>>}
        /\ copy'.marked = copy.marked \cup {o}
    BY <1>1, <1>2, <1>3 DEF CopyOf, Awaited
  <2>3. <<o, g>> \in Awaited
    BY <1>1 DEF Awaited
  <2>4. ASSUME NEW p \in Objects \ changed PROVE Passed(p)'
    <3>1. Passed(p)
      BY <1>2 DEF ScanSound
    <3>2. CASE p = o
      BY <1>1, <2>1, <2>2, <2>3, <3>1, <3>2 DEF Passed, NotedBy, bucketVars
    <3>3. CASE p # o
      <4>1. p \in copy'.marked <=> p \in copy.marked
        BY <2>2, <3>3
      <4>2. \A h : <<p, h>> \in Awaited' <=> <<p, h>> \in Awaited
        BY <2>2, <3>3
      <4> HIDE DEF Awaited
      <4> QED
        BY <1>1, <2>2, <3>1, <4>1, <4>2 DEF Passed, NotedBy, bucketVars
    <3> QED
      BY <3>2, <3>3
  <2>5. ScanSound'
    BY <1>1, <1>2, <2>1, <2>2, <2>4 DEF ScanSound, bucketVars
  <2> QED
    BY <1>1, <1>2, <2>2, <2>5, CopyGoesOn
<1>4. CASE copy' = [copy EXCEPT !.page = @ \ {<<o, g>>}, !.done = @ \cup {<<o, g>>}]
  <2>1. copy' \in CopyOf /\ copy'.pc = "page" /\ copy'.scan = copy.scan /\ copy'.after = copy.after
        /\ Awaited' = Awaited /\ copy'.marked = copy.marked
    BY <1>1, <1>2, <1>4 DEF CopyOf, Awaited
  <2>2. ScanSound'
    BY <1>1, <1>2, <2>1 DEF ScanSound, Passed, NotedBy, bucketVars
  <2> QED
    BY <1>1, <1>2, <2>1, <2>2, CopyGoesOn
<1> QED
  BY <1>3, <1>4 DEF Download

LEMMA NoteStep == ASSUME MirrorInv, Note PROVE MirrorInv'
<1> DEFINE item == Earliest(copy.done)
           o == item[1]
           note == [generation |-> item[2], scan |-> copy.scan]
<1>1. /\ copy.pc = "page" /\ copy.done # {}
      /\ noted' = [noted EXCEPT ![o] = note] /\ copy' = [copy EXCEPT !.done = @ \ {item}]
      /\ UNCHANGED <<bucketVars, copyRequest, status, copied, manifest, rowVars>>
  BY DEF Note
<1>2. copy \in CopyOf /\ noted \in [Objects -> NoteOf \cup {Absent}] /\ ScanSound
  BY <1>1 DEF MirrorInv, CopyInv, CopyTypes, AtRest
<1>3. item \in copy.done /\ item \in Entries /\ item \in Awaited
  BY <1>1, <1>2, EarliestIsOne DEF CopyOf, Awaited
<1> HIDE DEF item
<1>4. o \in Objects /\ item = <<o, item[2]>> /\ item[2] \in Nat
  BY <1>3 DEF Entries
<1>5. note \in NoteOf /\ note # Absent
  BY <1>2, <1>4, AbsentIsNoData DEF NoteOf, CopyOf
<1>6. noted' \in [Objects -> NoteOf \cup {Absent}] /\ noted'[o] = note /\ \A p \in Objects : p # o => noted'[p] = noted[p]
  BY <1>1, <1>2, <1>4, <1>5
<1>7. /\ copy' \in CopyOf /\ copy'.pc = "page" /\ copy'.scan = copy.scan /\ copy'.after = copy.after
      /\ copy'.marked = copy.marked /\ copy.marked \subseteq Objects
      /\ Awaited' \subseteq Awaited /\ Awaited \subseteq Awaited' \cup {item}
  BY <1>1, <1>2 DEF CopyOf, Awaited
<1>8. note.generation = item[2] /\ note.scan = copy.scan
  OBVIOUS
<1> HIDE DEF note, o
<1>9. ASSUME NEW p \in Objects \ changed PROVE Passed(p)'
  <2>1. Passed(p)
    BY <1>2 DEF ScanSound
  <2>2. CASE p = o
    <3>1. bucket[p] # 0 /\ item[2] = bucket[p]
      BY <1>3, <1>4, <2>1, <2>2 DEF Passed
    <3>2. \A g : <<p, g>> \in Awaited' => g = bucket[p]
      BY <1>7, <2>1, <3>1 DEF Passed
    <3> HIDE DEF Awaited
    <3> QED
      BY <1>1, <1>5, <1>6, <1>7, <1>8, <2>2, <3>1, <3>2 DEF Passed, bucketVars
  <2>3. CASE p # o
    <3>1. \A h : <<p, h>> \in Awaited' <=> <<p, h>> \in Awaited
      BY <1>4, <1>7, <2>3
    <3> HIDE DEF Awaited
    <3> QED
      BY <1>1, <1>6, <1>7, <2>1, <2>3, <3>1 DEF Passed, NotedBy, bucketVars
  <2> QED
    BY <2>2, <2>3
<1>10. ScanSound'
  <2>1. \A p \in copy'.marked : noted'[p] # Absent
    BY <1>2, <1>5, <1>6, <1>7 DEF ScanSound
  <2> QED
    BY <1>1, <1>7, <1>9, <2>1 DEF ScanSound, bucketVars
<1> QED
  BY <1>1, <1>6, <1>7, <1>10, CopyGoesOn

LEMMA EndPageStep == ASSUME MirrorInv, EndPage PROVE MirrorInv'
<1>1. /\ copy.pc = "page" /\ copy.page = {} /\ copy.done = {}
      /\ noted' = [o \in Objects |-> IF o \in copy.marked THEN [noted[o] EXCEPT !.scan = copy.scan] ELSE noted[o]]
      /\ copy' = [copy EXCEPT !.pc = "list", !.marked = {}]
      /\ UNCHANGED <<bucketVars, copyRequest, status, copied, manifest, rowVars>>
  BY DEF EndPage
<1>2. copy \in CopyOf /\ noted \in [Objects -> NoteOf \cup {Absent}] /\ ScanSound
  BY <1>1 DEF MirrorInv, CopyInv, CopyTypes, AtRest
<1>3. copy' \in CopyOf /\ copy'.pc = "list" /\ copy'.scan = copy.scan /\ copy'.after = copy.after
      /\ copy'.marked = {} /\ Awaited = {} /\ Awaited' = {}
  BY <1>1, <1>2 DEF CopyOf, Awaited
<1>4. ASSUME NEW o \in Objects
      PROVE  /\ o \notin copy.marked => noted'[o] = noted[o]
             /\ o \in copy.marked => /\ noted'[o] \in NoteOf /\ noted'[o] # Absent /\ noted[o] # Absent
                                     /\ noted'[o].scan = copy.scan /\ noted'[o].generation = noted[o].generation
  <2>1. CASE o \in copy.marked
    <3>1. noted[o] \in NoteOf /\ noted[o] # Absent /\ copy.scan \in Nat
      BY <1>2, <2>1 DEF ScanSound, CopyOf
    <3>2. noted'[o] = [noted[o] EXCEPT !.scan = copy.scan]
      BY <1>1, <2>1
    <3>3. noted'[o] \in NoteOf /\ noted'[o].scan = copy.scan /\ noted'[o].generation = noted[o].generation
      BY <3>1, <3>2 DEF NoteOf
    <3> QED
      BY <2>1, <3>1, <3>3, AbsentIsNoData DEF NoteOf
  <2>2. CASE o \notin copy.marked
    BY <1>1, <2>2
  <2> QED
    BY <2>1, <2>2
<1>5. noted' \in [Objects -> NoteOf \cup {Absent}]
  <2>1. noted' = [o \in Objects |-> noted'[o]]
    BY <1>1
  <2> QED
    BY <1>2, <1>4, <2>1
<1>6. ASSUME NEW o \in Objects \ changed PROVE Passed(o)'
  <2>1. Passed(o)
    BY <1>2 DEF ScanSound
  <2>2. CASE bucket[o] = 0
    BY <1>1, <1>3, <1>4, <2>1, <2>2 DEF Passed, NotedBy, bucketVars
  <2>3. CASE bucket[o] # 0
    BY <1>1, <1>3, <1>4, <2>1, <2>3 DEF Passed, bucketVars
  <2> QED
    BY <2>2, <2>3
<1>7. ScanSound'
  BY <1>1, <1>3, <1>6 DEF ScanSound, bucketVars
<1> QED
  BY <1>1, <1>3, <1>5, <1>7, CopyGoesOn

LEMMA ManifestStep == ASSUME MirrorInv, Manifest PROVE MirrorInv'
<1>1. /\ copy.pc = "manifest"
      /\ manifest' = {<<o, noted[o].generation>> : o \in Listed}
      /\ copy' = [copy EXCEPT !.pc = "report"]
      /\ UNCHANGED <<bucketVars, copyRequest, status, copied, noted, rowVars>>
  BY DEF Manifest
<1>2. /\ copy \in CopyOf /\ noted \in [Objects -> NoteOf \cup {Absent}] /\ bucket \in [Objects -> Nat]
      /\ ScanSound /\ Awaited = {} /\ copy.marked = {}
  BY <1>1 DEF MirrorInv, CopyInv, CopyTypes, AtRest, ScanSound
<1>3. Listed \subseteq Objects /\ \A o \in Listed : noted[o].generation \in Nat
  BY <1>2 DEF Listed, NoteOf
<1>4. manifest' \in SUBSET Entries
  BY <1>1, <1>3 DEF Entries
<1>5. ASSUME NEW o \in Objects \ changed
      PROVE  IF bucket[o] = 0 THEN \A g : <<o, g>> \notin manifest' ELSE <<o, bucket[o]>> \in manifest'
  <2>1. Passed(o) /\ (bucket[o] # 0 => o <= copy.after)
    BY <1>1, <1>2 DEF ScanSound
  <2>2. CASE bucket[o] = 0
    <3>1. o \notin Listed
      BY <2>1, <2>2 DEF Passed, NotedBy, Listed
    <3> QED
      BY <1>1, <2>2, <3>1
  <2>3. CASE bucket[o] # 0
    <3>1. o \in Listed /\ noted[o].generation = bucket[o]
      BY <1>2, <2>1, <2>3 DEF Passed, Listed
    <3> QED
      BY <1>1, <2>3, <3>1
  <2> QED
    BY <2>2, <2>3
<1>6. Sound(manifest)'
  BY <1>1, <1>4, <1>5 DEF Sound, Whole, bucketVars
<1>7. copy' \in CopyOf /\ copy'.pc = "report"
  BY <1>1, <1>2 DEF CopyOf
<1>8. CopyTypes' /\ StatusSound'
  BY <1>1, <1>6, <1>7 DEF MirrorInv, CopyInv, CopyTypes, StatusSound, bucketVars
<1>9. CopyInv'
  BY <1>6, <1>7, <1>8 DEF CopyInv
<1> QED
  BY <1>1, <1>9, ImportRests DEF MirrorInv

LEMMA EndOfCopyStep == ASSUME MirrorInv, Report \/ CopyFails PROVE MirrorInv'
<1>1. /\ copy' = AtRest /\ copy.pc # "idle"
      /\ UNCHANGED <<bucketVars, copyRequest, noted, manifest, rowVars>>
      /\ \/ copy.pc = "report" /\ status' = Said(copyRequest, "VERIFIED")
         \/ status' = Said(copyRequest, "RETRYING") \/ status' = status
  BY DEF Report, CopyFails
<1>2. CopyTypes'
  BY <1>1 DEF MirrorInv, CopyInv, CopyTypes, bucketVars
<1>3. \A entries : Sound(entries) => Sound(entries)'
  BY <1>1 DEF Sound, Whole, bucketVars
<1>4. copyRequest \in Nat /\ status.request \in Nat /\ status.request <= copyRequest /\ status.state = "COPYING"
  BY <1>1 DEF MirrorInv, CopyInv, CopyTypes, StatusSound
<1>5. copy.pc = "report" => Sound(manifest)
  BY DEF MirrorInv, CopyInv
<1>6. StatusSound'
  BY <1>1, <1>3, <1>4, <1>5 DEF StatusSound, Answered, Said, AtRest
<1>7. CopyInv'
  BY <1>1, <1>2, <1>6 DEF CopyInv, AtRest
<1> QED
  BY <1>1, <1>7, ImportRests DEF MirrorInv

-----------------------------------------------------------------------------
(* The import                                                              *)

\* Steps of the import do not touch the copy, nor does a damaged file.
LEMMA CopyRests ==
  ASSUME MirrorInv, UNCHANGED <<bucketVars, copyRequest, status, noted, manifest, copy>>
  PROVE  CopyInv'
<1>1. \A entries : Sound(entries)' <=> Sound(entries)
  BY DEF Sound, Whole, bucketVars
<1> QED
  BY <1>1 DEF MirrorInv, CopyInv, CopyTypes, StatusSound, Answered, ScanSound, Passed, NotedBy, Awaited, bucketVars

LEMMA DamageStep == ASSUME MirrorInv, NEW o \in Objects, Damage(o) PROVE MirrorInv'
BY CopyRests, ImportRests DEF Damage, MirrorInv

\* What the store writes over a row keeps its source.
LEMMA PutStep ==
  ASSUME MirrorInv, NEW o \in Objects, Put(o)
  PROVE  /\ MirrorInv'
         /\ \A p \in Objects : /\ p # o => rows'[p] = rows[p]
                              /\ \A g : Stands(p, g) => Stands(p, g)'
         /\ rows'[o].content \in {"local"} \X Nat /\ rows'[o].source \in {Absent} \cup ({"source"} \X Nat)
<1> DEFINE new == IF rows[o] = Absent THEN [content |-> Local(locals), source |-> Absent, version |-> 1]
                  ELSE [content |-> Local(locals), source |-> rows[o].source, version |-> rows[o].version + 1]
<1>1. /\ rows' = [rows EXCEPT ![o] = new] /\ locals' = locals + 1
      /\ UNCHANGED <<bucketVars, copyVars, import, receipt, raced, copyFaults>>
  BY DEF Put
<1>2. locals \in Nat /\ DOMAIN rows = Objects /\ RowSound(rows[o])
  BY DEF MirrorInv, ImportInv
<1>3. new \in RowOf /\ new.content \in {"local"} \X Nat /\ (rows[o] # Absent => new.source = rows[o].source)
  <2>1. CASE rows[o] = Absent
    BY <1>2, <2>1 DEF RowOf, Local
  <2>2. CASE rows[o] # Absent
    <3>1. rows[o] \in RowOf
      BY <1>2, <2>2 DEF RowSound
    <3> QED
      BY <1>2, <2>2, <3>1 DEF RowOf, Local
  <2> QED
    BY <2>1, <2>2
<1>4. new # Absent
  BY <1>3, AbsentIsNoData DEF RowOf
<1>5. new.source \in {Absent} \cup ({"source"} \X Nat)
  BY <1>3 DEF RowOf
<1> HIDE DEF new
<1>6. /\ rows'[o] = new /\ DOMAIN rows' = Objects /\ \A p \in Objects : p # o => rows'[p] = rows[p]
  BY <1>1, <1>2
<1>7. \A p \in Objects : RowSound(rows[p])'
  BY <1>3, <1>6 DEF RowSound, MirrorInv, ImportInv
<1>8. \A p \in Objects : \A g : Stands(p, g) => Stands(p, g)'
  BY <1>3, <1>4, <1>6 DEF Stands
<1>9. ImportInv'
  <2>1. \A entries : Sound(entries)' <=> Sound(entries)
    BY <1>1 DEF Sound, Whole, bucketVars
  <2>2. import.pc = "verify" => \A e \in import.entries : e[1] \in Objects
    BY DEF MirrorInv, ImportInv, Sound, Entries
  <2> QED
    BY <1>1, <1>2, <1>6, <1>7, <1>8, <2>1, <2>2 DEF MirrorInv, ImportInv
<1> QED
  BY <1>1, <1>3, <1>5, <1>6, <1>8, <1>9, CopyRests DEF MirrorInv, copyVars

LEMMA ImportStep == ASSUME MirrorInv, Import PROVE MirrorInv'
<1>1. /\ import.pc = "idle" /\ Answered(copyRequest)
      /\ import' = [pc |-> "look", left |-> manifest, entries |-> manifest, copied |-> copied]
      /\ UNCHANGED <<bucketVars, copyVars, rows, raced, locals, copyFaults>>
  BY DEF Import
<1>2. Sound(manifest)'
  BY <1>1 DEF MirrorInv, CopyInv, StatusSound, Sound, Whole, bucketVars, copyVars
<1>3. ImportInv'
  BY <1>1, <1>2 DEF MirrorInv, ImportInv, copyVars
<1> QED
  BY <1>1, <1>3, CopyRests DEF MirrorInv, copyVars

\* An import that is over leaves its rows.
LEMMA GiveStep ==
  ASSUME MirrorInv, NEW state, Give(state), UNCHANGED <<bucketVars, copyVars, locals>>
  PROVE  MirrorInv'
<1>1. ImportInv'
  BY DEF MirrorInv, ImportInv, Give, AtRest
<1> QED
  BY <1>1, CopyRests DEF MirrorInv, copyVars

LEMMA LookStep == ASSUME MirrorInv, Look PROVE MirrorInv'
<1> DEFINE entry == Earliest(import.left)
           row == rows[entry[1]]
<1>1. /\ import.pc = "look" /\ import.left # {} /\ UNCHANGED <<bucketVars, copyVars, locals, copyFaults>>
      /\ \/ Give("REVIEW")
         \/ import' = [import EXCEPT !.left = @ \ {entry}] /\ UNCHANGED <<rows, receipt, raced>>
         \/ /\ ~Conflict(row)
            /\ import' = [pc |-> "commit", left |-> import.left \ {entry}, entries |-> import.entries,
                          copied |-> import.copied, entry |-> entry, row |-> row]
            /\ UNCHANGED <<rows, receipt, raced>>
  BY DEF Look
<1>2. Sound(import.entries) /\ import.left \in SUBSET import.entries
  BY <1>1 DEF MirrorInv, ImportInv
<1>3. entry \in import.left /\ entry[1] \in Objects /\ entry[2] \in Nat
  <2>1. import.left \in SUBSET Entries
    BY <1>2 DEF Sound
  <2>2. entry \in import.left
    BY <1>1, <2>1, EarliestIsOne
  <2> QED
    BY <2>1, <2>2 DEF Entries
<1> HIDE DEF entry
<1>4. \A entries : Sound(entries)' <=> Sound(entries)
  BY <1>1 DEF Sound, Whole, bucketVars
<1>5. CASE import' = [import EXCEPT !.left = @ \ {entry}] /\ UNCHANGED <<rows, receipt, raced>>
  <2>1. import'.pc = import.pc /\ import'.entries = import.entries /\ import'.left \subseteq import.left
    BY <1>5
  <2>2. ImportInv'
    BY <1>1, <1>2, <1>4, <1>5, <2>1 DEF MirrorInv, ImportInv
  <2> QED
    BY <1>1, <2>2, CopyRests DEF MirrorInv, copyVars
<1>6. CASE /\ ~Conflict(row)
           /\ import' = [pc |-> "commit", left |-> import.left \ {entry}, entries |-> import.entries,
                         copied |-> import.copied, entry |-> entry, row |-> row]
           /\ UNCHANGED <<rows, receipt, raced>>
  <2>1. /\ import'.pc = "commit" /\ import'.entries = import.entries /\ import'.left \subseteq import.left
        /\ import'.row = row /\ import'.entry = entry
    BY <1>6
  <2>2. RowSound(row)
    BY <1>3 DEF MirrorInv, ImportInv
  <2>3. RowSound(import'.row) /\ ~Conflict(import'.row) /\ import'.entry[2] \in Nat
    BY <1>3, <1>6, <2>1, <2>2
  <2>4. ImportInv'
    BY <1>1, <1>2, <1>4, <1>6, <2>1, <2>3 DEF MirrorInv, ImportInv
  <2> QED
    BY <1>1, <2>4, CopyRests DEF MirrorInv, copyVars
<1> QED
  BY <1>1, <1>5, <1>6, GiveStep

\* The row that is replaced is the one that was looked at, or was written since.
LEMMA WriteStep ==
  ASSUME MirrorInv, WriteRow
  PROVE  /\ MirrorInv' /\ import.pc = "commit"
         /\ \/ rows' = rows
            \/ /\ \A o \in Objects : o # import.entry[1] => rows'[o] = rows[o]
               /\ \A o \in Objects : o = import.entry[1] /\ rows[o] # Absent /\ rows[o].content # rows[o].source => raced'
<1> DEFINE o == import.entry[1]
           new == [content |-> Bytes(import.entry[2]), source |-> Bytes(import.entry[2]),
                   version |-> IF import.row = Absent THEN 1 ELSE import.row.version + 1]
<1>1. /\ import.pc = "commit" /\ UNCHANGED <<bucketVars, copyVars, locals, copyFaults>>
      /\ \/ Give("REVIEW")
         \/ /\ rows' = [rows EXCEPT ![o] = new] /\ raced' = (raced \/ rows[o] # import.row)
            /\ import' = [pc |-> "look", left |-> import.left, entries |-> import.entries, copied |-> import.copied]
  BY DEF WriteRow
<1>2. /\ Sound(import.entries) /\ import.left \in SUBSET import.entries
      /\ RowSound(import.row) /\ ~Conflict(import.row) /\ import.entry[2] \in Nat
      /\ DOMAIN rows = Objects /\ \A p \in Objects : RowSound(rows[p])
  BY <1>1 DEF MirrorInv, ImportInv
<1>3. CASE Give("REVIEW")
  BY <1>1, <1>3, GiveStep DEF Give
<1>4. CASE /\ rows' = [rows EXCEPT ![o] = new] /\ raced' = (raced \/ rows[o] # import.row)
           /\ import' = [pc |-> "look", left |-> import.left, entries |-> import.entries, copied |-> import.copied]
  <2>1. new \in RowOf /\ new.content = new.source
    <3>1. import.row # Absent => import.row.version \in Nat
      BY <1>2 DEF RowSound, RowOf
    <3> QED
      BY <1>2, <3>1 DEF RowOf, Bytes
  <2> HIDE DEF new
  <2>2. DOMAIN rows' = Objects /\ \A p \in Objects : RowSound(rows[p])'
    BY <1>2, <1>4, <2>1 DEF RowSound
  <2>3. Sound(import.entries)'
    BY <1>1, <1>2, <1>4 DEF Sound, Whole, bucketVars
  <2>4. ImportInv'
    BY <1>1, <1>2, <1>4, <2>2, <2>3 DEF MirrorInv, ImportInv
  <2>5. MirrorInv'
    BY <1>1, <2>4, CopyRests DEF MirrorInv, copyVars
  <2>6. \A p \in Objects : p # o => rows'[p] = rows[p]
    BY <1>4
  <2>7. rows[o] # Absent /\ rows[o].content # rows[o].source => raced'
    BY <1>2, <1>4 DEF Conflict
  <2> QED
    BY <1>1, <2>5, <2>6, <2>7
<1> QED
  BY <1>1, <1>3, <1>4

LEMMA VerifyStep ==
  ASSUME MirrorInv, Verify
  PROVE  MirrorInv' /\ rows' = rows
<1> DEFINE entry == Earliest(import.left)
<1>1. UNCHANGED <<bucketVars, copyVars, locals, copyFaults, rows, raced>>
  BY DEF Verify, Give
<1>2. \A entries : Sound(entries)' <=> Sound(entries)
  BY <1>1 DEF Sound, Whole, bucketVars
<1>3. CASE \/ Give("VERIFIED") \/ Give("REVIEW")
  BY <1>1, <1>3, GiveStep
<1>4. CASE import.pc = "look" /\ import' = [import EXCEPT !.pc = "verify", !.left = import.entries]
  <2>1. ImportInv'
    <3>1. import'.pc = "verify" \/ import'.pc = import.pc
      BY <1>4
    <3>2. import'.pc # "idle" /\ import'.pc # "commit" /\ import'.entries = import.entries
          /\ import'.left \subseteq import.entries /\ (import'.pc = "verify" => import'.left = import.entries)
      BY <1>4 DEF MirrorInv, ImportInv
    <3> QED
      BY <1>1, <1>2, <1>4, <3>1, <3>2 DEF MirrorInv, ImportInv
  <2> QED
    BY <1>1, <2>1, CopyRests DEF MirrorInv, copyVars
<1>5. CASE /\ import.pc = "verify" /\ import.left # {} /\ Current(rows[entry[1]], entry[2])
           /\ import' = [import EXCEPT !.left = @ \ {entry}]
  <2>1. Sound(import.entries) /\ import.left \in SUBSET import.entries
    BY <1>5 DEF MirrorInv, ImportInv
  <2>2. entry \in Entries
    BY <1>5, <2>1, EarliestIsOne DEF Sound
  <2> HIDE DEF entry
  <2>3. Stands(entry[1], entry[2])
    <3>1. RowSound(rows[entry[1]])
      BY <2>2 DEF Entries, MirrorInv, ImportInv
    <3>2. rows[entry[1]].content = Bytes(entry[2]) /\ rows[entry[1]] # Absent
      BY <1>5 DEF Current
    <3>3. Bytes(entry[2]) \notin {"local"} \X Nat
      BY DEF Bytes
    <3> QED
      BY <3>1, <3>2, <3>3 DEF RowSound, Stands
  <2>4. import'.pc = "verify" /\ import'.entries = import.entries /\ import'.left = import.left \ {entry}
    <3>1. DOMAIN import = DOMAIN import'
      BY <1>5
    <3> QED
      BY <1>5
  <2>5. \A e \in import'.entries \ import'.left : Stands(e[1], e[2])'
    BY <1>1, <1>5, <2>3, <2>4 DEF Stands, MirrorInv, ImportInv
  <2>6. ImportInv'
    BY <1>1, <1>2, <2>1, <2>4, <2>5 DEF MirrorInv, ImportInv
  <2> QED
    BY <1>1, <2>6, CopyRests DEF MirrorInv, copyVars
<1> QED
  BY <1>1, <1>3, <1>4, <1>5 DEF Verify

-----------------------------------------------------------------------------
(* The archive                                                             *)

LEMMA MirrorStep == ASSUME MirrorInv, [MirrorNext]_mirrorVars PROVE MirrorInv'
<1>1. CASE SourceWrite \/ Queue \/ Execute \/ ListPage \/ Note \/ EndPage
  BY <1>1, SourceStep, QueueStep, ExecuteStep, ListStep, NoteStep, EndPageStep
<1>2. CASE Manifest \/ Report \/ CopyFails
  BY <1>2, ManifestStep, EndOfCopyStep
<1>3. ASSUME NEW o \in Objects, Damage(o) \/ Put(o) \/ \E g \in 1 .. MaxSourceWrites : Download(o, g) PROVE MirrorInv'
  BY <1>3, DamageStep, PutStep, DownloadStep
<1>4. CASE Import \/ Look \/ WriteRow \/ Verify
  BY <1>4, ImportStep, LookStep, WriteStep, VerifyStep
<1>5. CASE ImportFails
  BY <1>5, GiveStep DEF ImportFails
<1>6. CASE UNCHANGED mirrorVars
  BY <1>6, CopyRests, ImportRests DEF MirrorInv, mirrorVars, copyVars
<1> QED
  BY <1>1, <1>2, <1>3, <1>4, <1>5, <1>6 DEF MirrorNext

\* An import says it is verified when it has compared every entry.
LEMMA VerifiedIsWhole ==
  ASSUME MirrorInv, [MirrorNext]_mirrorVars, receipt # "VERIFIED", receipt' = "VERIFIED",
         NEW o \in Objects \ changed, bucket[o] # 0
  PROVE  Stands(o, bucket[o])'
<1>1. Verify /\ import.pc = "verify" /\ import.left = {}
  BY DEF MirrorNext, SourceWrite, Queue, Execute, ListPage, Note, EndPage, Manifest, Report, CopyFails, Damage, Put,
     Download, Import, Look, WriteRow, Verify, ImportFails, Give, mirrorVars, copyVars, rowVars
<1>2. <<o, bucket[o]>> \in import.entries
  BY <1>1 DEF MirrorInv, ImportInv, Sound, Whole
<1>3. Stands(o, bucket[o])
  BY <1>1, <1>2 DEF MirrorInv, ImportInv
<1>4. UNCHANGED <<rows, bucket>>
  BY <1>1, VerifyStep DEF Verify, bucketVars
<1> QED
  BY <1>3, <1>4 DEF Stands

\* What the store has written is replaced by the store alone.
LEMMA LocalIsKept ==
  ASSUME MirrorInv, [MirrorNext]_mirrorVars,
         NEW o \in Objects, rows[o] # Absent, rows[o].content # rows[o].source, rows'[o] # rows[o]
  PROVE  rows'[o].content # rows'[o].source \/ raced'
<1>1. WriteRow \/ \E p \in Objects : Put(p)
  BY DEF MirrorNext, SourceWrite, Queue, Execute, ListPage, Note, EndPage, Manifest, Report, CopyFails, Damage,
     Download, Import, Look, Verify, ImportFails, Give, mirrorVars, copyVars, rowVars
<1>2. CASE WriteRow
  BY <1>2, WriteStep
<1>3. ASSUME NEW p \in Objects, Put(p) PROVE rows'[o].content # rows'[o].source
  <2>1. o = p
    BY <1>3, PutStep
  <2>2. rows'[o].content \in {"local"} \X Nat /\ rows'[o].source \in {Absent} \cup ({"source"} \X Nat)
    BY <1>3, <2>1, PutStep
  <2>3. Absent \notin {"local"} \X Nat
    BY AbsentIsNoData
  <2> QED
    BY <2>2, <2>3
<1> QED
  BY <1>1, <1>2, <1>3

\* archive_vm.py, merge_archive.py: a copy that says it is verified holds every object as
\* it was when the copy was asked for; so does the database after an import that says so,
\* and no import replaces what the store of the new database has written.
THEOREM ArchiveIsSound == MirrorSpec => ArchiveSound
<1>1. MirrorInv => CopyIsWhole
  BY DEF MirrorInv, CopyInv, StatusSound, CopyIsWhole, Sound, Whole
<1>2. MirrorInv /\ [MirrorNext]_mirrorVars =>
        [receipt # "VERIFIED" /\ receipt' = "VERIFIED" =>
           \A o \in Objects \ changed : bucket[o] # 0 =>
             rows'[o] # Absent /\ (rows'[o].content = Bytes(bucket[o]) \/ rows'[o].source = Bytes(bucket[o]))]_mirrorVars
  <2> SUFFICES ASSUME MirrorInv, [MirrorNext]_mirrorVars, receipt # "VERIFIED", receipt' = "VERIFIED",
                      NEW o \in Objects \ changed, bucket[o] # 0
               PROVE  rows'[o] # Absent /\ rows'[o].source = Bytes(bucket[o])
    OBVIOUS
  <2>1. Stands(o, bucket[o])'
    BY VerifiedIsWhole
  <2>2. bucket' = bucket
    BY DEF MirrorNext, SourceWrite, Queue, Execute, ListPage, Note, EndPage, Manifest, Report, CopyFails, Damage, Put,
       Download, Import, Look, WriteRow, Verify, ImportFails, Give, mirrorVars, bucketVars, rowVars
  <2> QED
    BY <2>1, <2>2 DEF Stands, Bytes
<1>3. MirrorInv /\ [MirrorNext]_mirrorVars =>
        [\A o \in Objects :
           rows[o] # Absent /\ rows[o].content # rows[o].source /\ rows'[o] # rows[o] =>
             rows'[o].content # rows'[o].source \/ raced']_mirrorVars
  BY LocalIsKept
<1>4. MirrorInv /\ [MirrorNext]_mirrorVars => MirrorInv'
  BY MirrorStep
<1> QED
  BY <1>1, <1>2, <1>3, <1>4, MirrorBegins, PTL DEF MirrorSpec, ArchiveSound, ImportSound, ImportIsWhole, LocalKept
=============================================================================
