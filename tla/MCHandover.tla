------------------------------ MODULE MCHandover ------------------------------
(* What moves a running installation: the handover, the copy of the archive  *)
(* and its import, a release, and the directory of instruments that all of   *)
(* them serve.  One instance of each, only one of which moves in a behaviour. *)
EXTENDS Handover, ArchiveMirror, Deploy, InstrumentDirectory

CONSTANTS id1, c1, c2
Line(contract) == [id |-> id1, contract |-> contract, mapped |-> TRUE]
MCMasters == <<<<Line(c1)>>, <<Line(c2), Line(c1)>>>>

VARIABLE side

Init ==
  /\ HandoverInit /\ MirrorInit /\ DeployInit /\ DirectoryInit
  /\ side \in {"handover", "mirror", "deploy", "directory"}
  /\ side # "deploy" => recorded = NoRelease
HandoverSide ==
  side = "handover" /\ HandoverNext /\ UNCHANGED <<side, mirrorVars, deployVars, directoryVars>>
MirrorSide ==
  side = "mirror" /\ MirrorNext /\ UNCHANGED <<side, handoverVars, deployVars, directoryVars>>
DeploySide ==
  side = "deploy" /\ DeployNext /\ UNCHANGED <<side, handoverVars, mirrorVars, directoryVars>>
DirectorySide ==
  side = "directory" /\ DirectoryNext /\ UNCHANGED <<side, handoverVars, mirrorVars, deployVars>>
Next == HandoverSide \/ MirrorSide \/ DeploySide \/ DirectorySide

\* HandoverSpec and DeploySpec, each for its side.
Moves(A) == side = "handover" /\ A
FairSpec ==
  /\ Init /\ [][Next]_<<side, handoverVars, mirrorVars, deployVars, directoryVars>>
  /\ WF_handoverVars(Moves(ScriptNext)) /\ WF_handoverVars(Moves(LiveNext))
  /\ \A e \in Executions : WF_handoverVars(Moves(Launch(e))) /\ WF_handoverVars(Moves(Main(e)))
  /\ \A a \in Actors : WF_handoverVars(Moves(Return(a))) /\ WF_handoverVars(Moves(phase[a] = "cancelled" /\ Finish(a)))
  /\ \A s \in Servers : WF_handoverVars(Moves(Finish(s)))
  /\ WF_deployVars(side = "deploy" /\ RunNext)

\* A first handover that failed leaves somebody collecting, a sound revision is
\* deployed in the end.
MovesEnd == SomeoneCollects /\ HeadDeployed

\* Whatever fails, a first handover that ends after its rollback has undone what it did.
Restored ==
  runs = 1 /\ script.pc = "failed" =>
    marker = "LEGACY" /\ schedule = "ENABLED" /\ owner = "HOLD" /\ traffic = "old"
=============================================================================
