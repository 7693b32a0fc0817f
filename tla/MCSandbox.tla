------------------------------ MODULE MCSandbox ------------------------------
(* What is done about a sandbox, one part at a time: its image is built,   *)
(* it is created and listed, a file in it is written, and a process in it  *)
(* is talked to and waited for.  The parts share no state: each behaviour  *)
(* follows one of them while the others stay as they are.                  *)
EXTENDS ExecRefinement, ImageBuild, SandboxLifecycle, SandboxFiles, ContainerWait

VARIABLE part         \* the part that is followed

sandboxVars == <<part, vars, imgVars, sbxVars, fsVars, waitVars>>

SandboxInit ==
    /\ part \in {"image", "lifecycle", "files", "process", "wait"}
    /\ Init /\ (part # "process" => ~eof)
    /\ SbxInit /\ FsInit
    /\ WaitInit /\ (part # "wait" => waitDeadline = NoDeadline)
    /\ ImgInit /\ (part # "image" => imgStore[1].state = "built")

SandboxNext ==
    \/ part = "image" /\ ImgNext /\ UNCHANGED <<part, vars, sbxVars, fsVars, waitVars>>
    \/ part = "lifecycle" /\ SbxNext /\ UNCHANGED <<part, vars, imgVars, fsVars, waitVars>>
    \/ part = "files" /\ FsNext /\ UNCHANGED <<part, vars, imgVars, sbxVars, waitVars>>
    \/ part = "process" /\ Next /\ UNCHANGED <<part, imgVars, sbxVars, fsVars, waitVars>>
    \/ part = "wait" /\ WaitNext /\ UNCHANGED <<part, vars, imgVars, sbxVars, fsVars>>

SandboxSpec == SandboxInit /\ [][SandboxNext]_sandboxVars /\ ImgFairness /\ SbxFairness

(* The types of the part that is followed; the others keep their values.   *)
SandboxTypeOK ==
    /\ part = "process" => TypeOK
    /\ part = "image" => ImgTypeOK
    /\ part = "lifecycle" => SbxTypeOK
    /\ part = "files" => FsTypeOK
    /\ part = "wait" => WaitTypeOK

(* What is reported of a sandbox and of a process in it is true of it.     *)
ReportsHold == ReportsAreTrue /\ ExitCodesAreTrue

(* An image build that is under way ends, and so do create and list.       *)
SandboxEnds == BuildEnds /\ CreateAndListEnd
=============================================================================
