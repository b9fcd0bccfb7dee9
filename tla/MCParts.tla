------------------------------- MODULE MCParts -------------------------------
(***************************************************************************)
(* The parts of a session that share no state, checked in one run: each     *)
(* behaviour is one of one of them, the others standing still, so that the  *)
(* states are the sum of theirs and not the product.                       *)
(***************************************************************************)
EXTENDS Control, Frames, Goto, Downloads, EngineProcess, TLC

VARIABLE part

vars == <<part, controlVars, framesVars, gotoVars, downloadsVars, processVars>>

\* A log without downloads names no key and no file.
NoDownloads ==
    /\ key = None /\ name = None
    /\ begun = {} /\ ended = {} /\ disk = {}
    /\ log = <<>> /\ seen = <<>>
    /\ wanted = None /\ turn = "idle" /\ outcome = None

Init ==
    /\ part \in {"control", "frames", "goto", "downloads", "process"}
    /\ ControlInit /\ FramesInit /\ GotoInit /\ ProcessInit
    /\ IF part = "downloads" THEN DownloadsInit ELSE NoDownloads
    /\ part # "control" => current = Persona
    /\ part # "frames" => page = {}

ControlSteps ==
    /\ part = "control"
    /\ ControlNext
    /\ UNCHANGED <<part, framesVars, gotoVars, downloadsVars, processVars>>

FramesSteps ==
    /\ part = "frames"
    /\ FramesNext
    /\ UNCHANGED <<part, controlVars, gotoVars, downloadsVars, processVars>>

GotoSteps ==
    /\ part = "goto"
    /\ GotoNext
    /\ UNCHANGED <<part, controlVars, framesVars, downloadsVars, processVars>>

DownloadsSteps ==
    /\ part = "downloads"
    /\ DownloadsNext
    /\ UNCHANGED <<part, controlVars, framesVars, gotoVars, processVars>>

ProcessSteps ==
    /\ part = "process"
    /\ ProcessNext
    /\ UNCHANGED <<part, controlVars, framesVars, gotoVars, downloadsVars>>

Next == ControlSteps \/ FramesSteps \/ GotoSteps \/ DownloadsSteps \/ ProcessSteps

Spec == Init /\ [][Next]_vars

\* Types, of every part, and what their comments add.
TypesOK == /\ part = "control" => ControlTypeOK
           /\ part = "frames" => FramesTypeOK
           /\ part = "goto" => GotoTypeOK
           /\ part = "downloads" => DownloadsTypeOK
           /\ part = "process" => ProcessTypeOK

\* The tasks of one part are those of another, and so are the values: one
\* permutation serves every part.
Symmetry == Permutations(Drivers) \union Permutations(Contexts) \union Permutations(Names)
=============================================================================
