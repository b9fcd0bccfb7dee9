----------------------------- MODULE EngineSlot -----------------------------
(***************************************************************************)
(* What a lurien session promises the faces that drive it: a place for one *)
(* engine.  The engine it would hand out is running, and no engine is       *)
(* stopped while it is there.  Session implements it.                      *)
(***************************************************************************)
CONSTANTS Engines, \* engine processes
          None     \* no engine

VARIABLES slot,    \* the engine the session hands out
          running  \* the engine processes that run

TypeOK == slot \in Engines \union {None} /\ running \subseteq Engines

Init == slot = None /\ running = {}

\* An engine is started, for this session or to replace what it has.
Start(e) == e \notin running /\ running' = running \union {e} /\ UNCHANGED slot

\* A session with no engine gets one, and one with an engine may trade it.
Hold(e) == e \in running /\ slot' = e /\ UNCHANGED running

\* The session gives its engine up, which goes on running.
GiveUp == slot' = None /\ UNCHANGED running

\* An engine the session does not have is stopped.
Stop(e) == e # slot /\ running' = running \ {e} /\ UNCHANGED slot

Next == \/ \E e \in Engines : Start(e) \/ Hold(e) \/ Stop(e)
        \/ GiveUp

Spec == Init /\ [][Next]_<<slot, running>>
=============================================================================
