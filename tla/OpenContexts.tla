---------------------------- MODULE OpenContexts ----------------------------
(***************************************************************************)
(* What the registry promises about contexts that nobody closes and that   *)
(* never fall idle: each is opened once, every request for it drives the   *)
(* session that opening made, and no step of anybody takes the session or  *)
(* its engine away.  Registry implements it.                               *)
(***************************************************************************)
CONSTANTS Contexts, \* contexts that stay open
          Tasks,    \* requests at work
          Sessions, \* session objects
          None      \* no context, no session

VARIABLES session, \* the session of each context
          asks,    \* the context each task was sent for, if it is one of these
          driven,  \* the session it has in hand for it
          engaged  \* contexts whose session has an engine

TypeOK == /\ session \in [Contexts -> Sessions \union {None}]
          /\ asks \in [Tasks -> Contexts \union {None}]
          /\ driven \in [Tasks -> Sessions \union {None}]
          /\ engaged \subseteq Contexts

Init == /\ session = [x \in Contexts |-> None]
        /\ asks = [t \in Tasks |-> None]
        /\ driven = [t \in Tasks |-> None]
        /\ engaged = {}

Ask(t, x) ==
    /\ asks[t] = None
    /\ asks' = [asks EXCEPT ![t] = x]
    /\ UNCHANGED <<session, driven, engaged>>

\* The first launch to get there makes the session; nobody else has it.
Open(t, x, s) ==
    /\ asks[t] = x
    /\ driven[t] = None
    /\ session[x] = None
    /\ \A y \in Contexts : session[y] # s
    /\ \A u \in Tasks : driven[u] # s
    /\ session' = [session EXCEPT ![x] = s]
    /\ driven' = [driven EXCEPT ![t] = s]
    /\ UNCHANGED <<asks, engaged>>

\* Every other request for the context is given that one.
Reach(t, x) ==
    /\ asks[t] = x
    /\ driven[t] = None
    /\ session[x] # None
    /\ driven' = [driven EXCEPT ![t] = session[x]]
    /\ UNCHANGED <<session, asks, engaged>>

\* A request that drives the session starts its engine.
Engage(t, x) ==
    /\ asks[t] = x
    /\ driven[t] # None
    /\ engaged' = engaged \union {x}
    /\ UNCHANGED <<session, asks, driven>>

Leave(t) ==
    /\ asks' = [asks EXCEPT ![t] = None]
    /\ driven' = [driven EXCEPT ![t] = None]
    /\ UNCHANGED <<session, engaged>>

Next == \E t \in Tasks : \/ Leave(t)
                         \/ \E x \in Contexts : \/ Ask(t, x)
                                               \/ Reach(t, x)
                                               \/ Engage(t, x)
                                               \/ \E s \in Sessions : Open(t, x, s)

Spec == Init /\ [][Next]_<<session, asks, driven, engaged>>
=============================================================================
