------------------------------- MODULE Control -------------------------------
(***************************************************************************)
(* The state a session shares with its engine over the control channel:    *)
(* the route table (lurien/src/session.rs) and the position (geo.rs), both  *)
(* held twice.  A call (control.rs) is one request and one reply on its own *)
(* connection, given up after ten seconds, whatever the engine makes of it. *)
(* The routes mutex is held over the calls; the position's is not.         *)
(*                                                                         *)
(* The engine is external: it takes requests in any order, also one nobody *)
(* waits for any more, and one that starts has no routes and the position   *)
(* it was handed when it was spawned.                                      *)
(***************************************************************************)
EXTENDS Option, Naturals, Sequences, FiniteSets

CONSTANTS Drivers,   \* tasks that run route and geolocation verbs
          Routes,
          Positions,
          Persona,   \* the persona's own position, or None
          MaxRoutes, \* bound on the table
          MaxLate    \* bound on the requests the engine has yet to take

Fixes == Positions \union {None}
Tables == UNION {[1..n -> Routes] : n \in 0..MaxRoutes}

ASSUME DriversAssumption == None \notin Drivers
ASSUME PersonaAssumption == Persona \in Fixes
ASSUME LateAssumption == MaxRoutes \in Nat /\ MaxLate \in Nat

Requests == [op : {"route.set"}, what : Tables] \union [op : {"route.get"}]
            \union [op : {"position.set"}, what : Fixes]

ASSUME NoRequest == None \notin Requests

VARIABLES table,    \* the session's routes, in match order
          holder,   \* the task that holds the routes mutex
          current,  \* the position the session remembers
          job,      \* the call each task is in
          request,  \* what it asked the engine
          reply,    \* what came back
          late,     \* requests given up that the engine may still take
          served,   \* the engine's routes
          fix,      \* the position the engine serves
          up,       \* an engine listens
          starting, \* the position handed to the engine being launched, if any
          doubt     \* history: what the two sides need not agree on

engine == <<served, fix, up, starting>>
controlVars == <<table, holder, current, job, request, reply, late,
                 served, fix, up, starting, doubt>>

RouteJobs == {"add", "clear", "report"}
Writing(t) == job[t] \in {"add", "clear"}
Waiting(t) == job[t] # "idle" /\ reply[t] = "none"

\* The engine has taken t's position and t has not remembered it yet.
Crossing(t) == job[t] = "move" /\ reply[t] \in {"yes", "partly"}

\* doubt once x is added to it when p, and taken off it when not.
Doubt(x, p) == IF p THEN doubt \union {x} ELSE doubt \ {x}

-----------------------------------------------------------------------------
ControlInit ==
    /\ table = <<>>
    /\ holder = None
    /\ \E p \in Positions \union {Persona} : current = p
    /\ job = [t \in Drivers |-> "idle"]
    /\ request = [t \in Drivers |-> None]
    /\ reply = [t \in Drivers |-> "none"]
    /\ late = {}
    /\ served = <<>>
    /\ fix = None
    /\ up = FALSE
    /\ starting = {}
    /\ doubt = {}

Ask(t, j, r) ==
    /\ job' = [job EXCEPT ![t] = j]
    /\ request' = [request EXCEPT ![t] = r]
    /\ reply' = [reply EXCEPT ![t] = "none"]

Return(t) ==
    /\ job' = [job EXCEPT ![t] = "idle"]
    /\ request' = [request EXCEPT ![t] = None]
    /\ reply' = [reply EXCEPT ![t] = "none"]

\* Every way out of a route call drops the guard.
Unlock(t) == holder' = IF holder = t THEN None ELSE holder

-----------------------------------------------------------------------------
(* add_route, clear_routes, route_report *)

\* Mutant: the mutex is taken only to store the table.
AddRouteUnlocked(t) ==
    /\ job[t] = "idle"
    /\ Len(table) < MaxRoutes
    /\ \E r \in Routes : Ask(t, "add", [op |-> "route.set", what |-> <<r>> \o table])
    /\ UNCHANGED <<table, holder, current, late, engine, doubt>>

AddRoute(t) ==
    /\ job[t] = "idle"
    /\ holder = None
    /\ Len(table) < MaxRoutes
    /\ holder' = t
    /\ \E r \in Routes : Ask(t, "add", [op |-> "route.set", what |-> <<r>> \o table])
    /\ UNCHANGED <<table, current, late, engine, doubt>>

\* The engine took the new table: store it, then ask for the report.
RouteAdded(t) ==
    /\ job[t] = "add"
    /\ reply[t] = "yes"
    /\ table' = request[t].what
    /\ Ask(t, "report", [op |-> "route.get"])
    /\ UNCHANGED <<holder, current, late, engine, doubt>>

ClearRoutes(t) ==
    /\ job[t] = "idle"
    /\ holder = None
    /\ holder' = t
    /\ Ask(t, "clear", [op |-> "route.set", what |-> <<>>])
    /\ UNCHANGED <<table, current, late, engine, doubt>>

RoutesCleared(t) ==
    /\ job[t] = "clear"
    /\ reply[t] = "yes"
    /\ table' = <<>>
    /\ Unlock(t)
    /\ Return(t)
    /\ UNCHANGED <<current, late, engine, doubt>>

RouteReport(t) ==
    /\ job[t] = "idle"
    /\ holder = None
    /\ holder' = t
    /\ Ask(t, "report", [op |-> "route.get"])
    /\ UNCHANGED <<table, current, late, engine, doubt>>

Reported(t) ==
    /\ job[t] = "report"
    /\ reply[t] = "yes"
    /\ Unlock(t)
    /\ Return(t)
    /\ UNCHANGED <<table, current, late, engine, doubt>>

-----------------------------------------------------------------------------
(* Geolocation::set and clear *)

Move(t) ==
    /\ job[t] = "idle"
    /\ \E p \in Positions \union {Persona} :
          Ask(t, "move", [op |-> "position.set", what |-> p])
    /\ UNCHANGED <<table, holder, current, late, engine, doubt>>

\* Mutant: the position is remembered before the engine has it.
MoveFirst(t) ==
    /\ job[t] = "move"
    /\ current' = request[t].what
    /\ Return(t)
    /\ UNCHANGED <<table, holder, late, engine, doubt>>

\* A position call does not look for the error of a reply that says yes.
Moved(t) ==
    /\ Crossing(t)
    /\ current' = request[t].what
    /\ Return(t)
    /\ UNCHANGED <<table, holder, late, engine, doubt>>

-----------------------------------------------------------------------------
(* Control::call that ends in an error *)

\* The reply is a refusal, an answer only in part, or the connection broke.
Failed(t) ==
    /\ reply[t] \in {"no", "lost"} \/ (reply[t] = "partly" /\ job[t] \in RouteJobs)
    /\ doubt' = IF Writing(t) /\ reply[t] # "no" THEN doubt \union {"routes"}
                ELSE IF job[t] = "move" /\ reply[t] # "no" THEN doubt \union {"position"}
                ELSE doubt
    /\ Unlock(t)
    /\ Return(t)
    /\ UNCHANGED <<table, current, late, engine>>

\* CALL_TIMEOUT: what the engine has not taken yet, it may still take (a report
\* would change nothing).
TimesOut(t) ==
    /\ job[t] # "idle"
    /\ \/ late' = late
       \/ /\ Waiting(t)
          /\ job[t] # "report"
          /\ Cardinality(late) < MaxLate
          /\ late' = late \union {request[t]}
    /\ doubt' = IF Writing(t) THEN doubt \union {"routes"}
                ELSE IF job[t] = "move" THEN doubt \union {"position"}
                ELSE doubt
    /\ Unlock(t)
    /\ Return(t)
    /\ UNCHANGED <<table, current, engine>>

-----------------------------------------------------------------------------
(* The engine *)

Apply(r) ==
    /\ served' = IF r.op = "route.set" THEN r.what ELSE served
    /\ fix' = IF r.op = "position.set" THEN r.what ELSE fix

\* A position taken on its own settles the position; one that crosses another
\* does not, and the engine being launched does not have it.
Take(t) ==
    /\ up
    /\ Waiting(t)
    /\ \E a \in {"yes", "partly"} :
          /\ reply' = [reply EXCEPT ![t] = a]
          /\ doubt' = IF Writing(t) THEN Doubt("routes", a = "partly")
                      ELSE IF job[t] = "move"
                           THEN Doubt("position", \E u \in Drivers : Crossing(u))
                                \union (IF starting = {} THEN {} ELSE {"launch"})
                           ELSE doubt
    /\ Apply(request[t])
    /\ UNCHANGED <<table, holder, current, job, request, late, up, starting>>

Refuse(t) ==
    /\ Waiting(t)
    /\ reply' = [reply EXCEPT ![t] = IF up THEN "no" ELSE "lost"]
    /\ UNCHANGED <<table, holder, current, job, request, late, engine, doubt>>

TakeLate(r) ==
    /\ r \in late
    /\ up
    /\ Apply(r)
    /\ late' = late \ {r}
    /\ doubt' = doubt \union {IF r.op = "route.set" THEN "routes" ELSE "position"}
    /\ UNCHANGED <<table, holder, current, job, request, reply, up, starting>>

\* Its connections break with it.
Stops ==
    /\ served' = <<>>
    /\ late' = {}
    /\ reply' = [t \in Drivers |-> IF Waiting(t) THEN "lost" ELSE reply[t]]
    /\ UNCHANGED <<table, holder, current, job, request>>

Quit ==
    /\ up
    /\ up' = FALSE
    /\ fix' = None
    /\ doubt' = doubt \union {"routes"}
    /\ Stops
    /\ UNCHANGED starting

\* env_entry reads the position when the process is spawned.
Spawn ==
    /\ starting = {}
    /\ starting' = {current}
    /\ doubt' = Doubt("launch", \E t \in Drivers : Crossing(t))
    /\ UNCHANGED <<table, holder, current, job, request, reply, late, served, fix, up>>

\* The new engine takes the place of the one there was, if there was one.
Started ==
    /\ \E p \in starting : fix' = p
    /\ up' = TRUE
    /\ starting' = {}
    /\ doubt' = Doubt("position", "launch" \in doubt) \union {"routes"}
    /\ Stops

StartFails ==
    /\ starting # {}
    /\ starting' = {}
    /\ UNCHANGED <<table, holder, current, job, request, reply, late, served, fix, up, doubt>>

-----------------------------------------------------------------------------
ControlNext ==
    \/ \E t \in Drivers : \/ AddRoute(t) \/ RouteAdded(t)
                          \/ ClearRoutes(t) \/ RoutesCleared(t)
                          \/ RouteReport(t) \/ Reported(t)
                          \/ Move(t) \/ Moved(t)
                          \/ Failed(t) \/ TimesOut(t)
                          \/ Take(t) \/ Refuse(t)
    \/ \E r \in late : TakeLate(r)
    \/ Quit \/ Spawn \/ Started \/ StartFails

ControlSpec == ControlInit /\ [][ControlNext]_controlVars

-----------------------------------------------------------------------------
(* Properties *)

ControlFieldsOK ==
    /\ table \in Tables
    /\ holder \in Drivers \union {None}
    /\ current \in Fixes
    /\ job \in [Drivers -> RouteJobs \union {"idle", "move"}]
    /\ request \in [Drivers -> Requests \union {None}]
    /\ reply \in [Drivers -> {"none", "yes", "partly", "no", "lost"}]
    /\ late \subseteq Requests
    /\ served \in Tables
    /\ fix \in Fixes
    /\ up \in BOOLEAN
    /\ starting \subseteq Fixes
    /\ doubt \subseteq {"routes", "position", "launch"}

RoutesLocked == \A t \in Drivers : job[t] \in RouteJobs <=> holder = t

\* Types; and the routes mutex is held exactly over the route calls.
ControlTypeOK == ControlFieldsOK /\ RoutesLocked

\* Once the engine has said yes to a table, and until a later write is lost, is
\* taken in part or is taken after it was given up, or the engine is replaced,
\* the session lists what the engine applies whenever no write is under way:
\* adders that race, a report that fails after the add, and refusals change
\* nothing in that, and one success makes up for any failure before it.
RoutesAgree ==
    "routes" \notin doubt /\ (\A t \in Drivers : ~Writing(t)) => served = table

\* Where no two positions crossed, none was lost and none was set during a
\* launch, the position the session reports is the one pages read, whichever
\* calls were refused; and an engine launched after a failure serves it again.
PositionAgrees ==
    "position" \notin doubt /\ (\A t \in Drivers : ~Crossing(t)) /\ up => fix = current
=============================================================================
