---------------------------- MODULE ControlProofs ----------------------------
(***************************************************************************)
(* Proofs about Control, for any tasks, routes, positions and bounds.      *)
(***************************************************************************)
EXTENDS Control, TLAPS

\* What a task asked is what its call is about.
AsksOK(t) ==
    /\ job[t] = "add" => request[t] \in [op : {"route.set"}, what : Tables]
    /\ job[t] = "clear" => request[t] = [op |-> "route.set", what |-> <<>>]
    /\ job[t] = "report" => request[t] = [op |-> "route.get"]
    /\ job[t] = "move" => request[t] \in [op : {"position.set"}, what : Fixes]

\* Without a doubt, a write the engine has taken is what it serves, and one it
\* has not taken has changed nothing.
RoutesOK ==
    "routes" \notin doubt =>
        /\ (\A t \in Drivers : ~Writing(t)) => served = table
        /\ \A t \in Drivers :
              /\ Writing(t) /\ reply[t] = "yes" => served = request[t].what
              /\ Writing(t) /\ reply[t] # "yes" => reply[t] # "partly" /\ served = table

\* Without a doubt, one position at most is on its way from the engine to the
\* session, and it is the engine's.
FixOK ==
    "position" \notin doubt /\ up =>
        /\ \A t, u \in Drivers : Crossing(t) /\ Crossing(u) => t = u
        /\ \A t \in Drivers : Crossing(t) => fix = request[t].what
        /\ (\A t \in Drivers : ~Crossing(t)) => fix = current

\* Without a doubt, the engine being launched has the session's position.
LaunchOK ==
    starting # {} /\ "launch" \notin doubt =>
        starting = {current} /\ \A t \in Drivers : ~Crossing(t)

\* The inductive invariant.
ControlInv == /\ ControlTypeOK
              /\ \A t \in Drivers : AsksOK(t)
              /\ RoutesOK
              /\ FixOK
              /\ LaunchOK

-----------------------------------------------------------------------------
(* Tables and requests *)

LEMMA EmptyTable == <<>> \in Tables
<1>1. <<>> \in [1..0 -> Routes]
  OBVIOUS
<1>2. 0 \in 0..MaxRoutes
  BY LateAssumption
<1> QED BY <1>1, <1>2 DEF Tables

\* A route put in front of a table that has room.
LEMMA TableGrows ==
    ASSUME NEW tab \in Tables, Len(tab) < MaxRoutes, NEW r \in Routes
    PROVE  <<r>> \o tab \in Tables
<1>1. PICK n \in 0..MaxRoutes : tab \in [1..n -> Routes]
  BY DEF Tables
<1>2. n \in Nat /\ tab \in Seq(Routes) /\ Len(tab) = n
  BY <1>1, LateAssumption
<1>3. /\ <<r>> \o tab \in Seq(Routes)
      /\ Len(<<r>> \o tab) = n + 1
  BY <1>2
<1>4. <<r>> \o tab \in [1..(n + 1) -> Routes]
  <2> DEFINE s == <<r>> \o tab
  <2>1. s \in Seq(Routes) /\ Len(s) = n + 1
    BY <1>3
  <2> HIDE DEF s
  <2>2. s \in [1..Len(s) -> Routes]
    BY <2>1
  <2> QED BY <2>1, <2>2 DEF s
<1>5. n + 1 \in 0..MaxRoutes
  BY <1>2, LateAssumption
<1> QED BY <1>4, <1>5 DEF Tables

LEMMA RequestTypes ==
    /\ \A tab \in Tables : [op |-> "route.set", what |-> tab] \in Requests
    /\ [op |-> "route.get"] \in Requests
    /\ \A p \in Fixes : [op |-> "position.set", what |-> p] \in Requests
    /\ \A r \in Requests : r.op = "route.set" => r.what \in Tables
    /\ \A r \in Requests : r.op = "position.set" => r.what \in Fixes
BY DEF Requests

\* The persona's position is one.
LEMMA PersonaIsFix == Positions \union {Persona} \subseteq Fixes
BY PersonaAssumption DEF Fixes

-----------------------------------------------------------------------------
(* Every step keeps each part *)

LEMMA ControlParts ==
    ControlInv => ControlFieldsOK /\ RoutesLocked /\ \A t \in Drivers : AsksOK(t)
BY DEF ControlInv, ControlTypeOK

\* A task in a call has asked something.
LEMMA AskedIsRequest ==
    ASSUME ControlInv, NEW t \in Drivers, job[t] # "idle" PROVE request[t] \in Requests
<1>1. AsksOK(t) /\ job[t] \in RouteJobs \union {"move"}
  BY ControlParts DEF ControlFieldsOK
<1>2. [op |-> "route.set", what |-> <<>>] \in Requests
  BY EmptyTable, RequestTypes
<1>3. [op : {"route.set"}, what : Tables] \union [op : {"position.set"}, what : Fixes]
         \subseteq Requests
  BY DEF Requests
<1> QED BY <1>1, <1>2, <1>3, RequestTypes DEF AsksOK, RouteJobs

LEMMA FieldsKept ==
    ASSUME ControlInv, ControlNext PROVE ControlFieldsOK'
<1>1. ASSUME NEW t \in Drivers, AddRoute(t) PROVE ControlFieldsOK'
  <2>1. PICK r \in Routes : Ask(t, "add", [op |-> "route.set", what |-> <<r>> \o table])
    BY <1>1 DEF AddRoute
  <2>2. <<r>> \o table \in Tables
    BY <1>1, ControlParts, TableGrows DEF AddRoute, ControlFieldsOK
  <2>3. [op |-> "route.set", what |-> <<r>> \o table] \in Requests
    BY <2>2, RequestTypes
  <2> QED BY <1>1, <2>1, <2>3, ControlParts
     DEF AddRoute, Ask, engine, ControlFieldsOK, RouteJobs
<1>2. ASSUME NEW t \in Drivers, RouteAdded(t) PROVE ControlFieldsOK'
  BY <1>2, ControlParts, RequestTypes
     DEF RouteAdded, Ask, engine, ControlFieldsOK, RouteJobs, AsksOK
<1>3. ASSUME NEW t \in Drivers, ClearRoutes(t) PROVE ControlFieldsOK'
  BY <1>3, ControlParts, EmptyTable, RequestTypes
     DEF ClearRoutes, Ask, engine, ControlFieldsOK, RouteJobs
<1>4. ASSUME NEW t \in Drivers, RoutesCleared(t) PROVE ControlFieldsOK'
  BY <1>4, ControlParts, EmptyTable
     DEF RoutesCleared, Return, Unlock, engine, ControlFieldsOK, RouteJobs
<1>5. ASSUME NEW t \in Drivers, RouteReport(t) PROVE ControlFieldsOK'
  BY <1>5, ControlParts, RequestTypes
     DEF RouteReport, Ask, engine, ControlFieldsOK, RouteJobs
<1>6. ASSUME NEW t \in Drivers, Reported(t) PROVE ControlFieldsOK'
  BY <1>6, ControlParts DEF Reported, Return, Unlock, engine, ControlFieldsOK, RouteJobs
<1>7. ASSUME NEW t \in Drivers, Move(t) PROVE ControlFieldsOK'
  BY <1>7, ControlParts, RequestTypes, PersonaIsFix
     DEF Move, Ask, engine, ControlFieldsOK, RouteJobs
<1>8. ASSUME NEW t \in Drivers, Moved(t) PROVE ControlFieldsOK'
  BY <1>8, ControlParts, RequestTypes
     DEF Moved, Return, engine, ControlFieldsOK, RouteJobs, AsksOK, Crossing
<1>9. ASSUME NEW t \in Drivers, Failed(t) PROVE ControlFieldsOK'
  BY <1>9, ControlParts
     DEF Failed, Return, Unlock, engine, ControlFieldsOK, RouteJobs, Writing
<1>10. ASSUME NEW t \in Drivers, TimesOut(t) PROVE ControlFieldsOK'
  <2>1. late' \subseteq Requests
    <3>1. CASE late' = late
      BY <3>1, ControlParts DEF ControlFieldsOK
    <3>2. CASE late' = late \union {request[t]} /\ Waiting(t) /\ job[t] # "report"
      <4>1. request[t] \in Requests
        BY <3>2, AskedIsRequest DEF Waiting
      <4> QED BY <3>2, <4>1, ControlParts DEF ControlFieldsOK
    <3> QED BY <1>10, <3>1, <3>2 DEF TimesOut
  <2>2. doubt' \subseteq {"routes", "position", "launch"}
    BY <1>10, ControlParts DEF TimesOut, ControlFieldsOK
  <2> QED BY <1>10, <2>1, <2>2, ControlParts
     DEF TimesOut, Return, Unlock, engine, ControlFieldsOK,
          RouteJobs
<1>11. ASSUME NEW t \in Drivers, Take(t) PROVE ControlFieldsOK'
  <2>1. reply' \in [Drivers -> {"none", "yes", "partly", "no", "lost"}]
    BY <1>11, ControlParts DEF Take, ControlFieldsOK
  <2>2. doubt' \subseteq {"routes", "position", "launch"}
    BY <1>11, ControlParts DEF Take, Doubt, ControlFieldsOK
  <2>3. request[t] \in Requests
    BY <1>11, AskedIsRequest DEF Take, Waiting
  <2>4. served' \in Tables /\ fix' \in Fixes
    BY <1>11, <2>3, ControlParts, RequestTypes DEF Take, Apply, ControlFieldsOK
  <2> QED BY <1>11, <2>1, <2>2, <2>4, ControlParts DEF Take, ControlFieldsOK
<1>12. ASSUME NEW t \in Drivers, Refuse(t) PROVE ControlFieldsOK'
  BY <1>12, ControlParts DEF Refuse, engine, ControlFieldsOK, RouteJobs, Waiting
<1>13. ASSUME NEW r \in late, TakeLate(r) PROVE ControlFieldsOK'
  BY <1>13, ControlParts, RequestTypes DEF TakeLate, Apply, ControlFieldsOK, RouteJobs
<1>14. ASSUME Quit PROVE ControlFieldsOK'
  BY <1>14, ControlParts, EmptyTable DEF Quit, Stops, ControlFieldsOK, RouteJobs, Fixes
<1>15. ASSUME Spawn PROVE ControlFieldsOK'
  BY <1>15, ControlParts DEF Spawn, ControlFieldsOK, RouteJobs, Doubt
<1>16. ASSUME Started PROVE ControlFieldsOK'
  BY <1>16, ControlParts, EmptyTable
     DEF Started, Stops, ControlFieldsOK, RouteJobs, Doubt
<1>17. ASSUME StartFails PROVE ControlFieldsOK'
  BY <1>17, ControlParts DEF StartFails, ControlFieldsOK, RouteJobs
<1> QED BY <1>1, <1>2, <1>3, <1>4, <1>5, <1>6, <1>7, <1>8, <1>9, <1>10, <1>11,
   <1>12, <1>13, <1>14, <1>15, <1>16, <1>17
   DEF ControlNext

LEMMA LockKept ==
    ASSUME ControlInv, ControlNext PROVE RoutesLocked'
<1>1. ASSUME NEW t \in Drivers, AddRoute(t) PROVE RoutesLocked'
  BY <1>1, ControlParts, DriversAssumption
     DEF AddRoute, Ask, engine, ControlFieldsOK, RoutesLocked, RouteJobs
<1>2. ASSUME NEW t \in Drivers, RouteAdded(t) PROVE RoutesLocked'
  BY <1>2, ControlParts
     DEF RouteAdded, Ask, engine, ControlFieldsOK, RoutesLocked, RouteJobs
<1>3. ASSUME NEW t \in Drivers, ClearRoutes(t) PROVE RoutesLocked'
  BY <1>3, ControlParts, DriversAssumption
     DEF ClearRoutes, Ask, engine, ControlFieldsOK, RoutesLocked, RouteJobs
<1>4. ASSUME NEW t \in Drivers, RoutesCleared(t) PROVE RoutesLocked'
  BY <1>4, ControlParts, DriversAssumption
     DEF RoutesCleared, Return, Unlock, engine, ControlFieldsOK, RoutesLocked,
         RouteJobs
<1>5. ASSUME NEW t \in Drivers, RouteReport(t) PROVE RoutesLocked'
  BY <1>5, ControlParts, DriversAssumption
     DEF RouteReport, Ask, engine, ControlFieldsOK, RoutesLocked, RouteJobs
<1>6. ASSUME NEW t \in Drivers, Reported(t) PROVE RoutesLocked'
  BY <1>6, ControlParts, DriversAssumption
     DEF Reported, Return, Unlock, engine, ControlFieldsOK, RoutesLocked,
         RouteJobs
<1>7. ASSUME NEW t \in Drivers, Move(t) PROVE RoutesLocked'
  BY <1>7, ControlParts DEF Move, Ask, engine, ControlFieldsOK, RoutesLocked, RouteJobs
<1>8. ASSUME NEW t \in Drivers, Moved(t) PROVE RoutesLocked'
  <2>1. job[t] = "move" /\ job' = [job EXCEPT ![t] = "idle"] /\ holder' = holder
    BY <1>8 DEF Moved, Crossing, Return
  <2> QED BY <2>1, ControlParts DEF ControlFieldsOK, RoutesLocked, RouteJobs
<1>9. ASSUME NEW t \in Drivers, Failed(t) PROVE RoutesLocked'
  BY <1>9, ControlParts, DriversAssumption
     DEF Failed, Return, Unlock, engine, ControlFieldsOK, RoutesLocked,
         RouteJobs
<1>10. ASSUME NEW t \in Drivers, TimesOut(t) PROVE RoutesLocked'
  BY <1>10, ControlParts, DriversAssumption
     DEF TimesOut, Return, Unlock, engine, ControlFieldsOK, RoutesLocked,
         RouteJobs
<1>11. ASSUME NEW t \in Drivers, Take(t) PROVE RoutesLocked'
  BY <1>11, ControlParts DEF Take, Apply, ControlFieldsOK, RoutesLocked, RouteJobs
<1>12. ASSUME NEW t \in Drivers, Refuse(t) PROVE RoutesLocked'
  BY <1>12, ControlParts DEF Refuse, engine, ControlFieldsOK, RoutesLocked, RouteJobs
<1>13. ASSUME NEW r \in late, TakeLate(r) PROVE RoutesLocked'
  BY <1>13, ControlParts DEF TakeLate, Apply, ControlFieldsOK, RoutesLocked, RouteJobs
<1>14. ASSUME Quit PROVE RoutesLocked'
  BY <1>14, ControlParts DEF Quit, Stops, ControlFieldsOK, RoutesLocked, RouteJobs
<1>15. ASSUME Spawn PROVE RoutesLocked'
  BY <1>15, ControlParts DEF Spawn, ControlFieldsOK, RoutesLocked, RouteJobs
<1>16. ASSUME Started PROVE RoutesLocked'
  BY <1>16, ControlParts DEF Started, Stops, ControlFieldsOK, RoutesLocked, RouteJobs
<1>17. ASSUME StartFails PROVE RoutesLocked'
  BY <1>17, ControlParts DEF StartFails, ControlFieldsOK, RoutesLocked, RouteJobs
<1> QED BY <1>1, <1>2, <1>3, <1>4, <1>5, <1>6, <1>7, <1>8, <1>9, <1>10, <1>11,
   <1>12, <1>13, <1>14, <1>15, <1>16, <1>17
   DEF ControlNext

LEMMA AsksKept ==
    ASSUME ControlInv, ControlNext PROVE \A u \in Drivers : AsksOK(u)'
<1>1. ASSUME NEW t \in Drivers, AddRoute(t) PROVE \A u \in Drivers : AsksOK(u)'
  BY <1>1, TableGrows
     DEF AddRoute, Ask, engine, ControlInv, ControlTypeOK, ControlFieldsOK,
         RoutesLocked, AsksOK, RouteJobs
<1>2. ASSUME NEW t \in Drivers, RouteAdded(t) PROVE \A u \in Drivers : AsksOK(u)'
  BY <1>2
     DEF RouteAdded, Ask, engine, ControlInv, ControlTypeOK, ControlFieldsOK,
         RoutesLocked, AsksOK, RouteJobs
<1>3. ASSUME NEW t \in Drivers, ClearRoutes(t) PROVE \A u \in Drivers : AsksOK(u)'
  BY <1>3
     DEF ClearRoutes, Ask, engine, ControlInv, ControlTypeOK, ControlFieldsOK,
         RoutesLocked, AsksOK, RouteJobs
<1>4. ASSUME NEW t \in Drivers, RoutesCleared(t) PROVE \A u \in Drivers : AsksOK(u)'
  BY <1>4
     DEF RoutesCleared, Return, Unlock, engine, ControlInv, ControlTypeOK,
         ControlFieldsOK, RoutesLocked, AsksOK, RouteJobs
<1>5. ASSUME NEW t \in Drivers, RouteReport(t) PROVE \A u \in Drivers : AsksOK(u)'
  BY <1>5
     DEF RouteReport, Ask, engine, ControlInv, ControlTypeOK, ControlFieldsOK,
         RoutesLocked, AsksOK, RouteJobs
<1>6. ASSUME NEW t \in Drivers, Reported(t) PROVE \A u \in Drivers : AsksOK(u)'
  BY <1>6
     DEF Reported, Return, Unlock, engine, ControlInv, ControlTypeOK,
         ControlFieldsOK, RoutesLocked, AsksOK, RouteJobs
<1>7. ASSUME NEW t \in Drivers, Move(t) PROVE \A u \in Drivers : AsksOK(u)'
  BY <1>7, PersonaIsFix
     DEF Move, Ask, engine, ControlInv, ControlTypeOK, ControlFieldsOK,
         RoutesLocked, AsksOK, RouteJobs
<1>8. ASSUME NEW t \in Drivers, Moved(t) PROVE \A u \in Drivers : AsksOK(u)'
  BY <1>8
     DEF Moved, Return, engine, ControlInv, ControlTypeOK, ControlFieldsOK,
         RoutesLocked, AsksOK, RouteJobs
<1>9. ASSUME NEW t \in Drivers, Failed(t) PROVE \A u \in Drivers : AsksOK(u)'
  BY <1>9
     DEF Failed, Return, Unlock, engine, ControlInv, ControlTypeOK,
         ControlFieldsOK, RoutesLocked, AsksOK, RouteJobs
<1>10. ASSUME NEW t \in Drivers, TimesOut(t) PROVE \A u \in Drivers : AsksOK(u)'
  BY <1>10
     DEF TimesOut, Return, Unlock, engine, ControlInv, ControlTypeOK,
         ControlFieldsOK, RoutesLocked, AsksOK, RouteJobs
<1>11. ASSUME NEW t \in Drivers, Take(t) PROVE \A u \in Drivers : AsksOK(u)'
  BY <1>11
     DEF Take, Apply, ControlInv, ControlTypeOK, ControlFieldsOK, RoutesLocked,
         AsksOK, RouteJobs
<1>12. ASSUME NEW t \in Drivers, Refuse(t) PROVE \A u \in Drivers : AsksOK(u)'
  BY <1>12
     DEF Refuse, engine, ControlInv, ControlTypeOK, ControlFieldsOK,
         RoutesLocked, AsksOK, RouteJobs
<1>13. ASSUME NEW r \in late, TakeLate(r) PROVE \A u \in Drivers : AsksOK(u)'
  BY <1>13
     DEF TakeLate, Apply, ControlInv, ControlTypeOK, ControlFieldsOK,
         RoutesLocked, AsksOK, RouteJobs
<1>14. ASSUME Quit PROVE \A u \in Drivers : AsksOK(u)'
  BY <1>14
     DEF Quit, Stops, ControlInv, ControlTypeOK, ControlFieldsOK, RoutesLocked,
         AsksOK, RouteJobs
<1>15. ASSUME Spawn PROVE \A u \in Drivers : AsksOK(u)'
  BY <1>15
     DEF Spawn, ControlInv, ControlTypeOK, ControlFieldsOK, RoutesLocked,
         AsksOK, RouteJobs
<1>16. ASSUME Started PROVE \A u \in Drivers : AsksOK(u)'
  BY <1>16
     DEF Started, Stops, ControlInv, ControlTypeOK, ControlFieldsOK,
         RoutesLocked, AsksOK, RouteJobs
<1>17. ASSUME StartFails PROVE \A u \in Drivers : AsksOK(u)'
  BY <1>17
     DEF StartFails, ControlInv, ControlTypeOK, ControlFieldsOK, RoutesLocked,
         AsksOK, RouteJobs
<1> QED BY <1>1, <1>2, <1>3, <1>4, <1>5, <1>6, <1>7, <1>8, <1>9, <1>10, <1>11,
   <1>12, <1>13, <1>14, <1>15, <1>16, <1>17
   DEF ControlNext

LEMMA RoutesKept ==
    ASSUME ControlInv, ControlNext PROVE RoutesOK'
<1>1. ASSUME NEW t \in Drivers, AddRoute(t) PROVE RoutesOK'
  <2>1. holder = None /\ job[t] = "idle" /\ UNCHANGED <<table, served, doubt>>
    BY <1>1 DEF AddRoute, engine
  <2>2. \A u \in Drivers : ~Writing(u)
    BY <2>1, ControlParts, DriversAssumption DEF RoutesLocked, Writing, RouteJobs
  <2>3. /\ reply' = [reply EXCEPT ![t] = "none"]
        /\ job' = [job EXCEPT ![t] = "add"]
    BY <1>1 DEF AddRoute, Ask
  <2>4. \A u \in Drivers : Writing(u)' => u = t /\ reply'[u] = "none"
    BY <2>2, <2>3, ControlParts DEF Writing, ControlFieldsOK
  <2> QED BY <2>1, <2>2, <2>4 DEF ControlInv, RoutesOK
<1>2. ASSUME NEW t \in Drivers, RouteAdded(t) PROVE RoutesOK'
  BY <1>2
     DEF RouteAdded, Ask, engine, ControlInv, ControlTypeOK, ControlFieldsOK,
         RoutesLocked, AsksOK, RoutesOK, RouteJobs, Writing, Waiting, Crossing
<1>3. ASSUME NEW t \in Drivers, ClearRoutes(t) PROVE RoutesOK'
  <2>1. holder = None /\ job[t] = "idle" /\ UNCHANGED <<table, served, doubt>>
    BY <1>3 DEF ClearRoutes, engine
  <2>2. \A u \in Drivers : ~Writing(u)
    BY <2>1, ControlParts, DriversAssumption DEF RoutesLocked, Writing, RouteJobs
  <2>3. /\ reply' = [reply EXCEPT ![t] = "none"]
        /\ job' = [job EXCEPT ![t] = "clear"]
    BY <1>3 DEF ClearRoutes, Ask
  <2>4. \A u \in Drivers : Writing(u)' => u = t /\ reply'[u] = "none"
    BY <2>2, <2>3, ControlParts DEF Writing, ControlFieldsOK
  <2> QED BY <2>1, <2>2, <2>4 DEF ControlInv, RoutesOK
<1>4. ASSUME NEW t \in Drivers, RoutesCleared(t) PROVE RoutesOK'
  BY <1>4
     DEF RoutesCleared, Return, Unlock, engine, ControlInv, ControlTypeOK,
         ControlFieldsOK, RoutesLocked, AsksOK, RoutesOK, RouteJobs, Writing,
         Waiting, Crossing
<1>5. ASSUME NEW t \in Drivers, RouteReport(t) PROVE RoutesOK'
  BY <1>5
     DEF RouteReport, Ask, engine, ControlInv, ControlTypeOK, ControlFieldsOK,
         RoutesLocked, AsksOK, RoutesOK, RouteJobs, Writing, Waiting, Crossing
<1>6. ASSUME NEW t \in Drivers, Reported(t) PROVE RoutesOK'
  BY <1>6
     DEF Reported, Return, Unlock, engine, ControlInv, ControlTypeOK,
         ControlFieldsOK, RoutesLocked, AsksOK, RoutesOK, RouteJobs, Writing,
         Waiting, Crossing
<1>7. ASSUME NEW t \in Drivers, Move(t) PROVE RoutesOK'
  BY <1>7
     DEF Move, Ask, engine, ControlInv, ControlTypeOK, ControlFieldsOK,
         RoutesLocked, AsksOK, RoutesOK, RouteJobs, Writing, Waiting, Crossing
<1>8. ASSUME NEW t \in Drivers, Moved(t) PROVE RoutesOK'
  BY <1>8
     DEF Moved, Return, engine, ControlInv, ControlTypeOK, ControlFieldsOK,
         RoutesLocked, AsksOK, RoutesOK, RouteJobs, Writing, Waiting, Crossing
<1>9. ASSUME NEW t \in Drivers, Failed(t) PROVE RoutesOK'
  BY <1>9
     DEF Failed, Return, Unlock, engine, ControlInv, ControlTypeOK,
         ControlFieldsOK, RoutesLocked, AsksOK, RoutesOK, RouteJobs, Writing,
         Waiting, Crossing
<1>10. ASSUME NEW t \in Drivers, TimesOut(t) PROVE RoutesOK'
  BY <1>10
     DEF TimesOut, Return, Unlock, engine, ControlInv, ControlTypeOK,
         ControlFieldsOK, RoutesLocked, AsksOK, RoutesOK, RouteJobs, Writing,
         Waiting, Crossing
<1>11. ASSUME NEW t \in Drivers, Take(t) PROVE RoutesOK'
  BY <1>11
     DEF Take, Apply, ControlInv, ControlTypeOK, ControlFieldsOK, RoutesLocked,
         AsksOK, RoutesOK, RouteJobs, Writing, Waiting, Crossing, Doubt
<1>12. ASSUME NEW t \in Drivers, Refuse(t) PROVE RoutesOK'
  BY <1>12
     DEF Refuse, engine, ControlInv, ControlTypeOK, ControlFieldsOK,
         RoutesLocked, AsksOK, RoutesOK, RouteJobs, Writing, Waiting, Crossing
<1>13. ASSUME NEW r \in late, TakeLate(r) PROVE RoutesOK'
  BY <1>13
     DEF TakeLate, Apply, ControlInv, ControlTypeOK, ControlFieldsOK,
         RoutesLocked, AsksOK, RoutesOK, RouteJobs, Writing, Waiting, Crossing
<1>14. ASSUME Quit PROVE RoutesOK'
  BY <1>14
     DEF Quit, Stops, ControlInv, ControlTypeOK, ControlFieldsOK, RoutesLocked,
         AsksOK, RoutesOK, RouteJobs, Writing, Waiting, Crossing
<1>15. ASSUME Spawn PROVE RoutesOK'
  BY <1>15
     DEF Spawn, ControlInv, ControlTypeOK, ControlFieldsOK, RoutesLocked,
         AsksOK, RoutesOK, RouteJobs, Writing, Waiting, Crossing, Doubt
<1>16. ASSUME Started PROVE RoutesOK'
  BY <1>16
     DEF Started, Stops, ControlInv, ControlTypeOK, ControlFieldsOK,
         RoutesLocked, AsksOK, RoutesOK, RouteJobs, Writing, Waiting, Crossing,
         Doubt
<1>17. ASSUME StartFails PROVE RoutesOK'
  BY <1>17
     DEF StartFails, ControlInv, ControlTypeOK, ControlFieldsOK, RoutesLocked,
         AsksOK, RoutesOK, RouteJobs, Writing, Waiting, Crossing
<1> QED BY <1>1, <1>2, <1>3, <1>4, <1>5, <1>6, <1>7, <1>8, <1>9, <1>10, <1>11,
   <1>12, <1>13, <1>14, <1>15, <1>16, <1>17
   DEF ControlNext

LEMMA FixKept ==
    ASSUME ControlInv, ControlNext PROVE FixOK'
<1>1. ASSUME NEW t \in Drivers, AddRoute(t) PROVE FixOK'
  BY <1>1
     DEF AddRoute, Ask, engine, ControlInv, ControlTypeOK, ControlFieldsOK,
         RoutesLocked, AsksOK, FixOK, LaunchOK, RouteJobs, Writing, Waiting,
         Crossing
<1>2. ASSUME NEW t \in Drivers, RouteAdded(t) PROVE FixOK'
  BY <1>2
     DEF RouteAdded, Ask, engine, ControlInv, ControlTypeOK, ControlFieldsOK,
         RoutesLocked, AsksOK, FixOK, LaunchOK, RouteJobs, Writing, Waiting,
         Crossing
<1>3. ASSUME NEW t \in Drivers, ClearRoutes(t) PROVE FixOK'
  BY <1>3
     DEF ClearRoutes, Ask, engine, ControlInv, ControlTypeOK, ControlFieldsOK,
         RoutesLocked, AsksOK, FixOK, LaunchOK, RouteJobs, Writing, Waiting,
         Crossing
<1>4. ASSUME NEW t \in Drivers, RoutesCleared(t) PROVE FixOK'
  BY <1>4
     DEF RoutesCleared, Return, Unlock, engine, ControlInv, ControlTypeOK,
         ControlFieldsOK, RoutesLocked, AsksOK, FixOK, LaunchOK, RouteJobs,
         Writing, Waiting, Crossing
<1>5. ASSUME NEW t \in Drivers, RouteReport(t) PROVE FixOK'
  BY <1>5
     DEF RouteReport, Ask, engine, ControlInv, ControlTypeOK, ControlFieldsOK,
         RoutesLocked, AsksOK, FixOK, LaunchOK, RouteJobs, Writing, Waiting,
         Crossing
<1>6. ASSUME NEW t \in Drivers, Reported(t) PROVE FixOK'
  BY <1>6
     DEF Reported, Return, Unlock, engine, ControlInv, ControlTypeOK,
         ControlFieldsOK, RoutesLocked, AsksOK, FixOK, LaunchOK, RouteJobs,
         Writing, Waiting, Crossing
<1>7. ASSUME NEW t \in Drivers, Move(t) PROVE FixOK'
  BY <1>7
     DEF Move, Ask, engine, ControlInv, ControlTypeOK, ControlFieldsOK,
         RoutesLocked, AsksOK, FixOK, LaunchOK, RouteJobs, Writing, Waiting,
         Crossing
<1>8. ASSUME NEW t \in Drivers, Moved(t) PROVE FixOK'
  BY <1>8
     DEF Moved, Return, engine, ControlInv, ControlTypeOK, ControlFieldsOK,
         RoutesLocked, AsksOK, FixOK, LaunchOK, RouteJobs, Writing, Waiting,
         Crossing
<1>9. ASSUME NEW t \in Drivers, Failed(t) PROVE FixOK'
  BY <1>9
     DEF Failed, Return, Unlock, engine, ControlInv, ControlTypeOK,
         ControlFieldsOK, RoutesLocked, AsksOK, FixOK, LaunchOK, RouteJobs,
         Writing, Waiting, Crossing
<1>10. ASSUME NEW t \in Drivers, TimesOut(t) PROVE FixOK'
  BY <1>10
     DEF TimesOut, Return, Unlock, engine, ControlInv, ControlTypeOK,
         ControlFieldsOK, RoutesLocked, AsksOK, FixOK, LaunchOK, RouteJobs,
         Writing, Waiting, Crossing
<1>11. ASSUME NEW t \in Drivers, Take(t) PROVE FixOK'
  BY <1>11
     DEF Take, Apply, ControlInv, ControlTypeOK, ControlFieldsOK, RoutesLocked,
         AsksOK, FixOK, LaunchOK, RouteJobs, Writing, Waiting, Crossing, Doubt
<1>12. ASSUME NEW t \in Drivers, Refuse(t) PROVE FixOK'
  BY <1>12
     DEF Refuse, engine, ControlInv, ControlTypeOK, ControlFieldsOK,
         RoutesLocked, AsksOK, FixOK, LaunchOK, RouteJobs, Writing, Waiting,
         Crossing
<1>13. ASSUME NEW r \in late, TakeLate(r) PROVE FixOK'
  BY <1>13
     DEF TakeLate, Apply, ControlInv, ControlTypeOK, ControlFieldsOK,
         RoutesLocked, AsksOK, FixOK, LaunchOK, RouteJobs, Writing, Waiting,
         Crossing
<1>14. ASSUME Quit PROVE FixOK'
  BY <1>14
     DEF Quit, Stops, ControlInv, ControlTypeOK, ControlFieldsOK, RoutesLocked,
         AsksOK, FixOK, LaunchOK, RouteJobs, Writing, Waiting, Crossing
<1>15. ASSUME Spawn PROVE FixOK'
  BY <1>15
     DEF Spawn, ControlInv, ControlTypeOK, ControlFieldsOK, RoutesLocked,
         AsksOK, FixOK, LaunchOK, RouteJobs, Writing, Waiting, Crossing, Doubt
<1>16. ASSUME Started PROVE FixOK'
  BY <1>16
     DEF Started, Stops, ControlInv, ControlTypeOK, ControlFieldsOK,
         RoutesLocked, AsksOK, FixOK, LaunchOK, RouteJobs, Writing, Waiting,
         Crossing, Doubt
<1>17. ASSUME StartFails PROVE FixOK'
  BY <1>17
     DEF StartFails, ControlInv, ControlTypeOK, ControlFieldsOK, RoutesLocked,
         AsksOK, FixOK, LaunchOK, RouteJobs, Writing, Waiting, Crossing
<1> QED BY <1>1, <1>2, <1>3, <1>4, <1>5, <1>6, <1>7, <1>8, <1>9, <1>10, <1>11,
   <1>12, <1>13, <1>14, <1>15, <1>16, <1>17
   DEF ControlNext

LEMMA LaunchKept ==
    ASSUME ControlInv, ControlNext PROVE LaunchOK'
<1>1. ASSUME NEW t \in Drivers, AddRoute(t) PROVE LaunchOK'
  BY <1>1
     DEF AddRoute, Ask, engine, ControlInv, ControlTypeOK, ControlFieldsOK,
         RoutesLocked, LaunchOK, RouteJobs, Writing, Waiting, Crossing
<1>2. ASSUME NEW t \in Drivers, RouteAdded(t) PROVE LaunchOK'
  BY <1>2
     DEF RouteAdded, Ask, engine, ControlInv, ControlTypeOK, ControlFieldsOK,
         RoutesLocked, LaunchOK, RouteJobs, Writing, Waiting, Crossing
<1>3. ASSUME NEW t \in Drivers, ClearRoutes(t) PROVE LaunchOK'
  BY <1>3
     DEF ClearRoutes, Ask, engine, ControlInv, ControlTypeOK, ControlFieldsOK,
         RoutesLocked, LaunchOK, RouteJobs, Writing, Waiting, Crossing
<1>4. ASSUME NEW t \in Drivers, RoutesCleared(t) PROVE LaunchOK'
  BY <1>4
     DEF RoutesCleared, Return, Unlock, engine, ControlInv, ControlTypeOK,
         ControlFieldsOK, RoutesLocked, LaunchOK, RouteJobs, Writing, Waiting,
         Crossing
<1>5. ASSUME NEW t \in Drivers, RouteReport(t) PROVE LaunchOK'
  BY <1>5
     DEF RouteReport, Ask, engine, ControlInv, ControlTypeOK, ControlFieldsOK,
         RoutesLocked, LaunchOK, RouteJobs, Writing, Waiting, Crossing
<1>6. ASSUME NEW t \in Drivers, Reported(t) PROVE LaunchOK'
  BY <1>6
     DEF Reported, Return, Unlock, engine, ControlInv, ControlTypeOK,
         ControlFieldsOK, RoutesLocked, LaunchOK, RouteJobs, Writing, Waiting,
         Crossing
<1>7. ASSUME NEW t \in Drivers, Move(t) PROVE LaunchOK'
  BY <1>7
     DEF Move, Ask, engine, ControlInv, ControlTypeOK, ControlFieldsOK,
         RoutesLocked, LaunchOK, RouteJobs, Writing, Waiting, Crossing
<1>8. ASSUME NEW t \in Drivers, Moved(t) PROVE LaunchOK'
  BY <1>8
     DEF Moved, Return, engine, ControlInv, ControlTypeOK, ControlFieldsOK,
         RoutesLocked, LaunchOK, RouteJobs, Writing, Waiting, Crossing
<1>9. ASSUME NEW t \in Drivers, Failed(t) PROVE LaunchOK'
  BY <1>9
     DEF Failed, Return, Unlock, engine, ControlInv, ControlTypeOK,
         ControlFieldsOK, RoutesLocked, LaunchOK, RouteJobs, Writing, Waiting,
         Crossing
<1>10. ASSUME NEW t \in Drivers, TimesOut(t) PROVE LaunchOK'
  BY <1>10
     DEF TimesOut, Return, Unlock, engine, ControlInv, ControlTypeOK,
         ControlFieldsOK, RoutesLocked, LaunchOK, RouteJobs, Writing, Waiting,
         Crossing
<1>11. ASSUME NEW t \in Drivers, Take(t) PROVE LaunchOK'
  BY <1>11
     DEF Take, Apply, ControlInv, ControlTypeOK, ControlFieldsOK, RoutesLocked,
         LaunchOK, RouteJobs, Writing, Waiting, Crossing, Doubt
<1>12. ASSUME NEW t \in Drivers, Refuse(t) PROVE LaunchOK'
  BY <1>12
     DEF Refuse, engine, ControlInv, ControlTypeOK, ControlFieldsOK,
         RoutesLocked, LaunchOK, RouteJobs, Writing, Waiting, Crossing
<1>13. ASSUME NEW r \in late, TakeLate(r) PROVE LaunchOK'
  BY <1>13
     DEF TakeLate, Apply, ControlInv, ControlTypeOK, ControlFieldsOK,
         RoutesLocked, LaunchOK, RouteJobs, Writing, Waiting, Crossing
<1>14. ASSUME Quit PROVE LaunchOK'
  BY <1>14
     DEF Quit, Stops, ControlInv, ControlTypeOK, ControlFieldsOK, RoutesLocked,
         LaunchOK, RouteJobs, Writing, Waiting, Crossing
<1>15. ASSUME Spawn PROVE LaunchOK'
  BY <1>15
     DEF Spawn, ControlInv, ControlTypeOK, ControlFieldsOK, RoutesLocked,
         LaunchOK, RouteJobs, Writing, Waiting, Crossing, Doubt
<1>16. ASSUME Started PROVE LaunchOK'
  BY <1>16
     DEF Started, Stops, ControlInv, ControlTypeOK, ControlFieldsOK,
         RoutesLocked, LaunchOK, RouteJobs, Writing, Waiting, Crossing, Doubt
<1>17. ASSUME StartFails PROVE LaunchOK'
  BY <1>17
     DEF StartFails, ControlInv, ControlTypeOK, ControlFieldsOK, RoutesLocked,
         LaunchOK, RouteJobs, Writing, Waiting, Crossing
<1> QED BY <1>1, <1>2, <1>3, <1>4, <1>5, <1>6, <1>7, <1>8, <1>9, <1>10, <1>11,
   <1>12, <1>13, <1>14, <1>15, <1>16, <1>17
   DEF ControlNext

LEMMA ControlInitInv == ControlInit => ControlInv
<1> SUFFICES ASSUME ControlInit PROVE ControlInv
  OBVIOUS
<1>1. ControlTypeOK
  BY EmptyTable, PersonaIsFix, DriversAssumption
     DEF ControlInit, ControlTypeOK, ControlFieldsOK, RoutesLocked, Fixes, RouteJobs
<1>2. \A t \in Drivers : AsksOK(t)
  BY DEF ControlInit, AsksOK
<1>3. RoutesOK /\ FixOK /\ LaunchOK
  BY DEF ControlInit, RoutesOK, FixOK, LaunchOK, Writing, Crossing
<1> QED BY <1>1, <1>2, <1>3 DEF ControlInv

LEMMA ControlNextInv ==
    ASSUME ControlInv, [ControlNext]_controlVars PROVE ControlInv'
<1>1. CASE ControlNext
  BY <1>1, FieldsKept, LockKept, AsksKept, RoutesKept, FixKept, LaunchKept
     DEF ControlInv, ControlTypeOK
<1>2. CASE UNCHANGED controlVars
  BY <1>2
     DEF ControlInv, ControlTypeOK, ControlFieldsOK, RoutesLocked, AsksOK,
         RoutesOK, FixOK, LaunchOK, Writing, Crossing, controlVars
<1> QED BY <1>1, <1>2

-----------------------------------------------------------------------------
(* Theorems *)

\* The inductive invariant holds.
THEOREM ControlInvariant == ControlSpec => []ControlInv
<1> QED BY ControlInitInv, ControlNextInv, PTL DEF ControlSpec

\* The types hold, and the mutex is held exactly over the route calls.
THEOREM ControlTypes == ControlSpec => []ControlTypeOK
<1>1. ControlInv => ControlTypeOK
  BY DEF ControlInv
<1> QED BY <1>1, ControlInvariant, PTL

\* The session lists the routes its engine applies.
THEOREM RoutesStayAgreed == ControlSpec => []RoutesAgree
<1>1. ControlInv => RoutesAgree
  BY DEF ControlInv, RoutesOK, RoutesAgree
<1> QED BY <1>1, ControlInvariant, PTL

\* The session's position is the one its pages read.
THEOREM PositionStaysAgreed == ControlSpec => []PositionAgrees
<1>1. ControlInv => PositionAgrees
  BY DEF ControlInv, FixOK, PositionAgrees
<1> QED BY <1>1, ControlInvariant, PTL
=============================================================================
