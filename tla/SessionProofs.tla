--------------------------- MODULE SessionProofs ----------------------------
(***************************************************************************)
(* Proofs about Session and about its telemetry, for any tasks and any      *)
(* number of engines.                                                       *)
(***************************************************************************)
EXTENDS Telemetry, TLAPS

\* Who may be where: `as` has steps of its own, and only it has an engine and
\* an old one at once.
CallsKept ==
    \A t \in Tasks :
       /\ pc[t] \in {"spawn", "replace", "record"} => call[t] = "as"
       /\ pc[t] \in {"enter", "launch", "attach", "publish", "read", "take", "wipe"}
             => call[t] # "as"

\* The mutex is held over a launch, by the task that launches, and the slot is
\* empty meanwhile.
LockHeld ==
    /\ \A t \in Tasks : pc[t] \in {"launch", "attach", "publish"} <=> launching = t
    /\ launching # None => browser = None

\* The inductive invariant.
SessionInv == TypeOK /\ CallsKept /\ LockHeld /\ OwnedIsRunning

-----------------------------------------------------------------------------
(* References *)

\* Dropping a reference to an engine leaves running what others hold.
LEMMA DropArcKeepsOwned ==
    ASSUME SessionInv, NEW t \in Tasks,
           running' = WithoutArc(t, arc[t]),
           arc' = [arc EXCEPT ![t] = None],
           UNCHANGED <<browser, old>>
    PROVE  OwnedIsRunning'
<1>1. /\ arc \in [Tasks -> Engines \union {None}]
      /\ running = Held
  BY DEF SessionInv, TypeOK, OwnedIsRunning
<1>2. /\ arc'[t] = None
      /\ \A u \in Tasks \ {t} : arc'[u] = arc[u]
  BY <1>1
<1>3. ASSUME NEW e
      PROVE  e \in running' <=> e \in Held'
  BY <1>1, <1>2 DEF Held, WithoutArc
<1> QED BY <1>3 DEF OwnedIsRunning

\* A task drops the reference it took out of the slot: the engine stops exactly
\* when nobody else has one.
LEMMA DropOldKeepsOwned ==
    ASSUME SessionInv, NEW t \in Tasks,
           running' = WithoutOld(t, old[t]),
           old' = [old EXCEPT ![t] = None],
           UNCHANGED <<browser, arc>>
    PROVE  OwnedIsRunning'
<1>1. /\ old \in [Tasks -> Engines \union {None}]
      /\ running = Held
  BY DEF SessionInv, TypeOK, OwnedIsRunning
<1>2. /\ old'[t] = None
      /\ \A u \in Tasks \ {t} : old'[u] = old[u]
  BY <1>1
<1>3. ASSUME NEW e
      PROVE  e \in running' <=> e \in Held'
  BY <1>1, <1>2 DEF Held, WithoutOld
<1> QED BY <1>3 DEF OwnedIsRunning

\* A new process is held by the task that started it.
LEMMA StartKeepsOwned ==
    ASSUME SessionInv, NEW t \in Tasks, NEW e \in Engines, arc[t] = None,
           running' = running \union {e},
           arc' = [arc EXCEPT ![t] = e],
           UNCHANGED <<browser, old>>
    PROVE  OwnedIsRunning'
<1>1. /\ arc \in [Tasks -> Engines \union {None}]
      /\ running = Held
  BY DEF SessionInv, TypeOK, OwnedIsRunning
<1>2. /\ arc'[t] = e
      /\ \A u \in Tasks \ {t} : arc'[u] = arc[u]
  BY <1>1
<1>3. ASSUME NEW f
      PROVE  f \in running' <=> f \in Held'
  BY <1>1, <1>2, NoEngine DEF Held
<1> QED BY <1>3 DEF OwnedIsRunning

\* The slot's reference is cloned, or one reference moves.
LEMMA CloneKeepsOwned ==
    ASSUME SessionInv, NEW t \in Tasks, arc[t] = None,
           arc' = [arc EXCEPT ![t] = browser],
           UNCHANGED <<browser, old, running>>
    PROVE  OwnedIsRunning'
<1>1. /\ arc \in [Tasks -> Engines \union {None}]
      /\ running = Held
  BY DEF SessionInv, TypeOK, OwnedIsRunning
<1>2. /\ arc'[t] = browser
      /\ \A u \in Tasks \ {t} : arc'[u] = arc[u]
  BY <1>1
<1>3. ASSUME NEW f
      PROVE  f \in running' <=> f \in Held'
  BY <1>1, <1>2 DEF Held
<1> QED BY <1>3 DEF OwnedIsRunning

\* close takes the engine out; `as` puts its own in the place of it.
LEMMA SwapKeepsOwned ==
    ASSUME SessionInv, NEW t \in Tasks, old[t] = None,
           old' = [old EXCEPT ![t] = browser],
           browser' = arc[t],
           UNCHANGED <<arc, running>>
    PROVE  OwnedIsRunning'
<1>1. /\ old \in [Tasks -> Engines \union {None}]
      /\ running = Held
  BY DEF SessionInv, TypeOK, OwnedIsRunning
<1>2. /\ old'[t] = browser
      /\ \A u \in Tasks \ {t} : old'[u] = old[u]
  BY <1>1
<1>3. ASSUME NEW f
      PROVE  f \in running' <=> f \in Held'
  BY <1>1, <1>2 DEF Held
<1> QED BY <1>3 DEF OwnedIsRunning

-----------------------------------------------------------------------------
(* Each step keeps the invariant *)

\* A task takes up a call with no reference in hand.
LEMMA BeginKeepsInv ==
    ASSUME SessionInv, NEW t \in Tasks, Begin(t)
    PROVE  SessionInv'
<1>1. PICK c \in CallsOf(t) : call' = [call EXCEPT ![t] = c] /\ Goto(t, FirstStep[c])
  BY DEF Begin
<1>2. /\ c \in Calls
      /\ FirstStep[c] \in {"enter", "take", "spawn"}
      /\ FirstStep[c] = "spawn" <=> c = "as"
  BY DEF CallsOf, Calls, FirstStep
<1>3. TypeOK'
  BY <1>1, <1>2 DEF SessionInv, TypeOK, Holding, Begin, Goto
<1>4. CallsKept' /\ LockHeld'
  BY <1>1, <1>2 DEF SessionInv, TypeOK, CallsKept, LockHeld, Begin, Goto
<1>5. OwnedIsRunning'
  BY DEF SessionInv, OwnedIsRunning, Held, Begin
<1> QED BY <1>3, <1>4, <1>5 DEF SessionInv

\* Entering browser(): by a hit, by a miss, or by current_url that launches nothing.
LEMMA EnterKeepsInv ==
    ASSUME SessionInv, NEW t \in Tasks, EnterHit(t) \/ EnterNothing(t) \/ EnterMiss(t)
    PROVE  SessionInv'
<1>1. CASE EnterHit(t)
  <2>1. TypeOK'
    BY <1>1 DEF SessionInv, TypeOK, Holding, EnterHit, Goto
  <2>2. CallsKept' /\ LockHeld'
    BY <1>1 DEF SessionInv, TypeOK, CallsKept, LockHeld, EnterHit, Goto
  <2>3. arc[t] = None
    BY <1>1 DEF SessionInv, TypeOK, Holding, EnterHit
  <2>4. OwnedIsRunning'
    BY <1>1, <2>3, CloneKeepsOwned DEF EnterHit
  <2> QED BY <2>1, <2>2, <2>4 DEF SessionInv
<1>2. CASE EnterNothing(t)
  <2>1. TypeOK'
    BY <1>2 DEF SessionInv, TypeOK, Holding, EnterNothing, Goto
  <2>2. CallsKept' /\ LockHeld'
    BY <1>2 DEF SessionInv, TypeOK, CallsKept, LockHeld, EnterNothing, Goto
  <2>3. OwnedIsRunning'
    BY <1>2 DEF SessionInv, OwnedIsRunning, Held, EnterNothing
  <2> QED BY <2>1, <2>2, <2>3 DEF SessionInv
<1>3. CASE EnterMiss(t)
  <2>1. TypeOK'
    BY <1>3 DEF SessionInv, TypeOK, Holding, EnterMiss, Goto
  <2>2. CallsKept' /\ LockHeld'
    BY <1>3, NoTask DEF SessionInv, TypeOK, CallsKept, LockHeld, EnterMiss, Goto
  <2>3. OwnedIsRunning'
    BY <1>3 DEF SessionInv, OwnedIsRunning, Held, EnterMiss
  <2> QED BY <2>1, <2>2, <2>3 DEF SessionInv
<1> QED BY <1>1, <1>2, <1>3

\* The launch under the mutex: its failure, the engine, its telemetry, the slot.
LEMMA LaunchKeepsInv ==
    ASSUME SessionInv, NEW t \in Tasks,
           LaunchFails(t) \/ Launch(t) \/ RecordTelemetry(t) \/ Publish(t)
    PROVE  SessionInv'
<1>1. CASE LaunchFails(t)
  <2>1. TypeOK'
    BY <1>1 DEF SessionInv, TypeOK, Holding, LaunchFails, Goto
  <2>2. CallsKept' /\ LockHeld'
    BY <1>1, NoTask DEF SessionInv, TypeOK, CallsKept, LockHeld, LaunchFails, Goto
  <2>3. OwnedIsRunning'
    BY <1>1 DEF SessionInv, OwnedIsRunning, Held, LaunchFails
  <2> QED BY <2>1, <2>2, <2>3 DEF SessionInv
<1>2. CASE Launch(t)
  <2>1. PICK e \in Fresh : running' = running \union {e} /\ arc' = [arc EXCEPT ![t] = e]
    BY <1>2 DEF Launch
  <2>2. e \in Engines /\ e # None
    BY <2>1, NoEngine DEF Fresh
  <2>3. TypeOK'
    BY <1>2, <2>1, <2>2 DEF SessionInv, TypeOK, Holding, Launch, Goto
  <2>4. CallsKept' /\ LockHeld'
    BY <1>2 DEF SessionInv, TypeOK, CallsKept, LockHeld, Launch, Goto
  <2>5. arc[t] = None
    BY <1>2 DEF SessionInv, TypeOK, Holding, Launch
  <2>6. OwnedIsRunning'
    BY <1>2, <2>1, <2>2, <2>5, StartKeepsOwned DEF Launch
  <2> QED BY <2>3, <2>4, <2>6 DEF SessionInv
<1>3. CASE RecordTelemetry(t)
  <2>1. TypeOK'
    BY <1>3 DEF SessionInv, TypeOK, Holding, RecordTelemetry, Goto
  <2>2. CallsKept' /\ LockHeld'
    BY <1>3 DEF SessionInv, TypeOK, CallsKept, LockHeld, RecordTelemetry, Goto
  <2>3. OwnedIsRunning'
    BY <1>3 DEF SessionInv, OwnedIsRunning, Held, RecordTelemetry
  <2> QED BY <2>1, <2>2, <2>3 DEF SessionInv
<1>4. CASE Publish(t)
  <2>1. TypeOK'
    BY <1>4 DEF SessionInv, TypeOK, Holding, Publish, Goto
  <2>2. CallsKept' /\ LockHeld'
    BY <1>4, NoTask DEF SessionInv, TypeOK, CallsKept, LockHeld, Publish, Goto
  <2>3. browser = None /\ browser' = arc[t] /\ UNCHANGED <<arc, old, running>>
    BY <1>4, NoTask DEF SessionInv, LockHeld, Publish
  <2>4. Held' = Held
    BY <2>3 DEF Held
  <2>5. OwnedIsRunning'
    BY <2>3, <2>4 DEF SessionInv, OwnedIsRunning
  <2> QED BY <2>1, <2>2, <2>5 DEF SessionInv
<1> QED BY <1>1, <1>2, <1>3, <1>4

\* Letting go of a page and reading the telemetry.
LEMMA UseKeepsInv ==
    ASSUME SessionInv, NEW t \in Tasks, Release(t) \/ ReadTelemetry(t)
    PROVE  SessionInv'
<1>1. CASE Release(t)
  <2>1. running' \in SUBSET Engines
    BY <1>1 DEF SessionInv, TypeOK, Release, WithoutArc
  <2>2. TypeOK'
    BY <1>1, <2>1 DEF SessionInv, TypeOK, Holding, Release, Goto
  <2>3. CallsKept' /\ LockHeld'
    BY <1>1 DEF SessionInv, TypeOK, CallsKept, LockHeld, Release, Goto
  <2>4. OwnedIsRunning'
    BY <1>1, DropArcKeepsOwned DEF Release
  <2> QED BY <2>2, <2>3, <2>4 DEF SessionInv
<1>2. CASE ReadTelemetry(t)
  <2>1. TypeOK'
    BY <1>2 DEF SessionInv, TypeOK, Holding, ReadTelemetry, Goto
  <2>2. CallsKept' /\ LockHeld'
    BY <1>2 DEF SessionInv, TypeOK, CallsKept, LockHeld, ReadTelemetry, Goto
  <2>3. OwnedIsRunning'
    BY <1>2 DEF SessionInv, OwnedIsRunning, Held, ReadTelemetry
  <2> QED BY <2>1, <2>2, <2>3 DEF SessionInv
<1> QED BY <1>1, <1>2

\* close(): the slot is taken, the telemetry wiped, the engine disposed of.
LEMMA CloseKeepsInv ==
    ASSUME SessionInv, NEW t \in Tasks, Take(t) \/ Wipe(t) \/ Dispose(t)
    PROVE  SessionInv'
<1>1. CASE Take(t)
  <2>1. TypeOK'
    BY <1>1 DEF SessionInv, TypeOK, Holding, Take, Goto
  <2>2. CallsKept' /\ LockHeld'
    BY <1>1 DEF SessionInv, TypeOK, CallsKept, LockHeld, Take, Goto
  <2>3. arc[t] = None /\ old[t] = None
    BY <1>1 DEF SessionInv, TypeOK, Holding, Take
  <2>4. OwnedIsRunning'
    BY <1>1, <2>3, SwapKeepsOwned DEF Take
  <2> QED BY <2>1, <2>2, <2>4 DEF SessionInv
<1>2. CASE Wipe(t)
  <2>1. TypeOK'
    BY <1>2 DEF SessionInv, TypeOK, CallsKept, Holding, Wipe, Goto
  <2>2. CallsKept' /\ LockHeld'
    BY <1>2 DEF SessionInv, TypeOK, CallsKept, LockHeld, Wipe, Goto
  <2>3. OwnedIsRunning'
    BY <1>2 DEF SessionInv, OwnedIsRunning, Held, Wipe
  <2> QED BY <2>1, <2>2, <2>3 DEF SessionInv
<1>3. CASE Dispose(t)
  <2>1. running' \in SUBSET Engines
    BY <1>3 DEF SessionInv, TypeOK, Dispose, WithoutOld
  <2>2. TypeOK'
    BY <1>3, <2>1 DEF SessionInv, TypeOK, Holding, Dispose, Goto
  <2>3. CallsKept' /\ LockHeld'
    BY <1>3 DEF SessionInv, TypeOK, CallsKept, LockHeld, Dispose, Goto
  <2>4. OwnedIsRunning'
    BY <1>3, DropOldKeepsOwned DEF Dispose
  <2> QED BY <2>2, <2>3, <2>4 DEF SessionInv
<1> QED BY <1>1, <1>2, <1>3

\* `as`: an engine beside the session's own, then adopt().
LEMMA AdoptKeepsInv ==
    ASSUME SessionInv, NEW t \in Tasks,
           SpawnFails(t) \/ Spawn(t) \/ Replace(t) \/ RecordAdopted(t)
    PROVE  SessionInv'
<1>1. CASE SpawnFails(t)
  <2>1. TypeOK'
    BY <1>1 DEF SessionInv, TypeOK, Holding, SpawnFails, Goto
  <2>2. CallsKept' /\ LockHeld'
    BY <1>1 DEF SessionInv, TypeOK, CallsKept, LockHeld, SpawnFails, Goto
  <2>3. OwnedIsRunning'
    BY <1>1 DEF SessionInv, OwnedIsRunning, Held, SpawnFails
  <2> QED BY <2>1, <2>2, <2>3 DEF SessionInv
<1>2. CASE Spawn(t)
  <2>1. PICK e \in Fresh : running' = running \union {e} /\ arc' = [arc EXCEPT ![t] = e]
    BY <1>2 DEF Spawn
  <2>2. e \in Engines /\ e # None
    BY <2>1, NoEngine DEF Fresh
  <2>3. TypeOK'
    BY <1>2, <2>1, <2>2 DEF SessionInv, TypeOK, Holding, Spawn, Goto
  <2>4. CallsKept' /\ LockHeld'
    BY <1>2 DEF SessionInv, TypeOK, CallsKept, LockHeld, Spawn, Goto
  <2>5. arc[t] = None
    BY <1>2 DEF SessionInv, TypeOK, Holding, Spawn
  <2>6. OwnedIsRunning'
    BY <1>2, <2>1, <2>2, <2>5, StartKeepsOwned DEF Spawn
  <2> QED BY <2>3, <2>4, <2>6 DEF SessionInv
<1>3. CASE Replace(t)
  <2>1. arc[t] # None /\ old[t] = None
    BY <1>3 DEF SessionInv, TypeOK, Holding, Replace
  <2>2. TypeOK'
    BY <1>3, <2>1 DEF SessionInv, TypeOK, Holding, Replace, Goto
  <2>3. CallsKept' /\ LockHeld'
    BY <1>3 DEF SessionInv, TypeOK, CallsKept, LockHeld, Replace, Goto
  <2>4. OwnedIsRunning'
    BY <1>3, <2>1, SwapKeepsOwned DEF Replace
  <2> QED BY <2>2, <2>3, <2>4 DEF SessionInv
<1>4. CASE RecordAdopted(t)
  <2>1. TypeOK'
    BY <1>4 DEF SessionInv, TypeOK, CallsKept, Holding, RecordAdopted, Goto
  <2>2. CallsKept' /\ LockHeld'
    BY <1>4 DEF SessionInv, TypeOK, CallsKept, LockHeld, RecordAdopted, Goto
  <2>3. OwnedIsRunning'
    BY <1>4 DEF SessionInv, OwnedIsRunning, Held, RecordAdopted
  <2> QED BY <2>1, <2>2, <2>3 DEF SessionInv
<1> QED BY <1>1, <1>2, <1>3, <1>4

\* The invariant the others follow from: who holds what, who holds the mutex,
\* and that the engines running are the ones held.
THEOREM SessionInvariant == Spec => []SessionInv
<1>1. Init => SessionInv
  <2> SUFFICES ASSUME Init PROVE SessionInv
    OBVIOUS
  <2>1. TypeOK
    BY DEF Init, TypeOK, Holding, Calls
  <2>2. CallsKept /\ LockHeld
    BY NoTask DEF Init, CallsKept, LockHeld
  <2>3. OwnedIsRunning
    BY DEF Init, OwnedIsRunning, Held
  <2> QED BY <2>1, <2>2, <2>3 DEF SessionInv
<1>2. SessionInv /\ [Next]_vars => SessionInv'
  <2> SUFFICES ASSUME SessionInv, [Next]_vars PROVE SessionInv'
    OBVIOUS
  <2>1. ASSUME NEW t \in Tasks, Begin(t) \/ Acquire(t) \/ Work(t) PROVE SessionInv'
    BY <2>1, BeginKeepsInv, EnterKeepsInv, LaunchKeepsInv, UseKeepsInv, CloseKeepsInv,
       AdoptKeepsInv DEF Acquire, Work
  <2>2. CASE UNCHANGED vars
    BY <2>2
       DEF vars, SessionInv, TypeOK, Holding, CallsKept, LockHeld,
           OwnedIsRunning, Held
  <2> QED BY <2>1, <2>2 DEF Next
<1> QED BY <1>1, <1>2, PTL DEF Spec

\* Types, and which references a task holds at each step of a call.
THEOREM SessionTypes == Spec => []TypeOK
BY SessionInvariant, PTL DEF SessionInv

\* close and adopt stop no engine that a verb still drives, and no engine is
\* left running with nobody to stop it.
THEOREM EnginesAreOwned == Spec => []OwnedIsRunning
BY SessionInvariant, PTL DEF SessionInv

\* browser() fills the slot only while it is empty.
THEOREM LaunchesFillEmptySlots == Spec => []LaunchIntoEmpty
<1>1. SessionInv => LaunchIntoEmpty
  BY NoTask DEF SessionInv, LockHeld, LaunchIntoEmpty
<1> QED BY <1>1, SessionInvariant, PTL

-----------------------------------------------------------------------------
(* The session is a place for one engine *)

\* A step that changes neither the slot nor what runs is a stutter; the others
\* start, hold, give up or stop an engine.
LEMMA StepImplementsSlot ==
    ASSUME SessionInv, [Next]_vars
    PROVE  [Slot!Next]_<<browser, running>>
<1>1. /\ arc \in [Tasks -> Engines \union {None}]
      /\ old \in [Tasks -> Engines \union {None}]
      /\ running = Held
      /\ \A t \in Tasks : arc[t] # None <=> Holding(t)
  BY DEF SessionInv, TypeOK, OwnedIsRunning
<1>2. \A t \in Tasks : arc[t] # None => arc[t] \in running /\ arc[t] \in Engines
  BY <1>1 DEF Held
<1>3. ASSUME NEW t \in Tasks, Launch(t) \/ Spawn(t)
      PROVE  Slot!Next
  <2>1. PICK e \in Fresh : running' = running \union {e} /\ UNCHANGED browser
    BY <1>3 DEF Launch, Spawn
  <2>2. Slot!Start(e) /\ e \in Engines
    BY <2>1 DEF Slot!Start, Fresh
  <2> QED BY <2>2 DEF Slot!Next
<1>4. ASSUME NEW t \in Tasks, Publish(t) \/ Replace(t)
      PROVE  Slot!Next
  <2>1. arc[t] \in running /\ arc[t] \in Engines
    BY <1>1, <1>2, <1>4 DEF Publish, Replace, Holding
  <2>2. Slot!Hold(arc[t])
    BY <1>4, <2>1 DEF Publish, Replace, Slot!Hold
  <2> QED BY <2>1, <2>2 DEF Slot!Next
<1>5. ASSUME NEW t \in Tasks, Take(t)
      PROVE  Slot!Next
  BY <1>5 DEF Take, Slot!Next, Slot!GiveUp
<1>6. ASSUME NEW t \in Tasks, Release(t)
      PROVE  Slot!Next \/ UNCHANGED <<browser, running>>
  <2>1. CASE arc[t] = browser
    BY <1>6, <2>1 DEF Release, WithoutArc
  <2>2. CASE arc[t] # browser /\ running' = running \ {arc[t]}
    <3>1. arc[t] \in Engines
      BY <1>1, <1>2, <1>6 DEF Release, Holding
    <3>2. Slot!Stop(arc[t])
      BY <1>6, <2>2 DEF Release, Slot!Stop
    <3> QED BY <3>1, <3>2 DEF Slot!Next
  <2> QED BY <1>6, <2>1, <2>2 DEF Release, WithoutArc
<1>7. ASSUME NEW t \in Tasks, Dispose(t)
      PROVE  Slot!Next \/ UNCHANGED <<browser, running>>
  <2>1. CASE old[t] = browser
    BY <1>7, <2>1 DEF Dispose, WithoutOld
  <2>2. CASE old[t] = None
    <3>1. None \notin running
      BY <1>1 DEF Held
    <3> QED BY <1>7, <2>2, <3>1 DEF Dispose, WithoutOld
  <2>3. CASE old[t] # browser /\ old[t] # None /\ running' = running \ {old[t]}
    <3>1. Slot!Stop(old[t]) /\ old[t] \in Engines
      BY <1>1, <1>7, <2>3 DEF Dispose, Slot!Stop
    <3> QED BY <3>1 DEF Slot!Next
  <2> QED BY <1>7, <2>1, <2>2, <2>3 DEF Dispose, WithoutOld
<1>8. ASSUME NEW t \in Tasks,
             \/ Begin(t) \/ EnterHit(t) \/ EnterNothing(t) \/ EnterMiss(t)
             \/ LaunchFails(t) \/ RecordTelemetry(t) \/ ReadTelemetry(t) \/ Wipe(t)
             \/ SpawnFails(t) \/ RecordAdopted(t)
      PROVE  UNCHANGED <<browser, running>>
  BY <1>8 DEF Begin, EnterHit, EnterNothing, EnterMiss, LaunchFails, RecordTelemetry,
     ReadTelemetry, Wipe, SpawnFails, RecordAdopted
<1>9. CASE UNCHANGED vars
  BY <1>9 DEF vars
<1>10. CASE Next
  BY <1>3, <1>4, <1>5, <1>6, <1>7, <1>8, <1>10 DEF Next, Acquire, Work
<1> QED BY <1>9, <1>10

\* Whatever verbs, `as` and close do at the same time, the engine the session
\* hands out runs, and no engine is stopped while it is in the slot.
THEOREM SessionIsEngineSlot == Spec => ImplementsEngineSlot
<1>1. Init => Slot!Init
  BY DEF Init, Slot!Init
<1>2. SessionInv /\ [Next]_vars => [Slot!Next]_<<browser, running>>
  BY StepImplementsSlot
<1> QED BY <1>1, <1>2, SessionInvariant, PTL DEF Spec, ImplementsEngineSlot, Slot!Spec

-----------------------------------------------------------------------------
(* The telemetry *)

\* While no writer has met another: there is one at most, and what it has
\* written so far says what it still has to write.
TelemetryInv ==
    ~crossed => /\ \A t, u \in Writers : t = u
                /\ \A t \in Tasks : /\ pc[t] = "publish" => telemetry = arc[t]
                                    /\ pc[t] = "record" => browser = arc[t]
                                    /\ pc[t] = "wipe" => browser = None
                /\ Writers = {} => telemetry = browser

\* The steps between which a task is a writer.
Opens(t) == RecordTelemetry(t) \/ Take(t) \/ Replace(t)
Closes(t) == Publish(t) \/ Wipe(t) \/ RecordAdopted(t)
Quiet(t) == \/ Begin(t) \/ EnterHit(t) \/ EnterNothing(t) \/ EnterMiss(t)
            \/ LaunchFails(t) \/ Launch(t) \/ Release(t) \/ ReadTelemetry(t)
            \/ Dispose(t) \/ SpawnFails(t) \/ Spawn(t)

\* A step that neither opens nor closes a pair of writes leaves both places and
\* the writers alone.
LEMMA QuietIsQuiet ==
    ASSUME TypeOK, NEW t \in Tasks, Quiet(t)
    PROVE  /\ UNCHANGED <<browser, telemetry>>
           /\ Writers' = Writers
           /\ \A u \in Writers : pc'[u] = pc[u] /\ arc'[u] = arc[u]
<1>1. UNCHANGED <<browser, telemetry>> /\ pc[t] \notin {"publish", "wipe", "record"}
  BY DEF Quiet, Begin, EnterHit, EnterNothing, EnterMiss, LaunchFails, Launch, Release,
     ReadTelemetry, Dispose, SpawnFails, Spawn
<1>2. /\ pc \in [Tasks -> {"idle", "enter", "launch", "attach", "publish", "drive", "read",
                           "take", "wipe", "dispose", "spawn", "replace", "record"}]
      /\ arc \in [Tasks -> Engines \union {None}]
  BY DEF TypeOK
<1>3. \A u \in Tasks \ {t} : pc'[u] = pc[u]
  BY <1>2 DEF Quiet, Begin, EnterHit, EnterNothing, EnterMiss, LaunchFails, Launch, Release,
     ReadTelemetry, Dispose, SpawnFails, Spawn, Goto
<1>4. \A u \in Tasks \ {t} : arc'[u] = arc[u]
  BY <1>2 DEF Quiet, Begin, EnterHit, EnterNothing, EnterMiss, LaunchFails, Launch, Release,
     ReadTelemetry, Dispose, SpawnFails, Spawn
<1>5. pc'[t] \notin {"publish", "wipe", "record"}
  <2>1. CASE Begin(t)
    BY <2>1, <1>2 DEF Begin, Goto, FirstStep, CallsOf, Calls
  <2>2. CASE ~Begin(t)
    BY <2>2, <1>2 DEF Quiet, EnterHit, EnterNothing, EnterMiss, LaunchFails, Launch, Release,
       ReadTelemetry, Dispose, SpawnFails, Spawn, Goto
  <2> QED BY <2>1, <2>2
<1> QED BY <1>1, <1>3, <1>4, <1>5 DEF Writers

\* A writer that comes alone starts from the place as the last one left it.
LEMMA OpeningKeepsTelemetry ==
    ASSUME TypeOK, TelemetryInv, NEW t \in Tasks, Opens(t), NoteWriters
    PROVE  TelemetryInv'
<1> SUFFICES ASSUME ~crossed' PROVE TelemetryInv'
  BY DEF TelemetryInv
<1>1. /\ pc \in [Tasks -> {"idle", "enter", "launch", "attach", "publish", "drive", "read",
                           "take", "wipe", "dispose", "spawn", "replace", "record"}]
      /\ arc' = arc
  BY DEF TypeOK, Opens, RecordTelemetry, Take, Replace
<1>2. /\ t \notin Writers
      /\ t \in Writers'
      /\ \A u \in Tasks \ {t} : pc'[u] = pc[u]
  BY <1>1 DEF Opens, RecordTelemetry, Take, Replace, Goto, Writers
<1>3. Writers = {}
  BY <1>2 DEF NoteWriters
<1>4. Writers' = {t}
  BY <1>2, <1>3 DEF Writers
<1>5. /\ pc'[t] = "publish" => telemetry' = arc'[t]
      /\ pc'[t] = "record" => browser' = arc'[t]
      /\ pc'[t] = "wipe" => browser' = None
  BY <1>1 DEF Opens, RecordTelemetry, Take, Replace, Goto
<1>6. \A u \in Tasks \ {t} : pc'[u] \notin {"publish", "wipe", "record"}
  BY <1>2, <1>3 DEF Writers
<1> QED BY <1>4, <1>5, <1>6 DEF TelemetryInv

\* A writer that nobody met leaves both places with the same engine, or with none.
LEMMA ClosingKeepsTelemetry ==
    ASSUME TypeOK, TelemetryInv, NEW t \in Tasks, Closes(t), NoteWriters
    PROVE  TelemetryInv'
<1> SUFFICES ASSUME ~crossed' PROVE TelemetryInv'
  BY DEF TelemetryInv
<1>1. pc \in [Tasks -> {"idle", "enter", "launch", "attach", "publish", "drive", "read",
                        "take", "wipe", "dispose", "spawn", "replace", "record"}]
  BY DEF TypeOK
<1>2. /\ t \in Writers
      /\ pc'[t] \notin {"publish", "wipe", "record"}
      /\ \A u \in Tasks \ {t} : pc'[u] = pc[u]
  BY <1>1 DEF Closes, Publish, Wipe, RecordAdopted, Goto, Writers
<1>3. Writers' = Writers \ {t}
  BY <1>2 DEF Writers
<1>4. ~crossed
  BY <1>3 DEF NoteWriters
<1>5. Writers' = {}
  BY <1>2, <1>3, <1>4 DEF TelemetryInv
<1>6. \A u \in Tasks : pc'[u] \notin {"publish", "wipe", "record"}
  BY <1>5 DEF Writers
<1>7. telemetry' = browser'
  BY <1>4 DEF TelemetryInv, Closes, Publish, Wipe, RecordAdopted
<1> QED BY <1>5, <1>6, <1>7 DEF TelemetryInv

\* Every step of a verb, an `as` or a close keeps what the telemetry owes the slot.
LEMMA StepKeepsTelemetry ==
    ASSUME TypeOK, TelemetryInv, [TelemetryNext]_<<vars, crossed>>
    PROVE  TelemetryInv'
<1>1. ASSUME NEW t \in Tasks, Quiet(t), NoteWriters
      PROVE  TelemetryInv'
  <2> SUFFICES ASSUME ~crossed' PROVE TelemetryInv'
    BY DEF TelemetryInv
  <2>1. /\ UNCHANGED <<browser, telemetry>>
        /\ Writers' = Writers
        /\ \A u \in Writers : pc'[u] = pc[u] /\ arc'[u] = arc[u]
    BY <1>1, QuietIsQuiet
  <2>2. ~crossed
    BY <1>1, <2>1 DEF NoteWriters
  <2>3. \A u \in Tasks : pc'[u] \in {"publish", "wipe", "record"} => u \in Writers
    BY <2>1 DEF Writers
  <2> QED BY <2>1, <2>2, <2>3 DEF TelemetryInv
<1>2. CASE UNCHANGED <<vars, crossed>>
  BY <1>2 DEF vars, TelemetryInv, Writers
<1>3. CASE TelemetryNext
  <2>1. PICK t \in Tasks : Begin(t) \/ Acquire(t) \/ Work(t)
    BY <1>3 DEF TelemetryNext, Next
  <2>2. Quiet(t) \/ Opens(t) \/ Closes(t)
    BY <2>1 DEF Acquire, Work, Quiet, Opens, Closes
  <2> QED BY <1>1, <1>3, <2>2, OpeningKeepsTelemetry, ClosingKeepsTelemetry
      DEF TelemetryNext
<1> QED BY <1>2, <1>3

\* With any number of verbs, `as` and closes at the same time, only two of them
\* between whose writes the other came leave a session with the telemetry of an
\* engine it does not hand out, and the next that comes alone mends it.
THEOREM TelemetryFollowsSlot == TelemetrySpec => []TelemetryUnlessCrossed
<1>1. TelemetryInit => TelemetryInv
  BY DEF TelemetryInit, Init, TelemetryInv, Writers
<1>2. TypeOK /\ TelemetryInv /\ [TelemetryNext]_<<vars, crossed>> => TelemetryInv'
  BY StepKeepsTelemetry
<1>3. TelemetryInit => Init
  BY DEF TelemetryInit
<1>4. [TelemetryNext]_<<vars, crossed>> => [Next]_vars
  BY DEF TelemetryNext
<1>5. TelemetrySpec => Spec
  BY <1>3, <1>4, PTL DEF TelemetrySpec, Spec
<1>6. TelemetryInv => TelemetryUnlessCrossed
  BY DEF TelemetryInv, TelemetryUnlessCrossed
<1> QED BY <1>1, <1>2, <1>5, <1>6, SessionTypes, PTL DEF TelemetrySpec
=============================================================================
