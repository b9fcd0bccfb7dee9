-------------------------- MODULE RegistryProofs ---------------------------
(***************************************************************************)
(* Proofs about Registry, for any clients, contexts, sessions and locks.   *)
(***************************************************************************)
EXTENDS Registry, TLAPS

\* What a task has in hand at each step: only a close removes, and only a client
\* does anything else.
InStep ==
    \A a \in Actors :
       /\ job[a] = None <=> pc[a] = "idle"
       /\ pc[a] \in {"remove", "forget", "close"} <=>
             job[a] # None /\ job[a].request = "close"
       /\ a = Reaper => pc[a] \in {"idle", "remove", "forget", "close"}
       /\ lock[a] # None => pc[a] \in {"acquire", "recheck", "build", "touch"}
       /\ sess[a] # None => pc[a] \in {"touch", "enter", "launch", "drive", "forget", "close"}
       /\ pc[a] = "acquire" => lock[a] # None
       /\ pc[a] = "close" => sess[a] # None

\* A launch lock is held by a task that refers to it, from acquiring it to the
\* return of open().
LocksHeld ==
    /\ \A k \in Locks : owner[k] # None => lock[owner[k]] = k
    /\ \A c \in Clients :
          /\ pc[c] \in {"recheck", "build"} => lock[c] # None
          /\ lock[c] # None /\ pc[c] # "acquire" => owner[lock[c]] = c

\* A session's mutex is held by the task that launches its engine.
MutexHeld ==
    /\ \A s \in Sessions : launching[s] # None => /\ sess[launching[s]] = s
                                                  /\ pc[launching[s]] = "launch"
    /\ \A c \in Clients : pc[c] = "launch" => launching[sess[c]] = c

\* An engine runs only in a session somebody refers to.
EnginesReferred ==
    \A s \in Sessions : up[s] => \/ \E x \in Contexts : sessions[x] = s
                                 \/ \E a \in Actors : sess[a] = s

\* Nobody takes a kept context's session or launch lock out of the maps, so the
\* tasks that launch it share one lock and build while there is no session.
KeptAlone ==
    /\ idle \intersect Kept = {}
    /\ stale \intersect Kept = {}
    /\ \A x \in Kept : \A a \in On(x) :
          /\ job[a].request # "close"
          /\ lock[a] # None => launch_locks[x] = lock[a]
          /\ pc[a] = "build" => sessions[x] = None

\* A registered launch lock has a session beside it, or a task that is about to
\* register the session or to forget the lock.
LocksHaveReason ==
    \A x \in Contexts \ Refusable :
       launch_locks[x] # None =>
          \/ sessions[x] # None
          \/ \E a \in On(x) : pc[a] \in {"acquire", "recheck", "build", "forget"}

\* The inductive invariant.
RegistryInv == /\ TypeOK
               /\ InStep
               /\ LocksHeld
               /\ MutexHeld
               /\ EnginesReferred
               /\ KeptAlone /\ OneSessionPerKeptContext
               /\ LocksHaveReason

-----------------------------------------------------------------------------
(* Each step keeps the invariant *)

\* Opening a context: a launch builds its session under the lock it shares with
\* the other launches, and lets go of the lock on every way out of open().
LEMMA OpenKeepsInv ==
    ASSUME RegistryInv, NEW c \in Clients,
           \/ GetHit(c) \/ GetMiss(c) \/ Touch(c)
           \/ LaunchLock(c) \/ Acquire(c) \/ RecheckHit(c) \/ RecheckMiss(c)
           \/ Refuse(c) \/ Insert(c)
    PROVE  RegistryInv'
<1>1. CASE GetHit(c)
  <2>1. TypeOK'
    BY <1>1
       DEF RegistryInv, TypeOK, InStep, Actors, Jobs, GetHit, Goto, Registered,
           maps, engines
  <2>2. InStep'
    BY <1>1 DEF RegistryInv, TypeOK, InStep, GetHit, Goto
  <2>3. LocksHeld'
    BY <1>1 DEF RegistryInv, TypeOK, LocksHeld, GetHit, Goto
  <2>4. MutexHeld'
    BY <1>1 DEF RegistryInv, TypeOK, MutexHeld, GetHit, Goto, engines
  <2>5. EnginesReferred'
    BY <1>1, NoNames
       DEF RegistryInv, TypeOK, InStep, EnginesReferred, GetHit, Goto, maps,
           engines
  <2>6. KeptAlone' /\ OneSessionPerKeptContext'
    BY <1>1
       DEF RegistryInv, TypeOK, KeptAlone, OneSessionPerKeptContext, GetHit,
           Goto, Registered, On, maps
  <2>7. LocksHaveReason'
    BY <1>1 DEF RegistryInv, TypeOK, LocksHaveReason, GetHit, Goto, On, maps
  <2> QED BY <2>1, <2>2, <2>3, <2>4, <2>5, <2>6, <2>7 DEF RegistryInv
<1>2. CASE GetMiss(c)
  <2>1. TypeOK'
    BY <1>2 DEF RegistryInv, TypeOK, Actors, GetMiss, Goto, Finish, maps, engines
  <2>2. InStep'
    BY <1>2 DEF RegistryInv, TypeOK, InStep, GetMiss, Goto, Finish
  <2>3. LocksHeld'
    BY <1>2 DEF RegistryInv, TypeOK, Actors, LocksHeld, GetMiss, Goto, Finish
  <2>4. MutexHeld'
    BY <1>2 DEF RegistryInv, TypeOK, Actors, MutexHeld, GetMiss, Goto, Finish, engines
  <2>5. EnginesReferred'
    BY <1>2
       DEF RegistryInv, TypeOK, EnginesReferred, GetMiss, Goto, Finish, maps,
           engines
  <2>6. KeptAlone' /\ OneSessionPerKeptContext'
    BY <1>2
       DEF RegistryInv, TypeOK, KeptAlone, OneSessionPerKeptContext, GetMiss,
           Goto, Finish, On, maps
  <2>7. LocksHaveReason'
    BY <1>2 DEF RegistryInv, TypeOK, LocksHaveReason, GetMiss, Goto, Finish, On, maps
  <2> QED BY <2>1, <2>2, <2>3, <2>4, <2>5, <2>6, <2>7 DEF RegistryInv
<1>3. CASE Touch(c)
  <2>1. TypeOK'
    BY <1>3
       DEF RegistryInv, TypeOK, InStep, Actors, Jobs, Touch, Unlock, Serve,
           maps, engines
  <2>2. InStep'
    BY <1>3, NoJob DEF RegistryInv, TypeOK, InStep, Jobs, Touch, Unlock, Serve
  <2>3. LocksHeld'
    BY <1>3 DEF RegistryInv, TypeOK, Actors, LocksHeld, Touch, Unlock, Serve
  <2>4. MutexHeld'
    BY <1>3 DEF RegistryInv, TypeOK, MutexHeld, Touch, Unlock, Serve, engines
  <2>5. EnginesReferred'
    BY <1>3
       DEF RegistryInv, TypeOK, EnginesReferred, Touch, Unlock, Serve, maps,
           engines
  <2>6. KeptAlone' /\ OneSessionPerKeptContext'
    BY <1>3
       DEF RegistryInv, TypeOK, InStep, KeptAlone, OneSessionPerKeptContext,
           Touch, Unlock, Serve, On, maps
  <2>7. LocksHaveReason'
    BY <1>3 DEF RegistryInv, TypeOK, LocksHaveReason, Touch, Unlock, Serve, On, maps
  <2> QED BY <2>1, <2>2, <2>3, <2>4, <2>5, <2>6, <2>7 DEF RegistryInv
<1>4. CASE LaunchLock(c)
  <2>0. PICK k \in Locks : /\ launch_locks' = [launch_locks EXCEPT ![job[c].ctx] = k]
                          /\ lock' = [lock EXCEPT ![c] = k]
                          /\ launch_locks[job[c].ctx] \in {None, k}
    <3>1. c \in Actors /\ job[c].ctx \in Contexts
      BY <1>4 DEF RegistryInv, TypeOK, InStep, Actors, Jobs, LaunchLock
    <3>2. CASE launch_locks[job[c].ctx] # None
      BY <1>4, <3>1, <3>2 DEF RegistryInv, TypeOK, LaunchLock
    <3>3. CASE launch_locks[job[c].ctx] = None
      <4>1. (CHOOSE fresh \in FreshLocks : TRUE) \in Locks
        BY <1>4, <3>3 DEF LaunchLock, FreshLocks
      <4> QED BY <1>4, <3>3, <4>1 DEF LaunchLock
    <3> QED BY <3>2, <3>3
  <2>a. pc[c] = "lock" /\ Goto(c, "acquire") /\ UNCHANGED engines
         /\ UNCHANGED <<sessions, owner, idle, sess, stale>>
    BY <1>4 DEF LaunchLock
  <2>1. TypeOK'
    BY <2>0, <2>a DEF RegistryInv, TypeOK, Actors, Goto, engines
  <2>2. InStep'
    BY <2>0, <2>a, NoNames DEF RegistryInv, TypeOK, InStep, Goto
  <2>3. LocksHeld'
    BY <2>0, <2>a, NoNames DEF RegistryInv, TypeOK, InStep, LocksHeld, Goto
  <2>4. MutexHeld'
    BY <2>0, <2>a DEF RegistryInv, TypeOK, MutexHeld, Goto, engines
  <2>5. EnginesReferred'
    BY <2>0, <2>a DEF RegistryInv, TypeOK, EnginesReferred, Goto, engines
  <2>6. KeptAlone' /\ OneSessionPerKeptContext'
    BY <2>0, <2>a
       DEF RegistryInv, TypeOK, Jobs, KeptAlone, OneSessionPerKeptContext, Goto,
           On
  <2>7. LocksHaveReason'
    BY <2>0, <2>a DEF RegistryInv, TypeOK, InStep, Actors, LocksHaveReason, Goto, On
  <2> QED BY <2>1, <2>2, <2>3, <2>4, <2>5, <2>6, <2>7 DEF RegistryInv
<1>5. CASE Acquire(c)
  <2>1. TypeOK'
    BY <1>5 DEF RegistryInv, TypeOK, Actors, Acquire, Goto, maps, engines
  <2>2. InStep'
    BY <1>5 DEF RegistryInv, TypeOK, InStep, Acquire, Goto
  <2>3. LocksHeld'
    BY <1>5, NoNames DEF RegistryInv, TypeOK, InStep, Actors, LocksHeld, Acquire, Goto
  <2>4. MutexHeld'
    BY <1>5 DEF RegistryInv, TypeOK, MutexHeld, Acquire, Goto, engines
  <2>5. EnginesReferred'
    BY <1>5 DEF RegistryInv, TypeOK, EnginesReferred, Acquire, Goto, maps, engines
  <2>6. KeptAlone' /\ OneSessionPerKeptContext'
    BY <1>5
       DEF RegistryInv, TypeOK, KeptAlone, OneSessionPerKeptContext, Acquire,
           Goto, On, maps
  <2>7. LocksHaveReason'
    BY <1>5 DEF RegistryInv, TypeOK, LocksHaveReason, Acquire, Goto, On, maps
  <2> QED BY <2>1, <2>2, <2>3, <2>4, <2>5, <2>6, <2>7 DEF RegistryInv
<1>6. CASE RecheckHit(c)
  <2>1. TypeOK'
    BY <1>6
       DEF RegistryInv, TypeOK, InStep, Actors, Jobs, RecheckHit, Goto,
           Registered, maps, engines
  <2>2. InStep'
    BY <1>6 DEF RegistryInv, TypeOK, InStep, RecheckHit, Goto
  <2>3. LocksHeld'
    BY <1>6 DEF RegistryInv, TypeOK, LocksHeld, RecheckHit, Goto
  <2>4. MutexHeld'
    BY <1>6 DEF RegistryInv, TypeOK, MutexHeld, RecheckHit, Goto, engines
  <2>5. EnginesReferred'
    BY <1>6, NoNames
       DEF RegistryInv, TypeOK, InStep, EnginesReferred, RecheckHit, Goto, maps,
           engines
  <2>6. KeptAlone' /\ OneSessionPerKeptContext'
    BY <1>6
       DEF RegistryInv, TypeOK, KeptAlone, OneSessionPerKeptContext, RecheckHit,
           Goto, Registered, On, maps
  <2>7. LocksHaveReason'
    BY <1>6
       DEF RegistryInv, TypeOK, LocksHaveReason, RecheckHit, Goto, Registered,
           On, maps
  <2> QED BY <2>1, <2>2, <2>3, <2>4, <2>5, <2>6, <2>7 DEF RegistryInv
<1>7. CASE RecheckMiss(c)
  <2>1. TypeOK'
    BY <1>7 DEF RegistryInv, TypeOK, Actors, RecheckMiss, Goto, maps, engines
  <2>2. InStep'
    BY <1>7 DEF RegistryInv, TypeOK, InStep, RecheckMiss, Goto
  <2>3. LocksHeld'
    BY <1>7 DEF RegistryInv, TypeOK, LocksHeld, RecheckMiss, Goto
  <2>4. MutexHeld'
    BY <1>7 DEF RegistryInv, TypeOK, MutexHeld, RecheckMiss, Goto, engines
  <2>5. EnginesReferred'
    BY <1>7 DEF RegistryInv, TypeOK, EnginesReferred, RecheckMiss, Goto, maps, engines
  <2>6. KeptAlone' /\ OneSessionPerKeptContext'
    BY <1>7
       DEF RegistryInv, TypeOK, KeptAlone, OneSessionPerKeptContext,
           RecheckMiss, Goto, Registered, On, maps
  <2>7. LocksHaveReason'
    BY <1>7 DEF RegistryInv, TypeOK, LocksHaveReason, RecheckMiss, Goto, On, maps
  <2> QED BY <2>1, <2>2, <2>3, <2>4, <2>5, <2>6, <2>7 DEF RegistryInv
<1>8. CASE Refuse(c)
  <2>1. TypeOK'
    BY <1>8 DEF RegistryInv, TypeOK, Actors, Refuse, Unlock, Finish, maps, engines
  <2>2. InStep'
    BY <1>8 DEF RegistryInv, TypeOK, InStep, Refuse, Unlock, Finish
  <2>3. LocksHeld'
    BY <1>8 DEF RegistryInv, TypeOK, Actors, LocksHeld, Refuse, Unlock, Finish
  <2>4. MutexHeld'
    BY <1>8 DEF RegistryInv, TypeOK, MutexHeld, Refuse, Unlock, Finish, engines
  <2>5. EnginesReferred'
    BY <1>8
       DEF RegistryInv, TypeOK, EnginesReferred, Refuse, Unlock, Finish, maps,
           engines
  <2>6. KeptAlone' /\ OneSessionPerKeptContext'
    BY <1>8
       DEF RegistryInv, TypeOK, KeptAlone, OneSessionPerKeptContext, Refuse,
           Unlock, Finish, On, maps
  <2>7. LocksHaveReason'
    BY <1>8 DEF RegistryInv, TypeOK, LocksHaveReason, Refuse, Unlock, Finish, On, maps
  <2> QED BY <2>1, <2>2, <2>3, <2>4, <2>5, <2>6, <2>7 DEF RegistryInv
<1>9. CASE Insert(c)
  <2>0. PICK s \in Sessions :
           /\ \A x \in Contexts : sessions[x] # s
           /\ \A a \in Actors : sess[a] # s
           /\ sessions' = [sessions EXCEPT ![job[c].ctx] = s]
           /\ sess' = [sess EXCEPT ![c] = s]
    <3>1. (CHOOSE fresh \in FreshSessions : TRUE) \in FreshSessions
      BY <1>9 DEF Insert
    <3> QED BY <1>9, <3>1 DEF Insert, FreshSessions
  <2>a. /\ pc[c] = "build"
         /\ idle' = idle \ {job[c].ctx}
         /\ up' = [t \in Sessions |->
                     up[t] /\ (t = Registered(c) => \E a \in Actors : sess[a] = t)]
         /\ Unlock(c)
         /\ Serve(c, "verb")
         /\ UNCHANGED <<launch_locks, launching, stale>>
    BY <1>9 DEF Insert
  <2>1. TypeOK'
    BY <2>0, <2>a DEF RegistryInv, TypeOK, InStep, Actors, Jobs, Unlock, Serve
  <2>2. InStep'
    BY <2>0, <2>a, NoJob DEF RegistryInv, TypeOK, InStep, Jobs, Unlock, Serve
  <2>3. LocksHeld'
    BY <2>0, <2>a DEF RegistryInv, TypeOK, Actors, LocksHeld, Unlock, Serve
  <2>4. MutexHeld'
    BY <2>0, <2>a DEF RegistryInv, TypeOK, MutexHeld, Unlock, Serve
  <2>5. EnginesReferred'
    BY <2>0, <2>a, NoNames
       DEF RegistryInv, TypeOK, InStep, EnginesReferred, Unlock, Serve,
           Registered
  <2>6. KeptAlone' /\ OneSessionPerKeptContext'
    <3>1. /\ c \in Actors /\ job[c] # None /\ job[c].ctx \in Contexts
          /\ job'[c].ctx = job[c].ctx /\ job'[c].request = "verb"
          /\ pc'[c] = "enter" /\ lock'[c] = None
      BY <2>0, <2>a DEF RegistryInv, TypeOK, InStep, Actors, Jobs, Unlock, Serve
    <3>2. \A a \in Actors \ {c} : /\ job'[a] = job[a] /\ pc'[a] = pc[a]
                                  /\ lock'[a] = lock[a] /\ sess'[a] = sess[a]
      BY <2>0, <2>a DEF RegistryInv, TypeOK, Unlock, Serve
    <3>3. \A x \in Contexts : On(x)' = On(x)
      BY <2>a, <3>1, <3>2, NoJob DEF On, Unlock, Serve, RegistryInv, TypeOK, Jobs
    <3>4. ASSUME NEW x \in Kept, x = job[c].ctx, NEW a \in On(x), a # c
          PROVE  pc[a] # "build" /\ sess[a] = None
      <4>1. c \in On(x) /\ sessions[x] = None /\ lock[c] # None
            /\ launch_locks[x] = lock[c] /\ owner[lock[c]] = c
        BY <2>a, <3>1, <3>4 DEF On, RegistryInv, KeptAlone, LocksHeld
      <4>2. sess[a] = None
        BY <4>1 DEF RegistryInv, OneSessionPerKeptContext
      <4>3. ASSUME pc[a] = "build" PROVE FALSE
        <5>1. a \in Clients
          BY <4>3 DEF On, Actors, RegistryInv, InStep
        <5>2. lock[a] = lock[c] /\ owner[lock[a]] = a
          BY <4>1, <4>3, <5>1 DEF RegistryInv, KeptAlone, LocksHeld
        <5> QED BY <3>4, <4>1, <5>2
      <4> QED BY <4>2, <4>3
    <3>5. KeptAlone'
      <4>1. idle' \intersect Kept = {} /\ stale' \intersect Kept = {}
        BY <2>a DEF RegistryInv, KeptAlone
      <4>2. ASSUME NEW x \in Kept, NEW a \in On(x)'
            PROVE  /\ job'[a].request # "close"
                   /\ lock'[a] # None => launch_locks'[x] = lock'[a]
                   /\ pc'[a] = "build" => sessions'[x] = None
        <5>1. a \in On(x) /\ a \in Actors
          BY <3>3, ContextSets DEF On
        <5>2. CASE a = c
          BY <3>1, <5>2
        <5>3. CASE a # c
          BY <2>0, <2>a, <3>1, <3>2, <3>4, <5>1, <5>3, ContextSets
             DEF RegistryInv, KeptAlone, TypeOK
        <5> QED BY <5>2, <5>3
      <4> QED BY <4>1, <4>2 DEF KeptAlone
    <3>6. OneSessionPerKeptContext'
      <4> SUFFICES ASSUME NEW x \in Kept, NEW a \in On(x)', sess'[a] # None
                   PROVE  sessions'[x] = sess'[a]
        BY DEF OneSessionPerKeptContext
      <4>1. a \in On(x) /\ a \in Actors
        BY <3>3, ContextSets DEF On
      <4>2. CASE a = c
        BY <2>0, <3>1, <4>1, <4>2 DEF On, RegistryInv, TypeOK
      <4>3. CASE a # c
        <5>1. sess[a] # None /\ sess'[a] = sess[a] /\ sessions[x] = sess[a]
          BY <3>2, <4>1, <4>3 DEF RegistryInv, OneSessionPerKeptContext
        <5>2. x # job[c].ctx
          BY <3>4, <4>1, <4>3, <5>1
        <5> QED BY <2>0, <5>1, <5>2, ContextSets DEF RegistryInv, TypeOK
      <4> QED BY <4>2, <4>3
    <3> QED BY <3>5, <3>6
  <2>7. LocksHaveReason'
    BY <2>0, <2>a
       DEF RegistryInv, TypeOK, InStep, Actors, LocksHaveReason, Unlock, Serve,
           On
  <2> QED BY <2>1, <2>2, <2>3, <2>4, <2>5, <2>6, <2>7 DEF RegistryInv
<1> QED BY <1>1, <1>2, <1>3, <1>4, <1>5, <1>6, <1>7, <1>8, <1>9

\* Serving a request: the session's mutex is held from the look that finds no
\* engine to the launch's end, and a session is let go of with its engine.
LEMMA ServeKeepsInv ==
    ASSUME RegistryInv, NEW c \in Clients,
           \/ EnterHit(c) \/ EnterMiss(c) \/ Launched(c) \/ LaunchFailed(c)
           \/ VerbDone(c) \/ Reply(c)
    PROVE  RegistryInv'
<1>1. CASE EnterHit(c)
  <2>1. TypeOK'
    BY <1>1 DEF RegistryInv, TypeOK, Actors, EnterHit, Goto, maps, engines
  <2>2. InStep'
    BY <1>1 DEF RegistryInv, TypeOK, InStep, EnterHit, Goto
  <2>3. LocksHeld'
    BY <1>1 DEF RegistryInv, TypeOK, LocksHeld, EnterHit, Goto
  <2>4. MutexHeld'
    BY <1>1 DEF RegistryInv, TypeOK, MutexHeld, EnterHit, Goto, engines
  <2>5. EnginesReferred'
    BY <1>1 DEF RegistryInv, TypeOK, EnginesReferred, EnterHit, Goto, maps, engines
  <2>6. KeptAlone' /\ OneSessionPerKeptContext'
    BY <1>1
       DEF RegistryInv, TypeOK, KeptAlone, OneSessionPerKeptContext, EnterHit,
           Goto, On, maps
  <2>7. LocksHaveReason'
    BY <1>1 DEF RegistryInv, TypeOK, LocksHaveReason, EnterHit, Goto, On, maps
  <2> QED BY <2>1, <2>2, <2>3, <2>4, <2>5, <2>6, <2>7 DEF RegistryInv
<1>2. CASE EnterMiss(c)
  <2>1. TypeOK'
    BY <1>2 DEF RegistryInv, TypeOK, Actors, EnterMiss, Goto, maps
  <2>2. InStep'
    BY <1>2 DEF RegistryInv, TypeOK, InStep, EnterMiss, Goto
  <2>3. LocksHeld'
    BY <1>2 DEF RegistryInv, TypeOK, LocksHeld, EnterMiss, Goto
  <2>4. MutexHeld'
    BY <1>2, NoNames DEF RegistryInv, TypeOK, Actors, MutexHeld, EnterMiss, Goto
  <2>5. EnginesReferred'
    BY <1>2 DEF RegistryInv, TypeOK, EnginesReferred, EnterMiss, Goto, maps
  <2>6. KeptAlone' /\ OneSessionPerKeptContext'
    BY <1>2
       DEF RegistryInv, TypeOK, KeptAlone, OneSessionPerKeptContext, EnterMiss,
           Goto, On, maps
  <2>7. LocksHaveReason'
    BY <1>2 DEF RegistryInv, TypeOK, LocksHaveReason, EnterMiss, Goto, On, maps
  <2> QED BY <2>1, <2>2, <2>3, <2>4, <2>5, <2>6, <2>7 DEF RegistryInv
<1>3. CASE Launched(c)
  <2>1. TypeOK'
    BY <1>3 DEF RegistryInv, TypeOK, Actors, Launched, Goto, maps
  <2>2. InStep'
    BY <1>3 DEF RegistryInv, TypeOK, InStep, Launched, Goto
  <2>3. LocksHeld'
    BY <1>3 DEF RegistryInv, TypeOK, LocksHeld, Launched, Goto
  <2>4. MutexHeld'
    BY <1>3 DEF RegistryInv, TypeOK, Actors, MutexHeld, Launched, Goto
  <2>5. EnginesReferred'
    BY <1>3 DEF RegistryInv, TypeOK, Actors, EnginesReferred, Launched, Goto, maps
  <2>6. KeptAlone' /\ OneSessionPerKeptContext'
    BY <1>3
       DEF RegistryInv, TypeOK, KeptAlone, OneSessionPerKeptContext, Launched,
           Goto, On, maps
  <2>7. LocksHaveReason'
    BY <1>3 DEF RegistryInv, TypeOK, LocksHaveReason, Launched, Goto, On, maps
  <2> QED BY <2>1, <2>2, <2>3, <2>4, <2>5, <2>6, <2>7 DEF RegistryInv
<1>4. CASE LaunchFailed(c)
  <2>1. TypeOK'
    BY <1>4 DEF RegistryInv, TypeOK, Actors, LaunchFailed, LetGo, Shared, Finish, maps
  <2>2. InStep'
    BY <1>4 DEF RegistryInv, TypeOK, InStep, LaunchFailed, LetGo, Shared, Finish
  <2>3. LocksHeld'
    BY <1>4 DEF RegistryInv, TypeOK, LocksHeld, LaunchFailed, LetGo, Shared, Finish
  <2>4. MutexHeld'
    BY <1>4
       DEF RegistryInv, TypeOK, Actors, MutexHeld, LaunchFailed, LetGo, Shared,
           Finish
  <2>5. EnginesReferred'
    BY <1>4
       DEF RegistryInv, TypeOK, EnginesReferred, LaunchFailed, LetGo, Shared,
           Finish, maps
  <2>6. KeptAlone' /\ OneSessionPerKeptContext'
    BY <1>4
       DEF RegistryInv, TypeOK, KeptAlone, OneSessionPerKeptContext,
           LaunchFailed, LetGo, Shared, Finish, On, maps
  <2>7. LocksHaveReason'
    BY <1>4
       DEF RegistryInv, TypeOK, LocksHaveReason, LaunchFailed, LetGo, Shared,
           Finish, On, maps
  <2> QED BY <2>1, <2>2, <2>3, <2>4, <2>5, <2>6, <2>7 DEF RegistryInv
<1>5. CASE VerbDone(c)
  <2>1. TypeOK'
    BY <1>5
       DEF RegistryInv, TypeOK, InStep, Actors, Jobs, VerbDone, Serve, maps,
           engines
  <2>2. InStep'
    BY <1>5, NoJob DEF RegistryInv, TypeOK, InStep, Jobs, VerbDone, Serve
  <2>3. LocksHeld'
    BY <1>5 DEF RegistryInv, TypeOK, LocksHeld, VerbDone, Serve
  <2>4. MutexHeld'
    BY <1>5 DEF RegistryInv, TypeOK, MutexHeld, VerbDone, Serve, engines
  <2>5. EnginesReferred'
    BY <1>5 DEF RegistryInv, TypeOK, EnginesReferred, VerbDone, Serve, maps, engines
  <2>6. KeptAlone' /\ OneSessionPerKeptContext'
    BY <1>5
       DEF RegistryInv, TypeOK, InStep, KeptAlone, OneSessionPerKeptContext,
           VerbDone, Serve, On, maps
  <2>7. LocksHaveReason'
    BY <1>5 DEF RegistryInv, TypeOK, LocksHaveReason, VerbDone, Serve, On, maps
  <2> QED BY <2>1, <2>2, <2>3, <2>4, <2>5, <2>6, <2>7 DEF RegistryInv
<1>6. CASE Reply(c)
  <2>1. TypeOK'
    BY <1>6 DEF RegistryInv, TypeOK, Actors, Reply, LetGo, Shared, Finish, maps
  <2>2. InStep'
    BY <1>6 DEF RegistryInv, TypeOK, InStep, Reply, LetGo, Shared, Finish
  <2>3. LocksHeld'
    BY <1>6 DEF RegistryInv, TypeOK, LocksHeld, Reply, LetGo, Shared, Finish
  <2>4. MutexHeld'
    BY <1>6 DEF RegistryInv, TypeOK, MutexHeld, Reply, LetGo, Shared, Finish
  <2>5. EnginesReferred'
    BY <1>6 DEF RegistryInv, TypeOK, EnginesReferred, Reply, LetGo, Shared, Finish, maps
  <2>6. KeptAlone' /\ OneSessionPerKeptContext'
    BY <1>6
       DEF RegistryInv, TypeOK, KeptAlone, OneSessionPerKeptContext, Reply,
           LetGo, Shared, Finish, On, maps
  <2>7. LocksHaveReason'
    BY <1>6
       DEF RegistryInv, TypeOK, LocksHaveReason, Reply, LetGo, Shared, Finish,
           On, maps
  <2> QED BY <2>1, <2>2, <2>3, <2>4, <2>5, <2>6, <2>7 DEF RegistryInv
<1> QED BY <1>1, <1>2, <1>3, <1>4, <1>5, <1>6

\* Closing a context, for a client or the reaper, in its three steps.
LEMMA CloseKeepsInv ==
    ASSUME RegistryInv, NEW c \in Actors,
           Remove(c) \/ Forget(c) \/ Close(c)
    PROVE  RegistryInv'
<1>1. CASE Remove(c)
  <2>1. TypeOK'
    BY <1>1 DEF RegistryInv, TypeOK, InStep, Jobs, Remove, Goto, Registered, engines
  <2>2. InStep'
    BY <1>1 DEF RegistryInv, TypeOK, InStep, Remove, Goto
  <2>3. LocksHeld'
    BY <1>1 DEF RegistryInv, TypeOK, LocksHeld, Remove, Goto
  <2>4. MutexHeld'
    BY <1>1 DEF RegistryInv, TypeOK, MutexHeld, Remove, Goto, engines
  <2>5. EnginesReferred'
    BY <1>1
       DEF RegistryInv, TypeOK, InStep, Jobs, EnginesReferred, Remove, Goto,
           Registered, engines
  <2>6. KeptAlone' /\ OneSessionPerKeptContext'
    BY <1>1
       DEF RegistryInv, TypeOK, InStep, KeptAlone, OneSessionPerKeptContext,
           Remove, Goto, On
  <2>7. LocksHaveReason'
    BY <1>1 DEF RegistryInv, TypeOK, InStep, LocksHaveReason, Remove, Goto, On
  <2> QED BY <2>1, <2>2, <2>3, <2>4, <2>5, <2>6, <2>7 DEF RegistryInv
<1>2. CASE Forget(c)
  <2>1. TypeOK'
    BY <1>2 DEF RegistryInv, TypeOK, Actors, Forget, Goto, Finish, engines
  <2>2. InStep'
    BY <1>2 DEF RegistryInv, TypeOK, InStep, Forget, Goto, Finish
  <2>3. LocksHeld'
    BY <1>2 DEF RegistryInv, TypeOK, Actors, LocksHeld, Forget, Goto, Finish
  <2>4. MutexHeld'
    BY <1>2 DEF RegistryInv, TypeOK, Actors, MutexHeld, Forget, Goto, Finish, engines
  <2>5. EnginesReferred'
    BY <1>2 DEF RegistryInv, TypeOK, EnginesReferred, Forget, Goto, Finish, engines
  <2>6. KeptAlone' /\ OneSessionPerKeptContext'
    BY <1>2
       DEF RegistryInv, TypeOK, InStep, KeptAlone, OneSessionPerKeptContext,
           Forget, Goto, Finish, On
  <2>7. LocksHaveReason'
    BY <1>2 DEF RegistryInv, TypeOK, LocksHaveReason, Forget, Goto, Finish, On
  <2> QED BY <2>1, <2>2, <2>3, <2>4, <2>5, <2>6, <2>7 DEF RegistryInv
<1>3. CASE Close(c)
  <2>1. TypeOK'
    BY <1>3 DEF RegistryInv, TypeOK, InStep, Close, Finish, maps
  <2>2. InStep'
    BY <1>3 DEF RegistryInv, TypeOK, InStep, Close, Finish
  <2>3. LocksHeld'
    BY <1>3 DEF RegistryInv, TypeOK, LocksHeld, Close, Finish
  <2>4. MutexHeld'
    BY <1>3 DEF RegistryInv, TypeOK, MutexHeld, Close, Finish
  <2>5. EnginesReferred'
    BY <1>3 DEF RegistryInv, TypeOK, EnginesReferred, Close, Finish, maps
  <2>6. KeptAlone' /\ OneSessionPerKeptContext'
    BY <1>3
       DEF RegistryInv, TypeOK, KeptAlone, OneSessionPerKeptContext, Close,
           Finish, On, maps
  <2>7. LocksHaveReason'
    BY <1>3 DEF RegistryInv, TypeOK, LocksHaveReason, Close, Finish, On, maps
  <2> QED BY <2>1, <2>2, <2>3, <2>4, <2>5, <2>6, <2>7 DEF RegistryInv
<1> QED BY <1>1, <1>2, <1>3

\* A command starts a task that has nothing in hand yet.
LEMMA SendKeepsInv ==
    ASSUME RegistryInv, NEW c \in Clients,
           Send(c)
    PROVE  RegistryInv'
<1>1. CASE Send(c)
  <2>1. TypeOK'
    BY <1>1 DEF RegistryInv, TypeOK, Actors, Jobs, Send, Start, maps, engines
  <2>2. InStep'
    BY <1>1, NoJob, ReaperIsNoClient DEF RegistryInv, TypeOK, InStep, Jobs, Send, Start
  <2>3. LocksHeld'
    BY <1>1 DEF RegistryInv, TypeOK, LocksHeld, Send, Start
  <2>4. MutexHeld'
    BY <1>1 DEF RegistryInv, TypeOK, MutexHeld, Send, Start, engines
  <2>5. EnginesReferred'
    BY <1>1 DEF RegistryInv, TypeOK, EnginesReferred, Send, Start, maps, engines
  <2>6. KeptAlone' /\ OneSessionPerKeptContext'
    BY <1>1
       DEF RegistryInv, TypeOK, InStep, KeptAlone, OneSessionPerKeptContext,
           Send, Start, On, maps
  <2>7. LocksHaveReason'
    BY <1>1 DEF RegistryInv, TypeOK, LocksHaveReason, Send, Start, On, maps
  <2> QED BY <2>1, <2>2, <2>3, <2>4, <2>5, <2>6, <2>7 DEF RegistryInv
<1> QED BY <1>1

\* The idle clock and the sweep, which never touch a kept context.
LEMMA SweepKeepsInv ==
    ASSUME RegistryInv, NEW x \in Contexts, Tick(x) \/ Sweep \/ Reap
    PROVE  RegistryInv'
<1>1. CASE Tick(x)
  <2>1. TypeOK' /\ InStep' /\ LocksHeld' /\ MutexHeld' /\ EnginesReferred'
    BY <1>1
       DEF RegistryInv, TypeOK, InStep, LocksHeld, MutexHeld, EnginesReferred,
           Tick, maps, engines
  <2>2. KeptAlone' /\ OneSessionPerKeptContext' /\ LocksHaveReason'
    BY <1>1
       DEF RegistryInv, KeptAlone, OneSessionPerKeptContext, LocksHaveReason,
           On, Tick, maps, engines
  <2> QED BY <2>1, <2>2 DEF RegistryInv
<1>2. CASE Sweep
  <2>1. TypeOK' /\ InStep' /\ LocksHeld' /\ MutexHeld' /\ EnginesReferred'
    BY <1>2
       DEF RegistryInv, TypeOK, InStep, LocksHeld, MutexHeld, EnginesReferred,
           Sweep, maps, engines
  <2>2. KeptAlone' /\ OneSessionPerKeptContext' /\ LocksHaveReason'
    BY <1>2
       DEF RegistryInv, KeptAlone, OneSessionPerKeptContext, LocksHaveReason,
           On, Sweep, maps, engines
  <2> QED BY <2>1, <2>2 DEF RegistryInv
<1>3. CASE Reap
  <2>1. PICK y \in stale : /\ Start(Reaper, [request |-> "close", ctx |-> y])
                           /\ stale' = stale \ {y}
    BY <1>3 DEF Reap
  <2>2. /\ pc[Reaper] = "idle" /\ y \in Contexts /\ y \notin Kept /\ Reaper \in Actors
        /\ UNCHANGED maps /\ UNCHANGED engines /\ UNCHANGED <<owner, idle, lock, sess>>
    BY <1>3, <2>1 DEF RegistryInv, TypeOK, KeptAlone, Reap, Actors
  <2>3. /\ pc' = [pc EXCEPT ![Reaper] = "remove"]
        /\ job' = [job EXCEPT ![Reaper] = [request |-> "close", ctx |-> y]]
        /\ [request |-> "close", ctx |-> y] \in Jobs
        /\ [request |-> "close", ctx |-> y] # None
    BY <2>1, <2>2, NoJob DEF Start, Jobs
  <2>4. TypeOK'
    BY <2>1, <2>2, <2>3, ReaperIsNoClient DEF RegistryInv, TypeOK, maps, engines
  <2>5. InStep'
    BY <2>2, <2>3 DEF RegistryInv, TypeOK, InStep
  <2>6. LocksHeld' /\ MutexHeld' /\ EnginesReferred'
    BY <2>2, <2>3, ReaperIsNoClient
       DEF RegistryInv, TypeOK, LocksHeld, MutexHeld, EnginesReferred, maps, engines
  <2>7. KeptAlone' /\ OneSessionPerKeptContext'
    BY <2>1, <2>2, <2>3
       DEF RegistryInv, TypeOK, InStep, KeptAlone, OneSessionPerKeptContext, On,
           maps, engines
  <2>8. LocksHaveReason'
    BY <2>2, <2>3 DEF RegistryInv, TypeOK, InStep, LocksHaveReason, On, maps, engines
  <2> QED BY <2>4, <2>5, <2>6, <2>7, <2>8 DEF RegistryInv
<1> QED BY <1>1, <1>2, <1>3

\* Opening, serving and sending are steps of clients: the reaper is never where
\* they start.
LEMMA TaskKeepsInv ==
    ASSUME RegistryInv, NEW a \in Actors, Await(a) \/ Work(a)
    PROVE  RegistryInv'
<1>1. CASE Remove(a) \/ Forget(a) \/ Close(a)
  BY <1>1, CloseKeepsInv
<1>2. CASE ~(Remove(a) \/ Forget(a) \/ Close(a))
  <2>1. pc[a] \in {"get", "touch", "lock", "acquire", "recheck", "build", "enter", "launch",
                  "drive"}
    BY <1>2 DEF Await, Work, GetHit, GetMiss, Touch, LaunchLock, Acquire, RecheckHit,
       RecheckMiss, Refuse, Insert, EnterHit, EnterMiss, Launched, LaunchFailed, VerbDone, Reply
  <2>2. a \in Clients
    BY <2>1 DEF RegistryInv, InStep, Actors
  <2> QED BY <1>2, <2>2, OpenKeepsInv, ServeKeepsInv DEF Await, Work
<1> QED BY <1>1, <1>2

\* The invariant the others follow from: what each task has in hand, who holds
\* the launch locks and the sessions' mutexes, and why a session, an engine or a
\* launch lock is still there.
THEOREM RegistryInvariant == Spec => []RegistryInv
<1>1. Init => RegistryInv
  BY NoNames, NoJob, ContextSets
     DEF Init, RegistryInv, TypeOK, InStep, LocksHeld, MutexHeld,
     EnginesReferred, KeptAlone, OneSessionPerKeptContext, LocksHaveReason, On, Actors
<1>2. RegistryInv /\ [Next]_vars => RegistryInv'
  <2> SUFFICES ASSUME RegistryInv, [Next]_vars PROVE RegistryInv'
    OBVIOUS
  <2>1. ASSUME NEW c \in Clients, Send(c) PROVE RegistryInv'
    BY <2>1, SendKeepsInv
  <2>2. ASSUME NEW a \in Actors, Await(a) \/ Work(a) PROVE RegistryInv'
    BY <2>2, TaskKeepsInv
  <2>3. ASSUME NEW x \in Contexts, Tick(x) PROVE RegistryInv'
    BY <2>3, SweepKeepsInv
  <2>4. ASSUME Sweep \/ Reap PROVE RegistryInv'
    <3>1. Contexts # {}
      BY <2>4 DEF Sweep, Reap, RegistryInv, TypeOK
    <3> QED BY <2>4, <3>1, SweepKeepsInv
  <2>5. CASE UNCHANGED vars
    BY <2>5
       DEF vars, RegistryInv, TypeOK, InStep, LocksHeld, MutexHeld,
           EnginesReferred,
           KeptAlone, OneSessionPerKeptContext, LocksHaveReason, On
  <2> QED BY <2>1, <2>2, <2>3, <2>4, <2>5 DEF Next
<1> QED BY <1>1, <1>2, PTL DEF Spec

\* Types; a task that touches or drives a session has one in hand.
THEOREM RegistryTypes == Spec => []TypeOK
BY RegistryInvariant, PTL DEF RegistryInv

\* No launch lock or session mutex stays taken behind a finished request, and no
\* engine outlives the last reference to its session.
THEOREM NothingIsLeftBehind == Spec => []NothingLeftBehind
<1>1. RegistryInv => NothingLeftBehind
  BY DEF RegistryInv, LocksHeld, MutexHeld, EnginesReferred, NothingLeftBehind
<1> QED BY <1>1, RegistryInvariant, PTL

\* However many requests race to open a context that nobody closes, all of them
\* drive the session the registry names.
THEOREM KeptContextHasOneSession == Spec => []OneSessionPerKeptContext
BY RegistryInvariant, PTL DEF RegistryInv

\* A launch lock does not outlive its context's session and requests.
THEOREM LocksAreForgotten == Spec => []LocksFollowSessions
<1>1. RegistryInv => LocksFollowSessions
  BY DEF RegistryInv, LocksHaveReason, LocksFollowSessions
<1> QED BY <1>1, RegistryInvariant, PTL

-----------------------------------------------------------------------------
(* Contexts do not meet *)

\* A session is registered for one context and in hand only for that one.
SessionsApart ==
    /\ \A x, y \in Contexts : sessions[x] # None /\ sessions[x] = sessions[y] => x = y
    /\ \A a \in Actors : sess[a] # None =>
          /\ \A x \in Contexts : sessions[x] = sess[a] => x = job[a].ctx
          /\ \A b \in Actors : sess[b] = sess[a] => job[b].ctx = job[a].ctx

\* What a task at each of its steps knows of its own job.
LEMMA AtWork ==
    ASSUME RegistryInv, NEW a \in Actors, pc[a] # "idle"
    PROVE  /\ job[a] # None /\ job[a] \in Jobs /\ job[a].ctx \in Contexts
           /\ pc[a] \in {"get", "lock", "acquire", "recheck", "build", "remove"} => sess[a] = None
           /\ pc[a] \in {"touch", "enter", "launch", "drive"} => /\ sess[a] # None
                                                                /\ sess[a] \in Sessions
                                                                /\ a \in Clients
           /\ pc[a] = "close" => sess[a] # None /\ sess[a] \in Sessions
           /\ pc[a] \in {"remove", "forget", "close"} => job[a].ctx \notin Kept
BY DEF RegistryInv, TypeOK, InStep, KeptAlone, On, Jobs, Actors

\* The session a new context gets is in nobody's hands.
LEMMA InsertedIsNew ==
    ASSUME RegistryInv, NEW c \in Clients, Insert(c)
    PROVE  \E s \in Sessions :
              /\ \A x \in Contexts : sessions[x] # s
              /\ \A a \in Actors : sess[a] # s
              /\ sessions' = [sessions EXCEPT ![job[c].ctx] = s]
              /\ sess' = [sess EXCEPT ![c] = s]
              /\ up[s] = FALSE
<1>1. (CHOOSE fresh \in FreshSessions : TRUE) \in FreshSessions
  BY DEF Insert
<1>2. PICK s \in Sessions : /\ \A x \in Contexts : sessions[x] # s
                            /\ \A a \in Actors : sess[a] # s
                            /\ sessions' = [sessions EXCEPT ![job[c].ctx] = s]
                            /\ sess' = [sess EXCEPT ![c] = s]
  BY <1>1 DEF Insert, FreshSessions
<1>3. up[s] = FALSE
  BY <1>2 DEF RegistryInv, TypeOK, EnginesReferred
<1> QED BY <1>2, <1>3

\* A task takes a session from its own context's place in the map, or puts a new
\* one there, and lets go of its context only after the session.
LEMMA StepKeepsApart ==
    ASSUME RegistryInv, SessionsApart, [Next]_vars
    PROVE  SessionsApart'
<1>0. /\ sessions \in [Contexts -> Sessions \union {None}]
      /\ sess \in [Actors -> Sessions \union {None}]
      /\ job \in [Actors -> Jobs \union {None}]
      /\ pc \in [Actors -> {"idle", "get", "touch", "lock", "acquire", "recheck", "build",
                            "enter", "launch", "drive", "remove", "forget", "close"}]
      /\ \A a \in Actors : sess[a] # None => pc[a] # "idle"
      /\ Clients \subseteq Actors
  BY DEF RegistryInv, TypeOK, InStep, Actors
<1>1. ASSUME UNCHANGED <<sessions, sess>>,
             \A a \in Actors : sess[a] # None => job'[a].ctx = job[a].ctx
      PROVE  SessionsApart'
  BY <1>1 DEF SessionsApart
<1>2. ASSUME NEW c \in Clients, GetHit(c) \/ RecheckHit(c) PROVE SessionsApart'
  <2>1. /\ sess[c] = None /\ job[c].ctx \in Contexts
        /\ sess' = [sess EXCEPT ![c] = sessions[job[c].ctx]]
        /\ UNCHANGED <<sessions, job>>
    BY <1>0, <1>2, AtWork DEF GetHit, RecheckHit, Goto, Registered, maps
  <2> QED BY <1>0, <2>1 DEF SessionsApart
<1>3. ASSUME NEW a \in Actors, Remove(a) PROVE SessionsApart'
  <2>1. /\ sess[a] = None /\ job[a].ctx \in Contexts
        /\ sess' = [sess EXCEPT ![a] = sessions[job[a].ctx]]
        /\ sessions' = [sessions EXCEPT ![job[a].ctx] = None]
        /\ UNCHANGED job
    BY <1>0, <1>3, AtWork DEF Remove, Goto, Registered
  <2> QED BY <1>0, <2>1 DEF SessionsApart
<1>4. ASSUME NEW c \in Clients, Insert(c) PROVE SessionsApart'
  <2>1. PICK s \in Sessions : /\ \A x \in Contexts : sessions[x] # s
                              /\ \A a \in Actors : sess[a] # s
                              /\ sessions' = [sessions EXCEPT ![job[c].ctx] = s]
                              /\ sess' = [sess EXCEPT ![c] = s]
    BY <1>4, InsertedIsNew
  <2>2. /\ job[c] \in Jobs /\ job[c].ctx \in Contexts /\ sess[c] = None
        /\ job' = [job EXCEPT ![c].request = "verb"]
    BY <1>0, <1>4, AtWork DEF Insert, Serve
  <2>3. \A a \in Actors : sess'[a] # None => job'[a].ctx = job[a].ctx
    BY <1>0, <2>1, <2>2 DEF Jobs
  <2> QED BY <1>0, <2>1, <2>2, <2>3 DEF SessionsApart
<1>5. ASSUME NEW a \in Actors, LaunchFailed(a) \/ Reply(a) \/ Close(a) PROVE SessionsApart'
  <2>1. /\ sess' = [sess EXCEPT ![a] = None]
        /\ job' = [job EXCEPT ![a] = None]
        /\ UNCHANGED sessions
    BY <1>5 DEF LaunchFailed, Reply, Close, LetGo, Finish, maps
  <2> QED BY <1>0, <2>1 DEF SessionsApart
<1>6. ASSUME NEW c \in Clients, Send(c) PROVE SessionsApart'
  BY <1>0, <1>1, <1>6 DEF Send, Start, maps
<1>7. ASSUME NEW a \in Actors, GetMiss(a) \/ Refuse(a) \/ Forget(a) PROVE SessionsApart'
  BY <1>0, <1>1, <1>7, AtWork DEF GetMiss, Refuse, Forget, Goto, Finish, maps
<1>8. ASSUME NEW a \in Actors, Touch(a) \/ VerbDone(a) PROVE SessionsApart'
  <2>1. job' = [job EXCEPT ![a].request = "verb"] \/ job' = [job EXCEPT ![a].request = "net"]
    BY <1>8 DEF Touch, VerbDone, Serve
  <2>2. job[a] \in Jobs /\ UNCHANGED <<sessions, sess>>
    BY <1>0, <1>8, AtWork DEF Touch, VerbDone, maps
  <2> QED BY <1>0, <1>1, <2>1, <2>2 DEF Jobs
<1>9. ASSUME NEW a \in Actors, \/ LaunchLock(a) \/ Acquire(a) \/ RecheckMiss(a)
                              \/ EnterHit(a) \/ EnterMiss(a) \/ Launched(a)
      PROVE  SessionsApart'
  BY <1>1, <1>9
     DEF LaunchLock, Acquire, RecheckMiss, EnterHit, EnterMiss, Launched, Goto, maps
<1>10. CASE Sweep \/ (\E x \in Contexts : Tick(x)) \/ UNCHANGED vars
  BY <1>1, <1>10 DEF Sweep, Tick, vars, maps
<1>11. CASE Reap
  <2>1. pc[Reaper] = "idle" /\ UNCHANGED <<sessions, sess>>
        /\ \A a \in Actors \ {Reaper} : job'[a] = job[a]
    BY <1>0, <1>11 DEF Reap, Start, maps
  <2> QED BY <1>0, <1>1, <2>1
<1>12. \A a \in Actors : pc[a] \notin {"idle", "remove", "forget", "close"} => a \in Clients
  BY DEF RegistryInv, InStep, Actors
<1>13. ASSUME NEW a \in Actors, GetHit(a) \/ RecheckHit(a) \/ Insert(a) PROVE a \in Clients
  BY <1>12, <1>13 DEF GetHit, RecheckHit, Insert
<1> QED BY <1>2, <1>3, <1>4, <1>5, <1>6, <1>7, <1>8, <1>9, <1>10, <1>11, <1>13
       DEF Next, Await, Work

\* No request drives another context's session, however contexts are opened,
\* closed, replaced and reaped: what one client asks of its context reaches no
\* engine of another.
THEOREM ContextsStayApart == Spec => []SessionsApart
<1>1. Init => SessionsApart
  BY DEF Init, SessionsApart
<1> QED BY <1>1, StepKeepsApart, RegistryInvariant, PTL DEF Spec

\* Who may be where at the same time: one task launches a session's engine, and
\* one opens a context that nobody closes.
LaunchesExclude ==
    /\ \A a, b \in Clients : pc[a] = "launch" /\ pc[b] = "launch" /\ sess[a] = sess[b] => a = b
    /\ \A x \in Kept : \A a, b \in On(x) :
          pc[a] \in {"recheck", "build"} /\ pc[b] \in {"recheck", "build"} => a = b

\* A session never has two launches at once; and the launch lock, which a close
\* takes out of the map, is still one lock for a context that is not closed.
THEOREM LaunchesAreExclusive == Spec => []LaunchesExclude
<1>1. ASSUME RegistryInv PROVE LaunchesExclude
  <2>1. ASSUME NEW a \in Clients, NEW b \in Clients,
               pc[a] = "launch", pc[b] = "launch", sess[a] = sess[b]
        PROVE  a = b
    BY <1>1, <2>1 DEF RegistryInv, MutexHeld
  <2>2. ASSUME NEW x \in Kept, NEW a \in On(x), NEW b \in On(x),
               pc[a] \in {"recheck", "build"}, pc[b] \in {"recheck", "build"}
        PROVE  a = b
    <3>1. a \in Clients /\ b \in Clients
      BY <1>1, <2>2 DEF RegistryInv, InStep, On, Actors
    <3>2. lock[a] # None /\ owner[lock[a]] = a /\ lock[b] # None /\ owner[lock[b]] = b
      BY <1>1, <2>2, <3>1 DEF RegistryInv, LocksHeld
    <3>3. lock[a] = launch_locks[x] /\ lock[b] = launch_locks[x]
      BY <1>1, <2>2, <3>2 DEF RegistryInv, KeptAlone
    <3> QED BY <3>2, <3>3
  <2> QED BY <2>1, <2>2 DEF LaunchesExclude
<1> QED BY <1>1, RegistryInvariant, PTL

-----------------------------------------------------------------------------
(* Kept contexts are open contexts *)

\* What a task does to its own job and session is all of the view it changes.
LEMMA OneTaskMoves ==
    ASSUME NEW a \in Actors,
           \A b \in Actors \ {a} : job'[b] = job[b] /\ sess'[b] = sess[b]
    PROVE  /\ KeptAsks' = [KeptAsks EXCEPT ![a] = IF ForKept(a)' THEN job'[a].ctx ELSE None]
           /\ KeptDriven' = [KeptDriven EXCEPT ![a] = IF ForKept(a)' THEN sess'[a] ELSE None]
BY DEF KeptAsks, KeptDriven, ForKept

\* Kept contexts whose sessions and engines stay as they were.
LEMMA KeptStand ==
    ASSUME \A x \in Kept : /\ sessions'[x] = sessions[x]
                           /\ sessions[x] # None => up'[sessions[x]] = up[sessions[x]]
    PROVE  UNCHANGED <<KeptSession, KeptEngaged>>
BY DEF KeptSession, KeptEngaged

View == <<KeptSession, KeptAsks, KeptDriven, KeptEngaged>>

\* A step of a task that keeps its context and its session changes no view.
LEMMA TaskStands ==
    ASSUME RegistryInv, NEW a \in Actors,
           UNCHANGED <<sessions, up, sess>>,
           \/ UNCHANGED job
           \/ job[a] # None /\ job' = [job EXCEPT ![a].request = "verb"]
           \/ job[a] # None /\ job' = [job EXCEPT ![a].request = "net"]
    PROVE  UNCHANGED View
<1>1. UNCHANGED <<KeptSession, KeptEngaged>>
  BY KeptStand
<1>2. job \in [Actors -> Jobs \union {None}]
  BY DEF RegistryInv, TypeOK
<1>3. \A b \in Actors : /\ job'[b] # None <=> job[b] # None
                        /\ job[b] # None => job'[b].ctx = job[b].ctx
  <2>1. CASE UNCHANGED job
    BY <2>1
  <2>2. CASE job[a] # None /\ job' = [job EXCEPT ![a].request = "verb"]
    BY <1>2, <2>2, NoJob DEF Jobs
  <2>3. CASE job[a] # None /\ job' = [job EXCEPT ![a].request = "net"]
    BY <1>2, <2>3, NoJob DEF Jobs
  <2> QED BY <2>1, <2>2, <2>3
<1>4. UNCHANGED <<KeptAsks, KeptDriven>>
  BY <1>3 DEF KeptAsks, KeptDriven, ForKept
<1> QED BY <1>1, <1>4 DEF View

\* A task that ends leaves.
LEMMA FinishedLeaves ==
    ASSUME RegistryInv, NEW a \in Actors,
           job' = [job EXCEPT ![a] = None],
           \A b \in Actors \ {a} : sess'[b] = sess[b],
           UNCHANGED <<KeptSession, KeptEngaged>>
    PROVE  Open!Leave(a)
<1>1. \A b \in Actors \ {a} : job'[b] = job[b] /\ sess'[b] = sess[b]
  BY DEF RegistryInv, TypeOK
<1>2. ~ForKept(a)'
  BY DEF RegistryInv, TypeOK, ForKept
<1> QED BY <1>1, <1>2, OneTaskMoves DEF Open!Leave

\* Each step of the registry is one of open contexts or leaves them alone.
LEMMA StepImplementsOpen ==
    ASSUME RegistryInv, SessionsApart, [Next]_vars
    PROVE  [Open!Next]_View
<1>0. /\ sessions \in [Contexts -> Sessions \union {None}]
      /\ sess \in [Actors -> Sessions \union {None}]
      /\ job \in [Actors -> Jobs \union {None}]
      /\ pc \in [Actors -> {"idle", "get", "touch", "lock", "acquire", "recheck", "build",
                            "enter", "launch", "drive", "remove", "forget", "close"}]
      /\ up \in [Sessions -> BOOLEAN]
      /\ Clients \subseteq Actors /\ Reaper \in Actors /\ Kept \subseteq Contexts
      /\ \A a \in Actors : pc[a] = "idle" => job[a] = None /\ sess[a] = None
  BY ContextSets DEF RegistryInv, TypeOK, InStep, Actors
<1>1. ASSUME NEW c \in Clients, Send(c) PROVE Open!Next \/ UNCHANGED View
  <2>1. PICK j \in Jobs : job' = [job EXCEPT ![c] = j]
    BY <1>0, <1>1 DEF Send, Start, Jobs
  <2>2. pc[c] = "idle" /\ UNCHANGED <<sessions, sess, up>>
    BY <1>1 DEF Send, maps, engines
  <2>3. /\ UNCHANGED <<KeptSession, KeptEngaged>>
        /\ \A b \in Actors \ {c} : job'[b] = job[b] /\ sess'[b] = sess[b]
        /\ job'[c] = j /\ sess'[c] = None /\ KeptAsks[c] = None /\ KeptDriven[c] = None
    BY <1>0, <2>1, <2>2, KeptStand DEF KeptAsks, KeptDriven, ForKept
  <2>4. CASE j.ctx \in Kept
    <3>1. KeptAsks' = [KeptAsks EXCEPT ![c] = j.ctx]
      BY <1>0, <2>3, <2>4, NoJob, OneTaskMoves DEF ForKept
    <3>2. UNCHANGED KeptDriven
      <4>1. \A b \in Actors : b # c => /\ ForKept(b)' = ForKept(b)
                                      /\ sess'[b] = sess[b]
        BY <2>3 DEF ForKept
      <4>2. sess[c] = None /\ sess'[c] = None
        BY <1>0, <2>2, <2>3
      <4> QED BY <4>1, <4>2 DEF KeptDriven
    <3>3. Open!Ask(c, j.ctx)
      BY <2>3, <3>1, <3>2 DEF Open!Ask
    <3> QED BY <1>0, <2>4, <3>3 DEF Open!Next
  <2>5. CASE j.ctx \notin Kept
    <3>1. UNCHANGED <<KeptAsks, KeptDriven>>
      BY <1>0, <2>3, <2>5 DEF KeptAsks, KeptDriven, ForKept
    <3> QED BY <2>3, <3>1 DEF View
  <2> QED BY <2>4, <2>5
<1>2. ASSUME NEW c \in Clients, GetHit(c) \/ RecheckHit(c) PROVE Open!Next \/ UNCHANGED View
  <2>1. /\ sess[c] = None /\ job[c] # None /\ job[c].ctx \in Contexts
        /\ sessions[job[c].ctx] # None
        /\ sess' = [sess EXCEPT ![c] = sessions[job[c].ctx]]
        /\ UNCHANGED <<sessions, up, job>>
    BY <1>0, <1>2, AtWork DEF GetHit, RecheckHit, Goto, Registered, maps, engines
  <2>2. UNCHANGED <<KeptSession, KeptEngaged, KeptAsks>>
    BY <2>1, KeptStand DEF KeptAsks, ForKept
  <2>3. CASE ForKept(c)
    <3>1. /\ KeptAsks[c] = job[c].ctx /\ KeptDriven[c] = None
          /\ KeptSession[job[c].ctx] = sessions[job[c].ctx] /\ job[c].ctx \in Kept
      BY <1>0, <2>1, <2>3 DEF KeptAsks, KeptDriven, KeptSession, ForKept
    <3>2. KeptDriven' = [KeptDriven EXCEPT ![c] = sessions[job[c].ctx]]
      BY <1>0, <2>1, <2>3, OneTaskMoves DEF ForKept
    <3>3. Open!Reach(c, job[c].ctx)
      BY <2>1, <2>2, <3>1, <3>2 DEF Open!Reach
    <3>4. c \in Actors /\ \E x \in Kept : Open!Reach(c, x)
      BY <1>0, <3>1, <3>3
    <3> QED BY <3>4 DEF Open!Next
  <2>4. CASE ~ForKept(c)
    <3>1. UNCHANGED KeptDriven
      BY <1>0, <2>1, <2>4 DEF KeptDriven, ForKept
    <3> QED BY <2>2, <3>1 DEF View
  <2> QED BY <2>3, <2>4
<1>3. ASSUME NEW c \in Clients, Insert(c) PROVE Open!Next \/ UNCHANGED View
  <2>1. PICK s \in Sessions : /\ \A x \in Contexts : sessions[x] # s
                              /\ \A a \in Actors : sess[a] # s
                              /\ sessions' = [sessions EXCEPT ![job[c].ctx] = s]
                              /\ sess' = [sess EXCEPT ![c] = s]
                              /\ up[s] = FALSE
    BY <1>3, InsertedIsNew
  <2>2. /\ job[c] # None /\ job[c] \in Jobs /\ job[c].ctx \in Contexts /\ sess[c] = None
        /\ job' = [job EXCEPT ![c].request = "verb"]
        /\ up' = [t \in Sessions |->
                    up[t] /\ (t = sessions[job[c].ctx] => \E a \in Actors : sess[a] = t)]
    BY <1>0, <1>3, AtWork DEF Insert, Serve, Registered
  <2>3. \A b \in Actors : /\ job'[b] # None <=> job[b] # None
                          /\ job[b] # None => job'[b].ctx = job[b].ctx
    BY <1>0, <2>2, NoJob DEF Jobs
  <2>4. UNCHANGED KeptAsks /\ (\A b \in Actors : ForKept(b)' = ForKept(b))
    BY <2>3 DEF KeptAsks, ForKept
  <2>5. \A x \in Kept : x # job[c].ctx =>
           /\ sessions'[x] = sessions[x]
           /\ sessions[x] # None => up'[sessions[x]] = up[sessions[x]]
    BY <1>0, <2>1, <2>2 DEF SessionsApart
  <2>6. CASE ForKept(c)
    <3>1. /\ job[c].ctx \in Kept /\ KeptAsks[c] = job[c].ctx /\ KeptDriven[c] = None
          /\ sessions[job[c].ctx] = None
      BY <1>0, <1>3, <2>2, <2>6
         DEF KeptAsks, KeptDriven, ForKept, RegistryInv, KeptAlone, On, Insert
    <3>2. KeptDriven' = [KeptDriven EXCEPT ![c] = s]
      BY <1>0, <2>1, <2>4, <2>6 DEF KeptDriven
    <3>3. KeptSession' = [KeptSession EXCEPT ![job[c].ctx] = s]
      BY <1>0, <2>1, <3>1 DEF KeptSession
    <3>4. UNCHANGED KeptEngaged
      <4>1. sessions'[job[c].ctx] = s /\ up'[s] = FALSE
        BY <1>0, <2>1, <2>2
      <4> QED BY <2>5, <3>1, <4>1 DEF KeptEngaged
    <3>5. /\ KeptSession[job[c].ctx] = None
          /\ \A y \in Kept : KeptSession[y] # s
          /\ \A u \in Actors : KeptDriven[u] # s
      BY <1>0, <2>1, <3>1, NoNames DEF KeptSession, KeptDriven
    <3>6. Open!Open(c, job[c].ctx, s)
      BY <2>4, <3>1, <3>2, <3>3, <3>4, <3>5 DEF Open!Open
    <3> QED BY <1>0, <3>1, <3>6 DEF Open!Next
  <2>7. CASE ~ForKept(c)
    <3>1. job[c].ctx \notin Kept
      BY <2>2, <2>7 DEF ForKept
    <3>2. UNCHANGED <<KeptSession, KeptEngaged>>
      BY <2>5, <3>1, KeptStand
    <3>3. UNCHANGED KeptDriven
      BY <1>0, <2>1, <2>4, <2>7 DEF KeptDriven
    <3> QED BY <2>4, <3>2, <3>3 DEF View
  <2> QED BY <2>6, <2>7
<1>4. ASSUME NEW c \in Actors, Launched(c) PROVE Open!Next \/ UNCHANGED View
  <2>1. /\ sess[c] # None /\ sess[c] \in Sessions /\ job[c] # None /\ job[c].ctx \in Contexts
        /\ up' = [up EXCEPT ![sess[c]] = TRUE]
        /\ UNCHANGED <<sessions, sess, job>>
    BY <1>0, <1>4, AtWork DEF Launched, Goto, maps
  <2>2. UNCHANGED <<KeptSession, KeptAsks, KeptDriven>>
    BY <2>1 DEF KeptSession, KeptAsks, KeptDriven, ForKept
  <2>3. \A x \in Kept : sessions[x] # None /\ sessions[x] # sess[c] =>
           up'[sessions[x]] = up[sessions[x]]
    BY <1>0, <2>1
  <2>4. CASE ForKept(c)
    <3>1. /\ job[c].ctx \in Kept /\ KeptAsks[c] = job[c].ctx
          /\ KeptDriven[c] # None /\ sessions[job[c].ctx] = sess[c]
      BY <1>0, <2>1, <2>4
         DEF KeptAsks, KeptDriven, ForKept, RegistryInv, OneSessionPerKeptContext, On
    <3>2. KeptEngaged' = KeptEngaged \union {job[c].ctx}
      <4>1. \A x \in Kept : sessions[x] = sess[c] => x = job[c].ctx
        BY <1>0, <2>1 DEF SessionsApart
      <4>2. up'[sess[c]] = TRUE
        BY <1>0, <2>1
      <4> QED BY <2>1, <2>3, <3>1, <4>1, <4>2 DEF KeptEngaged
    <3>3. Open!Engage(c, job[c].ctx)
      BY <2>2, <3>1, <3>2 DEF Open!Engage
    <3>4. \E x \in Kept : Open!Engage(c, x)
      BY <3>1, <3>3
    <3> QED BY <3>4 DEF Open!Next
  <2>5. CASE ~ForKept(c)
    <3>1. \A x \in Kept : sessions[x] # sess[c]
      BY <1>0, <2>1, <2>5 DEF SessionsApart, ForKept
    <3>2. UNCHANGED KeptEngaged
      BY <2>1, <2>3, <3>1 DEF KeptEngaged
    <3> QED BY <2>2, <3>2 DEF View
  <2> QED BY <2>4, <2>5
<1>5. ASSUME NEW a \in Actors, LaunchFailed(a) \/ Reply(a) PROVE Open!Leave(a)
  <2>1. /\ job' = [job EXCEPT ![a] = None]
        /\ sess' = [sess EXCEPT ![a] = None]
        /\ up' = [s \in Sessions |-> up[s] /\ (s = sess[a] => Shared(s, a))]
        /\ UNCHANGED sessions
    BY <1>5 DEF LaunchFailed, Reply, LetGo, Finish, maps
  <2>2. \A x \in Kept : sessions[x] # None => up'[sessions[x]] = up[sessions[x]]
    BY <1>0, <2>1 DEF Shared
  <2>3. UNCHANGED <<KeptSession, KeptEngaged>>
    BY <2>1, <2>2, KeptStand
  <2>4. \A b \in Actors \ {a} : sess'[b] = sess[b]
    BY <1>0, <2>1
  <2> QED BY <2>1, <2>3, <2>4, FinishedLeaves
<1>6. ASSUME NEW a \in Actors, GetMiss(a) \/ Refuse(a) \/ Forget(a)
      PROVE  Open!Leave(a) \/ UNCHANGED View
  <2>1. UNCHANGED <<sessions, up, sess>>
    BY <1>6 DEF GetMiss, Refuse, Forget, maps, engines
  <2>2. CASE job' = [job EXCEPT ![a] = None]
    BY <2>1, <2>2, KeptStand, FinishedLeaves
  <2>3. CASE UNCHANGED job
    BY <2>1, <2>3, TaskStands
  <2> QED BY <1>6, <2>2, <2>3 DEF GetMiss, Refuse, Forget, Goto, Finish
<1>7. ASSUME NEW a \in Actors, Remove(a) PROVE UNCHANGED View
  <2>1. /\ job[a].ctx \in Contexts \ Kept
        /\ sessions' = [sessions EXCEPT ![job[a].ctx] = None]
        /\ UNCHANGED <<up, job>>
        /\ \A b \in Actors \ {a} : sess'[b] = sess[b]
    BY <1>0, <1>7, AtWork DEF Remove, Goto, engines
  <2>2. UNCHANGED <<KeptSession, KeptEngaged>>
    BY <1>0, <2>1, KeptStand
  <2>3. UNCHANGED <<KeptAsks, KeptDriven>>
    BY <2>1 DEF KeptAsks, KeptDriven, ForKept
  <2> QED BY <2>2, <2>3 DEF View
<1>8. ASSUME NEW a \in Actors, Close(a) PROVE Open!Leave(a)
  <2>1. /\ job[a].ctx \in Contexts \ Kept
        /\ sess[a] # None /\ sess[a] \in Sessions
        /\ job' = [job EXCEPT ![a] = None]
        /\ sess' = [sess EXCEPT ![a] = None]
        /\ up' = [up EXCEPT ![sess[a]] = FALSE]
        /\ UNCHANGED sessions
    BY <1>0, <1>8, AtWork DEF Close, Finish, maps
  <2>2. \A x \in Kept : sessions[x] # sess[a]
    BY <1>0, <2>1 DEF SessionsApart
  <2>3. UNCHANGED <<KeptSession, KeptEngaged>>
    BY <1>0, <2>1, <2>2, KeptStand
  <2>4. \A b \in Actors \ {a} : sess'[b] = sess[b]
    BY <1>0, <2>1
  <2> QED BY <2>1, <2>3, <2>4, FinishedLeaves
<1>9. ASSUME NEW a \in Actors, Touch(a) \/ VerbDone(a) PROVE UNCHANGED View
  <2>1. job[a] # None /\ UNCHANGED <<sessions, up, sess>>
    BY <1>0, <1>9, AtWork DEF Touch, VerbDone, maps, engines
  <2>2. job' = [job EXCEPT ![a].request = "verb"] \/ job' = [job EXCEPT ![a].request = "net"]
    BY <1>9 DEF Touch, VerbDone, Serve
  <2> QED BY <2>1, <2>2, TaskStands
<1>10. ASSUME NEW a \in Actors, \/ LaunchLock(a) \/ Acquire(a) \/ RecheckMiss(a)
                               \/ EnterHit(a) \/ EnterMiss(a)
       PROVE  UNCHANGED View
  <2>1. UNCHANGED <<sessions, up, sess, job>>
    BY <1>10
       DEF LaunchLock, Acquire, RecheckMiss, EnterHit, EnterMiss, Goto, maps, engines
  <2> QED BY <2>1, TaskStands
<1>11. CASE Sweep \/ (\E x \in Contexts : Tick(x)) \/ UNCHANGED vars
  <2>1. UNCHANGED <<sessions, up, sess, job>>
    BY <1>11 DEF Sweep, Tick, vars, maps, engines
  <2> QED BY <1>0, <2>1, TaskStands
<1>12. CASE Reap
  <2>1. PICK x \in stale : Start(Reaper, [request |-> "close", ctx |-> x])
    BY <1>12 DEF Reap
  <2>2. /\ x \notin Kept /\ pc[Reaper] = "idle" /\ UNCHANGED <<sessions, up, sess>>
        /\ job' = [job EXCEPT ![Reaper] = [request |-> "close", ctx |-> x]]
    BY <1>12, <2>1 DEF Reap, Start, RegistryInv, KeptAlone, maps, engines
  <2>3. \A b \in Actors : /\ ForKept(b)' = ForKept(b)
                          /\ ForKept(b) => job'[b] = job[b]
    BY <1>0, <2>2 DEF ForKept
  <2>4. UNCHANGED <<KeptAsks, KeptDriven>>
    BY <2>2, <2>3 DEF KeptAsks, KeptDriven
  <2> QED BY <2>2, <2>4, KeptStand DEF View
<1>13. ASSUME NEW a \in Actors, Open!Leave(a) PROVE Open!Next
  BY <1>13 DEF Open!Next
<1>14. ASSUME NEW a \in Actors, Await(a) \/ Work(a) PROVE [Open!Next]_View
  <2>1. GetHit(a) \/ RecheckHit(a) \/ Insert(a) => a \in Clients
    BY DEF RegistryInv, InStep, Actors, GetHit, RecheckHit, Insert
  <2> QED BY <1>2, <1>3, <1>4, <1>5, <1>6, <1>7, <1>8, <1>9, <1>10, <1>13, <1>14, <2>1
          DEF Await, Work
<1> QED BY <1>1, <1>11, <1>12, <1>14 DEF Next

\* A context that nobody closes and that never falls idle is opened once; every
\* request for it, whatever runs beside it, drives that session, and the session
\* keeps its engine.  So of what a close and the reaper may do to a context, only
\* those that are closed or left alone are touched.
THEOREM KeptContextsStayOpen == Spec => ImplementsOpenContexts
<1>1. Init => Open!Init
  BY NoJob, ContextSets
     DEF Init, Open!Init, KeptSession, KeptAsks, KeptDriven, KeptEngaged, ForKept
<1>2. RegistryInv /\ SessionsApart /\ [Next]_vars => [Open!Next]_View
  BY StepImplementsOpen
<1> QED BY <1>1, <1>2, RegistryInvariant, ContextsStayApart, PTL
       DEF Spec, ImplementsOpenContexts, Open!Spec, View
=============================================================================
