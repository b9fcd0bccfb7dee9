------------------------------ MODULE Session -------------------------------
(***************************************************************************)
(* lurien/src/session.rs: one session, its lazily launched engine and the  *)
(* telemetry armed on it.  Tasks drive it at the same time: verbs that need *)
(* the page, readers of the telemetry, `as` which swaps the engine, and     *)
(* close.                                                                  *)
(*                                                                         *)
(* browser and telemetry are behind two mutexes; only the launch holds the  *)
(* first one over an await.  An engine is shared by Arc: whoever drops the *)
(* last reference stops it (Page::drop in foxdriver/src/browser.rs).       *)
(***************************************************************************)
EXTENDS Naturals, FiniteSets

CONSTANTS Users,    \* tasks that run verbs and read telemetry
          Adopters, \* tasks that run `as`
          Closers,  \* tasks that close the session
          Engines,  \* engine processes
          None      \* Option::None

Tasks == Users \union Adopters \union Closers

ASSUME NoEngine == None \notin Engines
ASSUME NoTask == None \notin Tasks

VARIABLES browser,   \* the engine the session hands out
          telemetry, \* the engine whose telemetry the session holds
          running,   \* engines that run
          launching, \* the task that holds the browser mutex over a launch
          pc,        \* where each task is
          call,      \* what each task was asked
          arc,       \* the engine each task holds a reference to
          old        \* the engine each task took out of the slot

vars == <<browser, telemetry, running, launching, pc, call, arc, old>>

-----------------------------------------------------------------------------
Calls == {"verb", "telemetry", "url", "as", "close", "close-context"}

CallsOf(t) == (IF t \in Users THEN {"verb", "telemetry", "url"} ELSE {})
              \union (IF t \in Adopters THEN {"as"} ELSE {})
              \union (IF t \in Closers THEN {"close", "close-context"} ELSE {})

FirstStep == [c \in Calls |-> IF c = "as" THEN "spawn"
                              ELSE IF c = "close" THEN "take"
                              ELSE "enter"]

\* References to an engine: the slot's, and those of the tasks.
Held == ({browser} \union {arc[t] : t \in Tasks} \union {old[t] : t \in Tasks}) \ {None}

\* What is left running when t drops its reference to e.
WithoutArc(t, e) == IF e = browser \/ (\E u \in Tasks \ {t} : arc[u] = e)
                       \/ (\E u \in Tasks : old[u] = e)
                    THEN running ELSE running \ {e}
WithoutOld(t, e) == IF e = browser \/ (\E u \in Tasks \ {t} : old[u] = e)
                       \/ (\E u \in Tasks : arc[u] = e)
                    THEN running ELSE running \ {e}

\* A process that is new to everything that could still name it.
Fresh == Engines \ (running \union {telemetry})

Goto(t, step) == pc' = [pc EXCEPT ![t] = step]

-----------------------------------------------------------------------------
Init ==
    /\ browser = None
    /\ telemetry = None
    /\ running = {}
    /\ launching = None
    /\ pc = [t \in Tasks |-> "idle"]
    /\ call = [t \in Tasks |-> "verb"]
    /\ arc = [t \in Tasks |-> None]
    /\ old = [t \in Tasks |-> None]

Begin(t) ==
    /\ pc[t] = "idle"
    /\ \E c \in CallsOf(t) : call' = [call EXCEPT ![t] = c] /\ Goto(t, FirstStep[c])
    /\ UNCHANGED <<browser, telemetry, running, launching, arc, old>>

-----------------------------------------------------------------------------
(* browser(), and current_url() which never launches. *)

\* The lock is free and the slot filled: clone the reference.
EnterHit(t) ==
    /\ pc[t] = "enter"
    /\ launching = None
    /\ browser # None
    /\ arc' = [arc EXCEPT ![t] = browser]
    /\ Goto(t, "drive")
    /\ UNCHANGED <<browser, telemetry, running, launching, call, old>>

EnterNothing(t) ==
    /\ pc[t] = "enter"
    /\ call[t] = "url"
    /\ launching = None
    /\ browser = None
    /\ Goto(t, "idle")
    /\ UNCHANGED <<browser, telemetry, running, launching, call, arc, old>>

\* Mutant: the lock is let go before the launch.
EnterMissUnlocked(t) ==
    /\ pc[t] = "enter"
    /\ call[t] # "url"
    /\ browser = None
    /\ Goto(t, "launch")
    /\ UNCHANGED <<browser, telemetry, running, launching, call, arc, old>>

\* The slot is empty: launch with the lock held.
EnterMiss(t) ==
    /\ pc[t] = "enter"
    /\ call[t] # "url"
    /\ launching = None
    /\ browser = None
    /\ launching' = t
    /\ Goto(t, "launch")
    /\ UNCHANGED <<browser, telemetry, running, call, arc, old>>

\* Mutant: a failed launch leaves the lock taken.
LaunchFailsLocked(t) ==
    /\ pc[t] = "launch"
    /\ Goto(t, "idle")
    /\ UNCHANGED <<browser, telemetry, running, launching, call, arc, old>>

LaunchFails(t) ==
    /\ pc[t] = "launch"
    /\ launching' = None
    /\ Goto(t, "idle")
    /\ UNCHANGED <<browser, telemetry, running, call, arc, old>>

Launch(t) ==
    /\ pc[t] = "launch"
    /\ \E e \in Fresh : /\ running' = running \union {e}
                        /\ arc' = [arc EXCEPT ![t] = e]
    /\ Goto(t, "attach")
    /\ UNCHANGED <<browser, telemetry, launching, call, old>>

RecordTelemetry(t) ==
    /\ pc[t] = "attach"
    /\ telemetry' = arc[t]
    /\ Goto(t, "publish")
    /\ UNCHANGED <<browser, running, launching, call, arc, old>>

Publish(t) ==
    /\ pc[t] = "publish"
    /\ browser' = arc[t]
    /\ launching' = None
    /\ Goto(t, "drive")
    /\ UNCHANGED <<telemetry, running, call, arc, old>>

\* Mutant: whoever is done with the page stops it.
ReleaseStopping(t) ==
    /\ pc[t] = "drive"
    /\ running' = running \ {arc[t]}
    /\ arc' = [arc EXCEPT ![t] = None]
    /\ Goto(t, IF call[t] = "telemetry" THEN "read"
               ELSE IF call[t] = "close-context" THEN "take"
               ELSE "idle")
    /\ UNCHANGED <<browser, telemetry, launching, call, old>>

\* Mutant: the reference outlives the call.
ReleaseKeeping(t) ==
    /\ pc[t] = "drive"
    /\ Goto(t, IF call[t] = "telemetry" THEN "read"
               ELSE IF call[t] = "close-context" THEN "take"
               ELSE "idle")
    /\ UNCHANGED <<browser, telemetry, running, launching, call, arc, old>>

\* The caller is done with the page.  telemetry() drops its reference at once
\* and then reads; close-context goes on to close.
Release(t) ==
    /\ pc[t] = "drive"
    /\ running' = WithoutArc(t, arc[t])
    /\ arc' = [arc EXCEPT ![t] = None]
    /\ Goto(t, IF call[t] = "telemetry" THEN "read"
               ELSE IF call[t] = "close-context" THEN "take"
               ELSE "idle")
    /\ UNCHANGED <<browser, telemetry, launching, call, old>>

ReadTelemetry(t) ==
    /\ pc[t] = "read"
    /\ Goto(t, "idle")
    /\ UNCHANGED <<browser, telemetry, running, launching, call, arc, old>>

-----------------------------------------------------------------------------
(* close() *)

Take(t) ==
    /\ pc[t] = "take"
    /\ launching = None
    /\ old' = [old EXCEPT ![t] = browser]
    /\ browser' = None
    /\ Goto(t, "wipe")
    /\ UNCHANGED <<telemetry, running, launching, call, arc>>

Wipe(t) ==
    /\ pc[t] = "wipe"
    /\ telemetry' = None
    /\ Goto(t, "dispose")
    /\ UNCHANGED <<browser, running, launching, call, arc, old>>

\* Mutant: the engine is closed whoever else still holds it.
DisposeShared(t) ==
    /\ pc[t] = "dispose"
    /\ running' = running \ {old[t]}
    /\ old' = [old EXCEPT ![t] = None]
    /\ Goto(t, IF call[t] = "as" THEN "drive" ELSE "idle")
    /\ UNCHANGED <<browser, telemetry, launching, call, arc>>

\* Arc::into_inner: the last owner closes the engine, any other only lets go.
\* `as` still holds the engine it put there.
Dispose(t) ==
    /\ pc[t] = "dispose"
    /\ running' = WithoutOld(t, old[t])
    /\ old' = [old EXCEPT ![t] = None]
    /\ Goto(t, IF call[t] = "as" THEN "drive" ELSE "idle")
    /\ UNCHANGED <<browser, telemetry, launching, call, arc>>

-----------------------------------------------------------------------------
(* `as`: an engine launched beside the session's own, then adopt(). *)

SpawnFails(t) ==
    /\ pc[t] = "spawn"
    /\ Goto(t, "idle")
    /\ UNCHANGED <<browser, telemetry, running, launching, call, arc, old>>

Spawn(t) ==
    /\ pc[t] = "spawn"
    /\ \E e \in Fresh : /\ running' = running \union {e}
                        /\ arc' = [arc EXCEPT ![t] = e]
    /\ Goto(t, "replace")
    /\ UNCHANGED <<browser, telemetry, launching, call, old>>

Replace(t) ==
    /\ pc[t] = "replace"
    /\ launching = None
    /\ old' = [old EXCEPT ![t] = browser]
    /\ browser' = arc[t]
    /\ Goto(t, "record")
    /\ UNCHANGED <<telemetry, running, launching, call, arc>>

\* Mutant: the session keeps the telemetry of the engine it replaced.
RecordAdoptedSkipped(t) ==
    /\ pc[t] = "record"
    /\ Goto(t, "dispose")
    /\ UNCHANGED <<browser, telemetry, running, launching, call, arc, old>>

RecordAdopted(t) ==
    /\ pc[t] = "record"
    /\ telemetry' = arc[t]
    /\ Goto(t, "dispose")
    /\ UNCHANGED <<browser, running, launching, call, arc, old>>

-----------------------------------------------------------------------------
\* Steps that wait for the browser mutex.
Acquire(t) == EnterHit(t) \/ EnterNothing(t) \/ EnterMiss(t) \/ Take(t) \/ Replace(t)

\* Steps a task takes by itself.  A launch ends, one way or the other.
Work(t) == \/ LaunchFails(t) \/ Launch(t) \/ RecordTelemetry(t) \/ Publish(t)
           \/ Release(t) \/ ReadTelemetry(t)
           \/ Wipe(t) \/ Dispose(t)
           \/ SpawnFails(t) \/ Spawn(t) \/ RecordAdopted(t)

Next == \E t \in Tasks : Begin(t) \/ Acquire(t) \/ Work(t)

Spec == Init /\ [][Next]_vars

\* tokio's mutex is first come first served: a waiter gets it eventually.
FairSpec == Spec /\ \A t \in Tasks : WF_vars(Work(t)) /\ SF_vars(Acquire(t))

-----------------------------------------------------------------------------
(* Properties *)

\* Where a task holds a reference to an engine it may drive.
Holding(t) == \/ pc[t] \in {"attach", "publish", "drive", "replace", "record"}
              \/ pc[t] = "dispose" /\ call[t] = "as"

\* Types, and which references a task holds at each step.
TypeOK ==
    /\ browser \in Engines \union {None}
    /\ telemetry \in Engines \union {None}
    /\ running \in SUBSET Engines
    /\ launching \in Tasks \union {None}
    /\ pc \in [Tasks -> {"idle", "enter", "launch", "attach", "publish", "drive", "read",
                         "take", "wipe", "dispose", "spawn", "replace", "record"}]
    /\ call \in [Tasks -> Calls]
    /\ arc \in [Tasks -> Engines \union {None}]
    /\ old \in [Tasks -> Engines \union {None}]
    /\ \A t \in Tasks : /\ arc[t] # None <=> Holding(t)
                        /\ old[t] # None => pc[t] \in {"wipe", "record", "dispose"}

\* The engines that run are those someone holds: close and adopt stop no engine
\* a verb still drives, and none is left running with nobody to stop it, in
\* whatever order tasks let go.
OwnedIsRunning == running = Held

\* The slot is filled by a launch only while it is empty: a verb that found it
\* empty is still right when its engine is up, seconds later.
LaunchIntoEmpty ==
    \A t \in Tasks : pc[t] \in {"launch", "attach", "publish"} => browser = None

\* Between the steps that write it, the telemetry is that of the engine the
\* session hands out: "Capture is started at launch, so a verb that reads it
\* never has to arm it first and can never report an empty log as "no traffic""
\* (session.rs, telemetry).  Telemetry says when it is so.
Settled == \A t \in Tasks : pc[t] \notin {"publish", "wipe", "record"}
TelemetryIsLive == Settled /\ browser # None => telemetry = browser

\* Every call returns: nobody waits forever for the browser mutex, even while
\* launches fail.  ([]<> says what pc[t] # "idle" ~> pc[t] = "idle" does.)
EveryCallReturns == \A t \in Tasks : []<>(pc[t] = "idle")

\* The session is a place for one engine.
Slot == INSTANCE EngineSlot WITH slot <- browser
ImplementsEngineSlot == Slot!Spec
=============================================================================
