--------------------------- MODULE EngineProcess ---------------------------
(***************************************************************************)
(* The operating-system process behind a session's engine                  *)
(* (foxdriver/src/browser.rs): launched in up to LAUNCH_ATTEMPTS attempts,  *)
(* seeded with a session age (guise/src/browser/lurien.rs), shared by the   *)
(* session and the verbs that hold a reference, and ended by Page::close or *)
(* by Page's Drop, whichever the last reference meets (session.rs).         *)
(*                                                                         *)
(* The process is external: it starts or not, answers or hangs, may crash,  *)
(* buffers what pages store and writes it to the profile on a timer or when *)
(* its tabs are closed; on SIGTERM it exits, flushed or not, or ignores it. *)
(***************************************************************************)
EXTENDS Option, Naturals, FiniteSets

CONSTANTS Engines,       \* launches, each with one process at a time
          Verbs,         \* tasks that hold a reference to the page over a call
          LaunchAttempts \* LAUNCH_ATTEMPTS

ASSUME NotAnEngine == None \notin Engines
ASSUME AttemptsAssumption == LaunchAttempts \in Nat \ {0}

VARIABLES slot,    \* the engine the session hands out
          stage,   \* where each engine is in the driver's hands
          attempt, \* the attempt its launch is at, 0 once attached
          holders, \* the verbs that hold its page
          proc,    \* its process: none, running, or exited and not reaped
          hung,    \* engines that answer nothing any more
          torn,    \* engines whose tabs the quit has closed
          dirty,   \* engines with writes that are not on disk
          dropped  \* history: engines that Drop is ending

processVars == <<slot, stage, attempt, holders, proc, hung, torn, dirty, dropped>>

Put(f, e, x) == [f EXCEPT ![e] = x]

-----------------------------------------------------------------------------
ProcessInit ==
    /\ slot = None
    /\ stage = [e \in Engines |-> "none"]
    /\ attempt = [e \in Engines |-> 0]
    /\ holders = [e \in Engines |-> {}]
    /\ proc = [e \in Engines |-> "none"]
    /\ hung = {}
    /\ torn = {}
    /\ dirty = {}
    /\ dropped = {}

(* launch_firefox_self_managed *)

Launch(e) ==
    /\ stage[e] = "none"
    /\ stage' = Put(stage, e, "spawn")
    /\ attempt' = Put(attempt, e, 1)
    /\ UNCHANGED <<slot, holders, proc, hung, torn, dirty, dropped>>

\* A failed attempt is followed by the next one, or fails the launch.
NextAttempt(e) ==
    LET again == attempt[e] \in 1 .. LaunchAttempts - 1
    IN  /\ stage' = Put(stage, e, IF again THEN "spawn" ELSE "none")
        /\ attempt' = Put(attempt, e, IF again THEN attempt[e] + 1 ELSE 0)

SpawnProcess(e) ==
    /\ stage[e] = "spawn"
    /\ \/ /\ proc' = Put(proc, e, "running")
          /\ stage' = Put(stage, e, "ready")
          /\ UNCHANGED attempt
       \/ NextAttempt(e) /\ UNCHANGED proc
    /\ UNCHANGED <<slot, holders, hung, torn, dirty, dropped>>

\* session.status is answered.
Ready(e) ==
    /\ stage[e] = "ready"
    /\ proc[e] = "running"
    /\ e \notin hung
    /\ stage' = Put(stage, e, "attach")
    /\ UNCHANGED <<slot, attempt, holders, proc, hung, torn, dirty, dropped>>

Attach(e) ==
    /\ stage[e] = "attach"
    /\ proc[e] = "running"
    /\ e \notin hung
    /\ stage' = Put(stage, e, "seed")
    /\ attempt' = Put(attempt, e, 0)
    /\ UNCHANGED <<slot, holders, proc, hung, torn, dirty, dropped>>

\* Mutant: a failed attach leaves the process behind.
AttemptFailsUnreaped(e) ==
    /\ stage[e] \in {"ready", "attach"}
    /\ NextAttempt(e)
    /\ UNCHANGED <<slot, holders, proc, hung, torn, dirty, dropped>>

\* The wait or the attach timed out, or rustenium panicked.
AttemptFails(e) ==
    /\ stage[e] \in {"ready", "attach"}
    /\ stage' = Put(stage, e, "reap")
    /\ UNCHANGED <<slot, attempt, holders, proc, hung, torn, dirty, dropped>>

\* apply_session_age fails: the page is dropped.
SeedFails(e) ==
    /\ stage[e] = "seed"
    /\ stage' = Put(stage, e, "reap")
    /\ dropped' = dropped \union {e}
    /\ UNCHANGED <<slot, attempt, holders, proc, hung, torn, dirty>>

-----------------------------------------------------------------------------
(* The session: browser, adopt, close, and the verbs' references *)

\* Mutant: the session's page is dropped, not closed.
RetireDropping(old) == IF old # None /\ holders[old] = {} THEN Put(stage, old, "reap") ELSE stage

\* The session gives its reference up: into_inner has the page only if no verb
\* holds it, and then closes it; else the last verb drops it.
Retire(old) == IF old # None /\ holders[old] = {} THEN Put(stage, old, "quit") ELSE stage

Free(v) == \A e \in Engines : v \notin holders[e]

\* The page is handed out, and the one it replaces, if any, given up: browser()
\* for the verb that launched, adopt for `as`.
Seeded(e, v) ==
    /\ stage[e] = "seed"
    /\ Free(v)
    /\ stage' = Put(Retire(slot), e, "held")
    /\ slot' = e
    /\ holders' = Put(holders, e, {v})
    /\ UNCHANGED <<attempt, proc, hung, torn, dirty, dropped>>

Close ==
    /\ slot # None
    /\ stage' = Retire(slot)
    /\ slot' = None
    /\ UNCHANGED <<attempt, holders, proc, hung, torn, dirty, dropped>>

Use(v) ==
    /\ slot # None
    /\ Free(v)
    /\ holders' = Put(holders, slot, holders[slot] \union {v})
    /\ UNCHANGED <<slot, stage, attempt, proc, hung, torn, dirty, dropped>>

\* The last reference drops the page.
Done(v, e) ==
    /\ v \in holders[e]
    /\ holders' = Put(holders, e, holders[e] \ {v})
    /\ IF e # slot /\ holders[e] = {v}
       THEN /\ stage' = Put(stage, e, "reap")
            /\ dropped' = dropped \union {e}
       ELSE UNCHANGED <<stage, dropped>>
    /\ UNCHANGED <<slot, attempt, proc, hung, torn, dirty>>

-----------------------------------------------------------------------------
(* The process *)

Alive(e) == proc[e] = "running" /\ e \notin torn

PageWrites(e) ==
    /\ Alive(e)
    /\ stage[e] \in {"seed", "held", "quit", "reap"} /\ attempt[e] = 0
    /\ dirty' = dirty \union {e}
    /\ UNCHANGED <<slot, stage, attempt, holders, proc, hung, torn, dropped>>

Flush(e) ==
    /\ proc[e] = "running"
    /\ dirty' = dirty \ {e}
    /\ UNCHANGED <<slot, stage, attempt, holders, proc, hung, torn, dropped>>

Hang(e) ==
    /\ Alive(e)
    /\ hung' = hung \union {e}
    /\ UNCHANGED <<slot, stage, attempt, holders, proc, torn, dirty, dropped>>

\* The process is gone, with what it had not written.
Gone(e, p) ==
    /\ proc' = Put(proc, e, p)
    /\ dirty' = dirty \ {e}

Crash(e) ==
    /\ proc[e] = "running"
    /\ Gone(e, "exited")
    /\ UNCHANGED <<slot, stage, attempt, holders, hung, torn, dropped>>

\* The BiDi quit closes every tab, which flushes, and then the process exits.
TearDown(e) ==
    /\ stage[e] = "quit"
    /\ Alive(e)
    /\ e \notin hung
    /\ torn' = torn \union {e}
    /\ dirty' = dirty \ {e}
    /\ UNCHANGED <<slot, stage, attempt, holders, proc, hung, dropped>>

Exit(e) ==
    /\ e \in torn
    /\ proc[e] = "running"
    /\ Gone(e, "exited")
    /\ UNCHANGED <<slot, stage, attempt, holders, hung, torn, dropped>>

-----------------------------------------------------------------------------
(* Page::close after its quit, and terminate_and_reap *)

Reap(e) ==
    /\ Gone(e, "none")
    /\ hung' = hung \ {e}
    /\ torn' = torn \ {e}
    /\ dropped' = dropped \ {e}
    /\ UNCHANGED <<slot, holders>>

\* Mutant: the child is signalled without waiting for it to quit.
CloseEndsAtOnce(e) ==
    /\ stage[e] = "quit"
    /\ Reap(e)
    /\ stage' = Put(stage, e, "none")
    /\ UNCHANGED attempt

\* wait_for_exit saw it exit, or it did not in ten seconds and is killed: an
\* engine that is not hung has closed its tabs by then.
CloseEnds(e) ==
    /\ stage[e] = "quit"
    /\ proc[e] = "exited" \/ e \in torn \union hung
    /\ Reap(e)
    /\ stage' = Put(stage, e, "none")
    /\ UNCHANGED attempt

\* SIGTERM, at most two seconds, SIGKILL, wait.
TerminateAndReap(e) ==
    /\ stage[e] = "reap"
    /\ Reap(e)
    /\ NextAttempt(e)

-----------------------------------------------------------------------------
ProcessNext ==
    \/ \E e \in Engines : \/ Launch(e) \/ SpawnProcess(e) \/ Ready(e) \/ Attach(e)
                          \/ AttemptFails(e) \/ SeedFails(e)
                          \/ PageWrites(e) \/ Flush(e) \/ Hang(e) \/ Crash(e)
                          \/ TearDown(e) \/ Exit(e)
                          \/ CloseEnds(e) \/ TerminateAndReap(e)
                          \/ \E v \in Verbs : Seeded(e, v) \/ Done(v, e)
    \/ \E v \in Verbs : Use(v)
    \/ Close

ProcessSpec == ProcessInit /\ [][ProcessNext]_processVars

-----------------------------------------------------------------------------
(* Properties *)

\* Types; a verb holds one page at a time.
ProcessTypeOK ==
    /\ slot \in Engines \union {None}
    /\ stage \in [Engines -> {"none", "spawn", "ready", "attach", "seed", "held", "quit", "reap"}]
    /\ attempt \in [Engines -> 0..LaunchAttempts]
    /\ holders \in [Engines -> SUBSET Verbs]
    /\ \A e, f \in Engines : e # f => holders[e] \cap holders[f] = {}
    /\ proc \in [Engines -> {"none", "running", "exited"}]
    /\ hung \subseteq Engines
    /\ torn \subseteq Engines
    /\ dirty \subseteq Engines
    /\ dropped \subseteq Engines

\* Whichever attempt fails, wherever it fails, whether the engine hangs, crashes
\* or ignores its signals, and whoever holds its page last: a process that runs
\* or waits to be reaped is one that a launch is still about, that somebody
\* holds, or that somebody is ending.
NoStrayProcess ==
    \A e \in Engines :
        /\ proc[e] # "none" => stage[e] \notin {"none", "spawn"}
        /\ stage[e] = "held" => slot = e \/ holders[e] # {}
        /\ slot = e \/ holders[e] # {} => stage[e] = "held"

\* What pages stored is on disk when the driver is done with an engine that did
\* not crash, unless it hung until it was killed or its page was dropped: a close
\* that has the page to itself loses nothing, however late the writes come.
CloseFlushes ==
    [][\A e \in dirty : proc'[e] = "none" => e \in hung \union dropped]_processVars
-----------------------------------------------------------------------------
(* The session's place for an engine *)

\* The engines that can be driven: attached, and their process not yet ended by
\* the driver.  One that has crashed is among them, its page is still there.
Attached == {e \in Engines : \/ stage[e] \in {"seed", "held", "quit"}
                             \/ stage[e] = "reap" /\ attempt[e] = 0}

\* Session.tla says that a session is an EngineSlot of engines that run; here it
\* is one of processes that are launched in attempts, shared and ended.
ProcessSlot == INSTANCE EngineSlot WITH running <- Attached

\* No engine is handed out before it is attached and seeded, and none is closed
\* or reaped while the session hands it out, whichever of a close, `as` and the
\* last verb ends it.
ProcessImplementsEngineSlot == ProcessSlot!Spec
=============================================================================
