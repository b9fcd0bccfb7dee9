------------------------------ MODULE Registry ------------------------------
(***************************************************************************)
(* lurien/src/serve.rs: named sessions behind one HTTP server.  Each client *)
(* sends one request at a time; each request is a task; the reaper is one   *)
(* more.  sessions and launch_locks are two mutexed maps, so every access  *)
(* is a step and other tasks run in between.  A session is what Session.tla *)
(* models, seen through EngineSlot: here only whether it has an engine and *)
(* who is launching one under its mutex.                                   *)
(*                                                                         *)
(* Sessions and launch locks are shared by Arc: one nobody refers to is     *)
(* dropped, and its name can be given to the next.                         *)
(***************************************************************************)
EXTENDS Naturals, FiniteSets

CONSTANTS Clients,   \* request senders, one request at a time each
          Reaper,    \* the sweep task
          Contexts,  \* browser_context_id values
          Kept,      \* contexts that nobody closes and that never fall idle
          Refusable, \* contexts a launch may name with options that are refused
          Sessions,  \* names for session objects
          Locks,     \* names for launch locks
          None       \* Option::None

Actors == Clients \union {Reaper}

ASSUME ReaperIsNoClient == Reaper \notin Clients
ASSUME NoNames == None \notin Sessions \union Locks \union Actors
ASSUME ContextSets == Kept \subseteq Contexts /\ Refusable \subseteq Contexts

VARIABLES sessions,     \* the registered session of each context
          launch_locks, \* the registered launch lock of each context
          owner,        \* who holds each launch lock
          idle,         \* contexts whose session is past the idle deadline
          up,           \* the session has an engine
          launching,    \* who launches the session's engine, under its mutex
          pc,           \* where each task is
          job,          \* what it still has to do, and for which context
          lock,         \* the launch lock a task refers to
          sess,         \* the session a task refers to
          stale         \* contexts the current sweep has yet to close

maps == <<sessions, launch_locks>>
engines == <<up, launching>>
vars == <<sessions, launch_locks, owner, idle, up, launching, pc, job, lock, sess, stale>>

-----------------------------------------------------------------------------
\* A launch opens the session and is then served like a verb; a verb's reply
\* runs the net verb.
Jobs == [request : {"launch", "verb", "net", "close"}, ctx : Contexts]

ASSUME NoJob == None \notin Jobs

\* The tasks at work on a context.
On(x) == {a \in Actors : job[a] # None /\ job[a].ctx = x}

Registered(a) == sessions[job[a].ctx]

Goto(a, step) == pc' = [pc EXCEPT ![a] = step] /\ UNCHANGED job
Start(a, j) == /\ job' = [job EXCEPT ![a] = j]
               /\ pc' = [pc EXCEPT ![a] = IF j.request = "close" THEN "remove" ELSE "get"]
Serve(a, verb) == /\ job' = [job EXCEPT ![a].request = verb]
                  /\ pc' = [pc EXCEPT ![a] = "enter"]
Finish(a) == pc' = [pc EXCEPT ![a] = "idle"] /\ job' = [job EXCEPT ![a] = None]

\* Names nobody uses; the cfg bounds them, and gives enough for the live ones.
FreshSessions == {s \in Sessions : /\ \A x \in Contexts : sessions[x] # s
                                   /\ \A a \in Actors : sess[a] # s}
FreshLocks == {k \in Locks : /\ \A x \in Contexts : launch_locks[x] # k
                             /\ \A a \in Actors : lock[a] # k}

\* Whether a session is still referred to once task a lets go of it.
Shared(s, a) == \/ \E x \in Contexts : sessions[x] = s
                \/ \E b \in Actors \ {a} : sess[b] = s

\* Dropping the last reference to a session stops its engine.
LetGo(a) == /\ sess' = [sess EXCEPT ![a] = None]
            /\ up' = [s \in Sessions |-> up[s] /\ (s = sess[a] => Shared(s, a))]

Unlock(a) == /\ owner' = [k \in Locks |-> IF k = lock[a] THEN None ELSE owner[k]]
             /\ lock' = [lock EXCEPT ![a] = None]

-----------------------------------------------------------------------------
Init ==
    /\ sessions = [x \in Contexts |-> None]
    /\ launch_locks = [x \in Contexts |-> None]
    /\ owner = [k \in Locks |-> None]
    /\ idle = {}
    /\ up = [s \in Sessions |-> FALSE]
    /\ launching = [s \in Sessions |-> None]
    /\ pc = [a \in Actors |-> "idle"]
    /\ job = [a \in Actors |-> None]
    /\ lock = [a \in Actors |-> None]
    /\ sess = [a \in Actors |-> None]
    /\ stale = {}

\* A command arrives.
Send(c) ==
    /\ pc[c] = "idle"
    /\ \E request \in {"launch", "verb", "close"}, x \in Contexts :
          /\ request = "close" => x \notin Kept
          /\ Start(c, [request |-> request, ctx |-> x])
    /\ UNCHANGED maps /\ UNCHANGED engines
    /\ UNCHANGED <<owner, idle, lock, sess, stale>>

-----------------------------------------------------------------------------
(* Registry::get and Registry::open *)

\* get(), for a verb or as the first look of open().
GetHit(c) ==
    /\ pc[c] = "get"
    /\ Registered(c) # None
    /\ sess' = [sess EXCEPT ![c] = Registered(c)]
    /\ Goto(c, "touch")
    /\ UNCHANGED maps /\ UNCHANGED engines
    /\ UNCHANGED <<owner, idle, lock, stale>>

\* A verb needs an open context, a launch opens one.
GetMiss(c) ==
    /\ pc[c] = "get"
    /\ Registered(c) = None
    /\ \/ job[c].request = "verb" /\ Finish(c)
       \/ job[c].request = "launch" /\ Goto(c, "lock")
    /\ UNCHANGED maps /\ UNCHANGED engines
    /\ UNCHANGED <<owner, idle, lock, sess, stale>>

\* Mutant: the session is looked up again to move its clock.
TouchLookingAgain(c) ==
    /\ pc[c] = "touch"
    /\ idle' = idle \ {job[c].ctx}
    /\ sess' = [sess EXCEPT ![c] = Registered(c)]
    /\ Unlock(c)
    /\ Serve(c, "verb")
    /\ UNCHANGED maps /\ UNCHANGED engines
    /\ UNCHANGED stale

\* Using the session moves its clock, after the map is let go: by then it may no
\* longer be the one the map holds.  open() returns with it, and lets go of the
\* launch lock if it took it.
Touch(c) ==
    /\ pc[c] = "touch"
    /\ idle' = {x \in idle : sessions[x] # sess[c]}
    /\ Unlock(c)
    /\ Serve(c, "verb")
    /\ UNCHANGED maps /\ UNCHANGED engines
    /\ UNCHANGED <<sess, stale>>

\* launch_lock(): the context's lock, made on first use.
LaunchLock(c) ==
    LET k == IF launch_locks[job[c].ctx] # None THEN launch_locks[job[c].ctx]
                                                ELSE CHOOSE fresh \in FreshLocks : TRUE
    IN /\ pc[c] = "lock"
       /\ launch_locks[job[c].ctx] # None \/ FreshLocks # {}
       /\ launch_locks' = [launch_locks EXCEPT ![job[c].ctx] = k]
       /\ lock' = [lock EXCEPT ![c] = k]
       /\ Goto(c, "acquire")
       /\ UNCHANGED engines
       /\ UNCHANGED <<sessions, owner, idle, sess, stale>>

\* Mutant: the launch lock is trusted, the map not read again.
AcquireTrusting(c) ==
    /\ pc[c] = "acquire"
    /\ owner[lock[c]] = None
    /\ owner' = [owner EXCEPT ![lock[c]] = c]
    /\ Goto(c, "build")
    /\ UNCHANGED maps /\ UNCHANGED engines
    /\ UNCHANGED <<idle, lock, sess, stale>>

Acquire(c) ==
    /\ pc[c] = "acquire"
    /\ owner[lock[c]] = None
    /\ owner' = [owner EXCEPT ![lock[c]] = c]
    /\ Goto(c, "recheck")
    /\ UNCHANGED maps /\ UNCHANGED engines
    /\ UNCHANGED <<idle, lock, sess, stale>>

\* Another launch may have opened it while this one waited.
RecheckHit(c) ==
    /\ pc[c] = "recheck"
    /\ Registered(c) # None
    /\ sess' = [sess EXCEPT ![c] = Registered(c)]
    /\ Goto(c, "touch")
    /\ UNCHANGED maps /\ UNCHANGED engines
    /\ UNCHANGED <<owner, idle, lock, stale>>

RecheckMiss(c) ==
    /\ pc[c] = "recheck"
    /\ Registered(c) = None
    /\ Goto(c, "build")
    /\ UNCHANGED maps /\ UNCHANGED engines
    /\ UNCHANGED <<owner, idle, lock, sess, stale>>

\* Mutant: an early return that keeps the launch lock.
RefuseLocked(c) ==
    /\ pc[c] = "build"
    /\ job[c].ctx \in Refusable
    /\ lock' = [lock EXCEPT ![c] = None]
    /\ Finish(c)
    /\ UNCHANGED maps /\ UNCHANGED engines
    /\ UNCHANGED <<owner, idle, sess, stale>>

\* A proxy, a permission or a position that does not parse.
Refuse(c) ==
    /\ pc[c] = "build"
    /\ job[c].ctx \in Refusable
    /\ Unlock(c)
    /\ Finish(c)
    /\ UNCHANGED maps /\ UNCHANGED engines
    /\ UNCHANGED <<idle, sess, stale>>

\* insert() replaces whatever the map holds by then; a session replaced is
\* dropped unless a request still drives it.
Insert(c) ==
    LET s == CHOOSE fresh \in FreshSessions : TRUE
        before == Registered(c)
    IN /\ pc[c] = "build"
       /\ FreshSessions # {}
       /\ sessions' = [sessions EXCEPT ![job[c].ctx] = s]
       /\ sess' = [sess EXCEPT ![c] = s]
       /\ idle' = idle \ {job[c].ctx}
       /\ up' = [t \in Sessions |-> up[t] /\ (t = before => \E a \in Actors : sess[a] = t)]
       /\ Unlock(c)
       /\ Serve(c, "verb")
       /\ UNCHANGED <<launch_locks, launching, stale>>

-----------------------------------------------------------------------------
(* Serving: the request's verb, then attach_network's, each of which asks the  *)
(* session for its engine.                                                    *)

EnterHit(c) ==
    /\ pc[c] = "enter"
    /\ launching[sess[c]] = None
    /\ up[sess[c]]
    /\ Goto(c, "drive")
    /\ UNCHANGED maps /\ UNCHANGED engines
    /\ UNCHANGED <<owner, idle, lock, sess, stale>>

EnterMiss(c) ==
    /\ pc[c] = "enter"
    /\ launching[sess[c]] = None
    /\ ~up[sess[c]]
    /\ launching' = [launching EXCEPT ![sess[c]] = c]
    /\ Goto(c, "launch")
    /\ UNCHANGED maps
    /\ UNCHANGED <<up, owner, idle, lock, sess, stale>>

Launched(c) ==
    /\ pc[c] = "launch"
    /\ up' = [up EXCEPT ![sess[c]] = TRUE]
    /\ launching' = [launching EXCEPT ![sess[c]] = None]
    /\ Goto(c, "drive")
    /\ UNCHANGED maps
    /\ UNCHANGED <<owner, idle, lock, sess, stale>>

\* No engine: an error for the request's verb, silence about the traffic.
LaunchFailed(c) ==
    /\ pc[c] = "launch"
    /\ launching' = [launching EXCEPT ![sess[c]] = None]
    /\ LetGo(c)
    /\ Finish(c)
    /\ UNCHANGED maps
    /\ UNCHANGED <<owner, idle, lock, stale>>

\* The verb worked: the reply then reads the network log.
VerbDone(c) ==
    /\ pc[c] = "drive"
    /\ job[c].request = "verb"
    /\ Serve(c, "net")
    /\ UNCHANGED maps /\ UNCHANGED engines
    /\ UNCHANGED <<owner, idle, lock, sess, stale>>

\* The verb failed, there was none (a launch without a URL), or the reply is
\* complete.
Reply(c) ==
    /\ pc[c] = "drive"
    /\ LetGo(c)
    /\ Finish(c)
    /\ UNCHANGED maps
    /\ UNCHANGED <<launching, owner, idle, lock, stale>>

-----------------------------------------------------------------------------
(* Registry::close, for a client or the reaper *)

Remove(a) ==
    /\ pc[a] = "remove"
    /\ sess' = [sess EXCEPT ![a] = Registered(a)]
    /\ sessions' = [sessions EXCEPT ![job[a].ctx] = None]
    /\ idle' = idle \ {job[a].ctx}
    /\ Goto(a, "forget")
    /\ UNCHANGED engines
    /\ UNCHANGED <<launch_locks, owner, lock, stale>>

\* Mutant: closed contexts keep their launch lock.
ForgetKeeping(a) ==
    /\ pc[a] = "forget"
    /\ \/ sess[a] = None /\ Finish(a)
       \/ sess[a] # None /\ Goto(a, "close")
    /\ UNCHANGED maps /\ UNCHANGED engines
    /\ UNCHANGED <<owner, idle, lock, sess, stale>>

\* The launch lock is forgotten, whoever holds it.
Forget(a) ==
    /\ pc[a] = "forget"
    /\ launch_locks' = [launch_locks EXCEPT ![job[a].ctx] = None]
    /\ \/ sess[a] = None /\ Finish(a)
       \/ sess[a] # None /\ Goto(a, "close")
    /\ UNCHANGED engines
    /\ UNCHANGED <<sessions, owner, idle, lock, sess, stale>>

\* Mutant: the session is let go of, its engine left to others.
CloseLeaving(a) ==
    /\ pc[a] = "close"
    /\ launching[sess[a]] = None
    /\ sess' = [sess EXCEPT ![a] = None]
    /\ Finish(a)
    /\ UNCHANGED maps /\ UNCHANGED engines
    /\ UNCHANGED <<owner, idle, lock, stale>>

\* Session::close takes the engine once no launch holds the session's mutex.
Close(a) ==
    /\ pc[a] = "close"
    /\ launching[sess[a]] = None
    /\ sess' = [sess EXCEPT ![a] = None]
    /\ up' = [up EXCEPT ![sess[a]] = FALSE]
    /\ Finish(a)
    /\ UNCHANGED maps
    /\ UNCHANGED <<launching, owner, idle, lock, stale>>

-----------------------------------------------------------------------------
(* Registry::reap_idle *)

\* A session goes untouched for the idle deadline.
Tick(x) ==
    /\ x \notin Kept
    /\ sessions[x] # None
    /\ x \notin idle
    /\ idle' = idle \union {x}
    /\ UNCHANGED maps /\ UNCHANGED engines
    /\ UNCHANGED <<owner, pc, job, lock, sess, stale>>

\* Mutant: only sessions with an engine are worth closing.
SweepLaunched ==
    LET running == {x \in idle : up[sessions[x]]}
    IN /\ pc[Reaper] = "idle"
       /\ stale = {}
       /\ running # {}
       /\ stale' = running
       /\ UNCHANGED maps /\ UNCHANGED engines
       /\ UNCHANGED <<owner, idle, pc, job, lock, sess>>

\* One look at the whole map.
Sweep ==
    /\ pc[Reaper] = "idle"
    /\ stale = {}
    /\ idle # {}
    /\ stale' = idle
    /\ UNCHANGED maps /\ UNCHANGED engines
    /\ UNCHANGED <<owner, idle, pc, job, lock, sess>>

\* Each context found is closed, whatever happened to it since.
Reap ==
    /\ pc[Reaper] = "idle"
    /\ \E x \in stale :
          /\ Start(Reaper, [request |-> "close", ctx |-> x])
          /\ stale' = stale \ {x}
    /\ UNCHANGED maps /\ UNCHANGED engines
    /\ UNCHANGED <<owner, idle, lock, sess>>

-----------------------------------------------------------------------------
\* Steps that wait for a launch lock or for a session's mutex.
Await(a) == Acquire(a) \/ EnterHit(a) \/ EnterMiss(a) \/ Close(a)

\* Steps a task takes by itself.  A launch and a verb end, well or not.
Work(a) == \/ GetHit(a) \/ GetMiss(a) \/ Touch(a) \/ LaunchLock(a)
           \/ RecheckHit(a) \/ RecheckMiss(a) \/ Refuse(a) \/ Insert(a)
           \/ Launched(a) \/ LaunchFailed(a) \/ VerbDone(a) \/ Reply(a)
           \/ Remove(a) \/ Forget(a)

Next == \/ \E c \in Clients : Send(c)
        \/ \E a \in Actors : Await(a) \/ Work(a)
        \/ \E x \in Contexts : Tick(x)
        \/ Sweep
        \/ Reap

Spec == Init /\ [][Next]_vars

\* tokio's mutexes are first come first served, so a task whose turn comes again
\* and again moves on, and a step that waits for nobody stays possible until it
\* is taken; the sweep runs on a timer.
FairSpec == /\ Spec
            /\ \A a \in Actors : SF_vars(Work(a) \/ Await(a))
            /\ WF_vars(Sweep \/ Reap)

-----------------------------------------------------------------------------
(* Properties *)

\* Types; a task that touches or drives a session has one in hand, whatever the
\* map holds by then.
TypeOK ==
    /\ sessions \in [Contexts -> Sessions \union {None}]
    /\ launch_locks \in [Contexts -> Locks \union {None}]
    /\ owner \in [Locks -> Clients \union {None}]
    /\ idle \subseteq Contexts
    /\ up \in [Sessions -> BOOLEAN]
    /\ launching \in [Sessions -> Clients \union {None}]
    /\ pc \in [Actors -> {"idle", "get", "touch", "lock", "acquire", "recheck", "build",
                          "enter", "launch", "drive", "remove", "forget", "close"}]
    /\ job \in [Actors -> Jobs \union {None}]
    /\ lock \in [Actors -> Locks \union {None}]
    /\ sess \in [Actors -> Sessions \union {None}]
    /\ stale \subseteq Contexts
    /\ \A c \in Clients : pc[c] \in {"touch", "enter", "launch", "drive"} => sess[c] # None

\* What is held is held by someone who refers to it, and what runs is referred
\* to: no launch lock or session mutex stays taken behind a finished request,
\* and no engine outlives the last reference to its session.
NothingLeftBehind ==
    /\ \A k \in Locks : owner[k] # None => lock[owner[k]] = k
    /\ \A s \in Sessions :
          /\ launching[s] # None => sess[launching[s]] = s
          /\ up[s] => \/ \E x \in Contexts : sessions[x] = s
                      \/ \E a \in Actors : sess[a] = s

\* A context nobody closes has one session: however many launches race for it,
\* and whatever happens to other contexts, every request for it drives the
\* session the registry names.
OneSessionPerKeptContext ==
    \A x \in Kept : \A a \in On(x) : sess[a] # None => sessions[x] = sess[a]

\* A context has a launch lock only while it has a session or a request at work
\* on it, unless a launch for it was refused: "a process that churns contexts
\* does not grow one entry per closed context" (serve.rs, close).
LocksFollowSessions ==
    \A x \in Contexts \ Refusable :
       launch_locks[x] # None => sessions[x] # None \/ On(x) # {}

\* Every request is answered: launch locks, session mutexes, closes and sweeps
\* never leave one waiting for good.  ([]<> says what pc[c] # "idle" ~> pc[c] =
\* "idle" does, and is cheaper to check.)
EveryRequestAnswered == \A c \in Clients : []<>(pc[c] = "idle")

\* A session left alone is closed, whether or not its engine ever started.
IdleIsReaped == \A x \in Contexts : []<>(x \notin idle)

\* "the per-context launch lock stops two requests from spawning two engines
\* for one context" (serve.rs, Registry): a registered session is not replaced
\* by another.
NeverReplaced ==
    [][\A x \in Contexts : sessions[x] # None => sessions'[x] \in {None, sessions[x]}]_vars

\* "Reaching a session counts as use, so a context under load is never reaped
\* out from under its client" (serve.rs, get): the reaper takes from the map only
\* a session past the idle deadline.
ReapsOnlyIdle ==
    [][pc[Reaper] = "remove" /\ pc'[Reaper] = "forget" /\ sess'[Reaper] # None =>
          job[Reaper].ctx \in idle]_vars
-----------------------------------------------------------------------------
(* Contexts that stay open *)

\* The registry seen from its kept contexts.
ForKept(a) == job[a] # None /\ job[a].ctx \in Kept
KeptSession == [x \in Kept |-> sessions[x]]
KeptAsks == [a \in Actors |-> IF ForKept(a) THEN job[a].ctx ELSE None]
KeptDriven == [a \in Actors |-> IF ForKept(a) THEN sess[a] ELSE None]
KeptEngaged == {x \in Kept : sessions[x] # None /\ up[sessions[x]]}

Open == INSTANCE OpenContexts WITH Contexts <- Kept, Tasks <- Actors,
                                   session <- KeptSession, asks <- KeptAsks,
                                   driven <- KeptDriven, engaged <- KeptEngaged

\* A context that is neither closed nor idle is opened once, and every request for
\* it is served by that session and, once it is up, that session's engine: the
\* launch lock and the map do for it what the registry says they do, whatever is
\* launched, replaced, closed or reaped beside it.
ImplementsOpenContexts == Open!Spec
=============================================================================
