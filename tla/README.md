# Verification of lurien-driver

TLA+ models of the stateful core of this repository, the TLC runs that check them
on small instances, and TLAPS proofs of the properties for every instance.
Everything below refers to files of the repository by their path under `src/`.

1. [The system](#1-the-system)
2. [The modules](#2-the-modules)
3. [The runs](#3-the-runs)
4. [What the code does otherwise than it says](#4-what-the-code-does-otherwise-than-it-says)
5. [The proofs](#5-the-proofs)
6. [What is not modelled](#6-what-is-not-modelled)
7. [Plan](#7-plan)

## 1. The system

A workspace of Rust crates. `lurien` is the driver a caller sees: verbs such as
`goto`, `click`, `net` or `as` run on a *session*, which owns at most one browser
engine. Three faces reach it, all through `Session::call`: the command line, an MCP
server and an HTTP server of many named sessions. `foxdriver` is the layer under it:
it spawns the engine, speaks WebDriver BiDi and records what the engine reports.
`guise` and its smaller crates compute browser profiles, headers and human timing;
nearly all of that is pure. `captcha/vision` is a helper process the engine calls,
`echo` a local TLS service that reads fingerprints.

State that lives across awaits, and so can go wrong in ways a unit test does not
reach, is concentrated in a few places.

| part | state | operations | interacts with |
|---|---|---|---|
| traffic log, `foxdriver/src/network.rs` | entries in order, a position map, two tables of answers that came before their request, counters, a broadcast channel; one `RwLock` | three ingestions, `clear`, `remove_by_id`, `retain`, `drain_pending`, two waits, many reads | fed by BiDi event handlers; read by the `net` verbs through the session's telemetry |
| session, `lurien/src/session.rs` | the engine slot and the telemetry behind two mutexes; the route table and the frame names behind two more | `browser`, `telemetry`, `current_url`, `adopt`, `close`, `call`; `add_route`, `clear_routes`, `frame_target` | launches and stops engines (`foxdriver/src/browser.rs`); verbs of every face at once |
| registry and reaper, `lurien/src/serve.rs` | a map of sessions, a map of launch locks, a clock per session | `get`, `open`, `close`, `reap_idle`, `describe`; one task per connection and one reaper | drives sessions |
| dialog and download log, `foxdriver/src/dialog.rs` | two bounded vectors, one `RwLock` | four ingestions, `clear` | fed by event handlers, one future per event; polled by `lurien/src/download.rs` |
| frame names, `lurien/src/frame.rs` | an append-only list of handles, each live or dead | `refresh`, `set_name`, lookups | refreshed by the session from the engine's tree |
| navigation, `lurien/src/goto.rs`, `challenge.rs` | an evidence file the engine appends to, a mark in it | mark, navigate, poll the file and the page | the engine process writes the file |
| control channel, `lurien/src/control.rs`, `route.rs`, `clock.rs`, `geo.rs` | a port and a token; the routes and the position are held by the session and by the engine | one request, one reply, with a timeout | the session's route table, the position an engine is launched with |
| launch, `lurien/src/launch.rs`, `foxdriver/src/{browser,ready}.rs` | a child process, a profile directory, a port | gates, spawn, readiness poll, connect, close, reap | the operating system |
| persona pool, `guise/src/persona_pool.rs`, `rotation.rs` | sessions, sticky bindings, quarantined seeds, two counters | `acquire`, `release`, `rotate`, `mark_burned`, `snapshot`, `restore_snapshot` | callers with `&mut` |
| request pacing, `guise-pacing/src/lib.rs` | back-off level, last status | jitter, back-off, feedback | callers with `&mut` |

What makes each of the first parts correct:

* **Traffic log.** Every entry is found by its id and at its place, through
  evictions, removals and bulk filters; an answer is filed with its own request,
  even when it came first or twice; nothing held outgrows its cap and the counters
  say what was lost; a wait does not miss an answer that lands while it is setting
  itself up, and does not give up while the log holds what it waits for.
* **Session.** One engine: a launch never finds the slot filled when it ends, no
  engine is stopped under a verb, none is left running with nobody to stop it;
  the telemetry belongs to the engine in the slot; every call returns.
* **Registry.** One session per context however many launches race; locks, mutexes
  and engines are not left behind by any way a request can end; locks do not
  accumulate; idle sessions are closed, used ones are not; every request is
  answered.
* **Dialog and download log.** An end event ends a download of its own context and
  URL, once; a wait answers with a file that is there and of the wanted name, and does
  not give up on one it has read.
* **Frame names.** A handle names one context for good; it is resolved, or refused as
  gone, on a tree no older than the readers at work when the request began.
* **Navigation.** A verdict is this visit's; a visit the engine took is not reported
  clean before the engine's verdict or its deadline.
* **Control channel.** The routes the session lists are those the engine applies, and
  the position it remembers is the one pages read, through refusals, lost and partial
  answers, timeouts and requests taken after they were given up.
* **Engine process.** No process outlives the launch, the holder or the ending it
  belongs to, whichever attempt fails and wherever; a close that has the engine to
  itself loses nothing pages stored.
* **Persona pool.** No id is handed out twice, however snapshots move the counter; a
  request keeps its persona until it is released; a domain is bound only to a session
  that may be used, and visits are sticky; a burned persona is not worn again; the
  pool stays within its cap.

The behaviours that are hard to test are listed in `PROJECT.json` under `hazards`,
each at the line where it bites. They come from five sources: tasks that interleave
at every `.await` (tokio's multi-threaded runtime), a browser whose events arrive in
any order, locks that are released between a look and the act based on it,
bounded buffers and counters at their limit, and state that comes back from an
earlier process.

## 2. The modules

| module | what it is |
|---|---|
| `KeyedLog` | abstract: what the traffic log promises, a table of exchanges keyed by request id |
| `NetworkLog` | `foxdriver/src/network.rs`: ingestion, removal, the two waits |
| `EngineSlot` | abstract: what a session promises, a place for one running engine |
| `Session` | `lurien/src/session.rs`: launch, use, `as`, `close`, and engines shared by `Arc` |
| `Telemetry` | `Session` with a history of which writers of slot and telemetry met |
| `Registry` | `lurien/src/serve.rs`: requests, launch locks, closing, the reaper |
| `OpenContexts` | abstract: what the registry promises about a context nobody closes, one session for all its requests |
| `PersonaLease` | abstract: what the pool promises its callers, a persona that stays theirs until they release it |
| `PersonaPool` | `guise/src/persona_pool.rs`, `rotation.rs`: acquiring, rotating, burning and restoring personas, over several processes |
| `Control` | `lurien/src/session.rs`, `control.rs`, `geo.rs`: the routes and the position, held by the session and by the engine |
| `Frames` | `lurien/src/frame.rs`, `session.rs`: the names of frames, on a page that changes |
| `Goto` | `lurien/src/goto.rs`, `challenge.rs`: a visit, read from the page and from the engine's file |
| `Downloads` | `foxdriver/src/dialog.rs`, `lurien/src/download.rs`: the log of downloads and the wait for one |
| `EngineProcess` | `foxdriver/src/browser.rs`: the process behind an engine, from its first attempt to its reaping |
| `Option` | `None`, shared by those five |
| `MCParts` | the five in one run, one of them moving in each behaviour |
| `MCNetworkLog`, `MCTelemetry`, `MCRegistry`, `MCPersonaPool` | symmetry sets and, for PersonaPool, identity functions |
| `*Proofs` | the theorems of each module; `PartsProofs` those of Downloads, EngineProcess and MCParts |

Each definition that models code is listed with its lines in `PROJECT.json`, `map`.
Definitions whose comment begins with "Mutant" are altered copies of an action, the
way a plausible slip would alter the code; each property is known to fail when one
of them takes the place of the original.

### NetworkLog

A handler holds the write lock from its first line to its last, so one ingestion is
one step, its `push_entry`, its counters and its broadcast included. A handler is
split into actions by the branch it takes: `IngestRequest` and
`IngestResentRequest` are `ingest_before_request_sent` for a new and for a known id,
`IngestResponse` and `IngestEarlyResponse` are `ingest_response_completed`, and the
same for errors. Events come in any order and any number of times, for any id: the
model puts no protocol on the browser.

`HashMap<String, usize>` is a function on ids, 0 for an absent key. A full table of
early answers gives up keys in the map's own order, which the code does not choose:
`Room` takes any set of the right size. A `retain` predicate may keep any set of
entries. Payloads are the id they answer and a status.

`tokio::sync::broadcast` is external: a receiver has a queue of `Capacity` entries;
when full, a new entry pushes the oldest out and the receiver's next `recv` says
`Lagged`. A wait is `Subscribe`, then `CheckHit` or `CheckMiss`, then `Recv`,
`Lag` or `Timeout`, each a step other tasks may run between. `timeout(rx.recv())`
polls the receiver before the clock, so `Timeout` needs an empty queue.

`ImplementsKeyedLog` maps a log to the function from ids to the entry that `by_id`
finds. KeyedLog lets an exchange be recorded, answered or forgotten and nothing
else: no step changes a request, moves an answer to another id or takes an answer
back.

### Session

Tasks are verbs that use the page, readers of the telemetry, `current_url`, `as`
(`verb/profile/as_profile.rs`), `close`, and `close-context`
(`verb/context/close.rs`). `launching` is the browser mutex when it is held over an
await, which only `browser()` does; every other use of the mutex is one step. The
telemetry mutex is only held for single assignments, so each of those is a step.

Engines are reference counted. `arc[t]` and `old[t]` are the references a task
holds, `browser` the slot's; `Dispose` is `Arc::into_inner`, which closes the engine
when the reference is the last one, and `Release` is the end of a verb, whose drop
of the last reference ends the process through `Drop for Page`. Both stop it;
what tells a clean quit from a kill is in `EngineProcess`.

A launch records the telemetry and then fills the slot (`RecordTelemetry`, `Publish`),
close empties the slot and then wipes the telemetry (`Take`, `Wipe`), `as` fills the
slot and then records (`Replace`, `RecordAdopted`). Only the launch holds a mutex over
both, and that is the slot's, so close and `as` cross each other, and a launch crosses
them by beginning between their two writes. Then the telemetry may be of another
engine than the slot's, or missing, until the next of the three that comes
alone: finding 2. `Telemetry` adds to
the session the history variable `crossed`, whether the writer that came last met
another between its writes, and says what is true of any number of verbs, `as` and
closes: where the last one came alone, slot and telemetry hold the same engine, or none.

### Registry

A request is a task: `Send` receives it, `GetHit` or `GetMiss` looks the context up,
a launch goes on through `LaunchLock`, `Acquire`, the second look (`RecheckHit`,
`RecheckMiss`) and `Refuse` or `Insert`. The two maps have a mutex each, held for
one access, so each access is a step; the launch lock is held from `Acquire` to the
return of `open`, early returns for options that do not parse included. `Touch` is
apart from the look since the session's clock is moved after the map is released.

The request's verb and then `attach_network`'s `net` ask the session for its engine:
`EnterHit`, `EnterMiss`, `Launched`, `LaunchFailed`, the same steps as in
`Session`, here with one boolean `up` per session. `Close` waits, as
`Session::close` does, for a launch in progress.

The clock is `idle`, the contexts whose session is past the deadline: `Tick` puts a
context in it at any time, whether or not a request is at work, since a verb may take
longer than the deadline. The reaper collects all of them in one look (`Sweep`) and
closes them one by one (`Reap`, then `Remove`, `Forget`, `Close`).

Sessions and locks are named from small sets and a name is given again once nobody
refers to it; a new one takes `CHOOSE` of the unused names, which are all alike.

The registry is looked at a second time from its *kept* contexts, those nobody closes
and the reaper does not find idle: which session each has, which request is for it and
which session that request drives (`KeptSession`, `KeptAsks`, `KeptDriven`,
`KeptEngaged`). OpenContexts lets such a context be asked for, opened once, reached and
engaged, and nothing else; what clients, closes and the reaper do to other contexts,
and every lock and second look, is invisible there.

### PersonaPool

Every method of the pool takes `&mut self`, so a call is one step, and the
interleavings are orders of calls by several callers. `acquire` is two actions,
`Reuse` and `Create`, by whether a session is found to reuse; a caller holds one
session at a time and releases it once, as the documentation of `acquire` asks
(282). Calls that return an error change nothing and are left out.

A session is what the properties need of it: its seed, its requests in flight and
whether it is burned. Its identity is `IdentityOf[seed]`, any function, since
`build_session` computes it from the seed alone. Ids are `0..MaxId`, with `MaxId` for
`u64::MAX`; `Wrapped` and `Saturated` are the two additions the code uses, and
`FreshId` is the loop of `fresh_id` as the first free id from the counter on.
`FreshSeed` is the loop of `create_session`: the first seed whose identity nobody
wears, or the last of `Tries + 1`.

`Snapshot` keeps a session's id and seed on disk, and `Restart` begins a new pool
that remembers nothing but the snapshots: burned seeds and both counters start over,
which is what makes ids and seeds meet again. A rotation policy is a parameter of
the initial state, so one run covers all four.

PersonaLease is the pool as its callers see it: the persona of each id, which are
retired and who holds which. An acquire that reuses, one that creates, a rotation, a
restore and a burned mark are one step each; snapshots, bindings, counters and policies
are not seen.

### Control

The routes mutex is held from the first line of a route call to its return, over one
or two calls to the engine: `AddRoute` takes it and asks the engine for the new table,
`RouteAdded` stores it and asks for the report, `Reported` returns. `ClearRoutes`,
`RoutesCleared` and `RouteReport` are the other two verbs. A position call holds
nothing: `Move` asks, and `Moved` remembers the position once the engine has said yes,
with other position calls in between. A call ends in an error by `Failed` (a refusal,
a broken connection or, for route calls only, an answer that names an `error` although
it says yes) or by `TimesOut`, which may leave its request for the engine to take later
(`late`). `Spawn` reads the position the new engine is handed, `Started` puts it in
the place of the old one, and both may run during position calls.

`doubt` is a history variable. It holds what the two sides need not agree on any more:
the routes after a write that was lost, partly taken or late, and after a relaunch; the
position after a position call that was lost, late or during a launch, and after two
that crossed. A later write that is answered with a plain yes takes
it away. The properties say that the sides agree *unless* one of these happened, so that
nothing else can part them, and that what did is over with the next plain yes.

### Frames

A verb reads the tree (`ReadTree`), takes the table's mutex to refresh (`Refresh`), and
takes it again to look its handle up (`Resolve`); the page and other verbs move in
between. A slot is its place in the table and its context: the handle is `f` and the
place. `there` and `gone` are history: for each task, the contexts that were in, or
absent from, a tree it may be answered by.

### Goto

The evidence file is a sequence of rows, a mark is its length. A turn of the loop is
four looks with the engines free to append between any two: at the newest row that
decides (`EngineReported`, `Unreadable`, `Pending`), at the clock (in `Pending`, since
nothing but time passes between the two), at the page (`Probe`, against the clock as
it was read before), and at the taking (`LookTaken`). `Finish` is `goto` after the
loop, its look for a `started` row included. An engine may be of this build, of
another schema, or without the observer; the sessions of a process share the file, as
`default_evidence_path` makes it one per process. The file only grows: that somebody
truncates or replaces it during a visit, which `challenge.rs:919-925` answers by reading
it from the start, is not modelled.

### Downloads

`make_dialog_handler` gives the BiDi library a future per event, each of which waits for
the log's lock on its own: no order is assumed, so the two events of a download reach
the log in any order, more of them than it keeps. An event names a context and a URL,
here one `key`; two downloads may share it, and may or may not share a name. `Clear`
is the verb that empties the log. A wait reads the log in one step and decides in
another; `save` begins with a wait, and a copy of the file follows. `Names` stand for
the names that contain what is looked for: the code compares by `contains`.

### EngineProcess

`Launch` to `Attach` is `launch_firefox_self_managed` with its attempts, each of which
may fail to spawn (`SpawnProcess`), to become ready or to attach (`AttemptFails`), and
then ends its own process before the next. `SeedFails` drops a page that was attached.
`Seeded` hands the page to the session, in place of another if there was one, and
`Retire` is `Arc::into_inner`: the session closes the page if no verb holds it, else
the last verb's `Done` drops it. The process may hang, crash, and write pages' data
at any time; it flushes on a timer or when the quit closes its tabs (`TearDown`), and
nowhere else, as the comments at `browser.rs:1672-1685` say of this engine. The ten
seconds a close waits are long enough for an engine that is not hung.

`ProcessImplementsEngineSlot` maps it to the same EngineSlot that `Session` implements:
an engine runs, for a caller, from its attachment until the driver has ended it
(`Attached`).

### MCParts

The five share no variable, so exploring them together would multiply their states
and show nothing new. `MCParts` chooses one in the initial state; its states are the sum of
theirs. What they do share is the session around them: `Control` and `EngineProcess`
each have launches, closes and `as` of their own, as steps of any other task.

## 3. The runs

All passing runs finish without error and take from a few seconds to about three
minutes.

| run | instance | asks |
|---|---|---|
| `NetworkLog` | 3 ids, 2 URLs, 1 waiter, cap 2, early cap 1, channel of 2, 4 events | types, index, ownership of answers, early answers, caps, lost wakeups, counters, honest timeouts, refinement of KeyedLog |
| `NetworkLogGiveUp` | channel of 1 | does a wait give up only when the log has no answer? No: finding 1 |
| `Session` | 1 user, 1 `as`, 1 closer, 4 engines, fair | types and references; every call returns |
| `SessionClose` | 1 user, 2 `as`, 1 closer, 5 engines | ownership of engines, launches into an empty slot, slot and telemetry parted by crossing writers alone, refinement of EngineSlot |
| `SessionTelemetry` | 1 user, 1 closer | does telemetry belong to the slot's engine with close? No: finding 2 |
| `Registry` | 2 clients, reaper, one kept and one other context | types, nothing left behind, refinement of OpenContexts, locks follow sessions |
| `RegistryFair` | 2 clients, reaper, one context, fair | every request is answered, idle sessions are closed |
| `RegistryReplaced` | 2 clients, one context | is a registered session ever replaced? Yes: finding 3 |
| `RegistryReaped` | 2 clients, one context | does the reaper close only idle sessions? No: finding 4 |
| `PersonaPool` | 2 callers, 2 domains, 3 ids, caps 0 and 1, all policies, 1 snapshot, 3 seeds in two identities | types, usable bindings, requests in flight, no rotation under a request, refinement of PersonaLease, stickiness, the cap, distinct identities |
| `MCParts` | 2 tasks; 2 routes in the table, 1 position, 1 late request; 2 contexts; 2 visits to one page, 3 rows; 2 downloads of up to 2 URLs and names, a log of 2; 2 engines, 2 verbs, 3 attempts | types; routes and position agree on both sides; answers about frames are current and handles kept; verdicts are of their visit and not overruled; ends meet their kind and waits find the file; no stray process, no lost data |
| `PersonaPoolReassigned` | 1 caller, 1 domain, one policy, an identity per seed | is a burned seed never given again? It is: finding 5 |

**Bounds.** `MaxEvents = 4` with three ids and a log of two: a request, an eviction,
an answer to the evicted id and its return all fit in four events, and so do an
overflow of the early answers, their drop and the request they belong to. A channel
of two lets a receiver fall behind and catch up, or lag. Removals are not bounded.
In `Session` an engine name is free again when its process is gone and nothing
refers to it. In `SessionClose` the verb and the closer, which may be asked for
`close-context`, launch against each other, the two `as` and close meet between their
writes, and five engines are three in use, one replaced and one that is new; the same
properties were also explored with two verbs, two `as`, a closer and four engines. In
`Session`, which is about the waiting, four engines may leave a launch without a name,
and it then fails, as it may anyway. Four
sessions and three locks are enough for two clients, the reaper and two contexts,
three and two for one context: with these sets an unused name is always left when one is needed. The cap on events
exists only to make the state finite; nothing in Session or Registry is counted, so
those runs explore all of their instance's behaviours. In `PersonaPool` three ids let
the counter reach the largest one, wrap and skip ids in use, and a snapshot bring the
largest one; `MaxSeed` and `MaxRequests` bound one process, three seeds being enough
for both identities to be worn and for a rotation after a restore, three requests for
two rotations of `PerRequests(2)`; `MaxSaved` bounds the snapshots, one at a time
being restored any number of times, over any number of restarts. One more try
(`Tries = 1`) lets `create_session` both find and fail to find a free identity.
In `MCParts`, two tasks are what each of its hazards needs: two adders or two position
calls that cross, two readers whose refreshes swap, two sessions that share a file, two
downloads of one URL, an engine that replaces another. `MaxRoutes` lets a route be
added to one there is; `MaxLate` lets one request be taken late, over a newer one;
`MaxRows` is a start, a taking and a verdict, or the verdict of an earlier visit and
that of the next; `Settle` and `ScoreWait` are 1 and `Deadline` 2, so that the clock
can be before, between and past them; `LaunchAttempts` is the code's 3. Each part was
also explored alone on a larger instance (four rows, for one) without a violation.

**Symmetry** is used for the safety runs only: ids, URLs, tasks of one kind, engines,
clients, the names of sessions and locks, callers and domains; in `MCParts` the tasks,
sessions, downloads and engines of the parts are the same model values, so that one
permutation serves all parts. `CHOOSE` of an unused name does not
break it in effect: all unused names are interchangeable.

**Deadlock** is checked in every run.

**Fairness** (`Session`, `RegistryFair`). `WF` on a task's own work: a tokio task
that can run is run, a launch ends (its gates, readiness poll and connection all
have timeouts and the result is `Ok` or `Err`), a verb ends. `SF` on steps that wait
for a mutex: tokio's `Mutex` queues its waiters first come first served, so a
waiter's turn comes even if the lock is free only now and then. In `RegistryFair`
both are one `SF` per task: a task is at one step at a time, and a step that waits for
no mutex stays possible until it is taken, for which `SF` asks no more than `WF`.
`WF` on the sweep, which is a timer loop for the life of the server. `EveryRequestAnswered` and `IdleIsReaped` are stated with
`[]<>`: a task that is idle infinitely often is one that, whenever it is busy, is idle
later, and TLC needs no tableau for it. Nothing is assumed about clients
sending requests, about launches succeeding or about the clock. `MCParts` has no
fairness and asks no liveness property.

## 4. What the code does otherwise than it says

1. *A wait gives up early.* `wait_for_response` and `wait_for_url` return `None` when
   the broadcast receiver lagged (`foxdriver/src/network.rs:1006`, `1038`), at once
   and although the log may hold the answer, while their documentation (984, 1011)
   says they wait up to the timeout. `NetworkLogGiveUp` is the shortest case, with
   a channel that keeps one entry: the wait subscribes; the request is logged, and its
   entry fills the queue; the look at the log finds no answer; the answer is logged, and its
   entry pushes the request's out. Nothing follows. The first `recv` reports the lag, and the
   wait gives up with the answer in the log, and next in its queue. With the code's
   channel the same takes as many entries as it keeps between two `recv`s.
   `TimesOutOnlyUnanswered` is the part of the promise that holds, and it is
   proved.
2. *`close` wipes the telemetry of the next engine.* `Session::close` takes the
   engine, releases the mutex and then clears the telemetry
   (`lurien/src/session.rs:311-312`). A verb that relaunches in between has its new
   telemetry cleared, and every later `net` verb fails with "telemetry unavailable"
   though the engine runs. 260-262 promises otherwise. `SessionTelemetry`.
   Two `as` at once do the same to each other (`lurien/src/session.rs:277-278`): the
   first fills the slot, the second replaces it and records its telemetry, then the
   first records its own, and `net` verbs read the log of an engine that is closed,
   next to a live page. What holds of all of them is `TelemetryUnlessCrossed`, and it is
   proved.
3. *`close` forgets a launch lock that is in use.* A launch that waits on, or holds,
   the lock `Registry::close` removes (`lurien/src/serve.rs:1374`) runs next to one
   that makes a new lock; both insert a session, and the first client drives one the
   registry does not know. 1248-1251 promises one engine per context.
   `RegistryReplaced`.
4. *The reaper closes a session in use.* The idle contexts are collected in one look
   and closed later (`lurien/src/serve.rs:1394-1395`), each after the one before has
   finished closing; one used in between, or closed and opened again, is closed all
   the same. 1259-1260 promises otherwise. `RegistryReaped`.

5. *A burned seed is given again.* `mark_burned` quarantines the seed of a burned
   session, but `fresh_seed` (`guise/src/persona_pool.rs:496`) never looks at the
   quarantine; only `restore_snapshot` does. A process that restores a snapshot with
   a seed ahead of its own counter and burns it comes to the same seed by counting.
   While the burned session is in the map, `create_session` passes over its identity, as
   over any that is worn (`has_active_identity`, 441-458), unless 65 seeds in a row are
   worn; `rotate` does not look, and gives the seed. Once the burned session has been
   rotated away, which is the case the run shows, with an identity of its own for every
   seed, `acquire` gives it too. Line 13 says a burned
   persona is "retired and never reassigned". `PersonaPoolReassigned`.
   Two parts of it hold and are proved: a burned *session* is never returned
   (`BurnedNotHandedOut`, within `ImplementsPersonaLease`), and a quarantined seed is
   given again only if some snapshot on disk recorded it (`QuarantineHolds`): where no
   snapshot is restored, line 13 is right.

Smaller remarks, met while modelling and not run: a lagging subscriber's losses are
not counted in `broadcast_drops` although `network.rs:666-667` says so;
`close-context` ignores its id and closes the session's engine; a launch refused for
its options leaves its lock in the map for good, which `LocksFollowSessions` excludes
by `Refusable`; an engine whose last holder is a verb and not `close` is ended by
`Drop`, without the clean quit that `browser.rs:1661` says persistence needs
(`CloseFlushes` excludes it by `dropped`), and so is one whose session is closed while
`adopt` holds a reference of its own.
In the persona pool: a domain that has a binding passes the cap as one that needs no new
session (283-286), and `PerTarget`, `PerRequests` and, before the first visit,
`PerSession` make it one all the same, so that three requests under `PerTarget`, for one
domain, another and the first again, hold three sessions under a cap of two; `restore_snapshot`
does not look at the cap. Line 207 calls it the maximum allowed, and `AcquireWithinCap`
says what holds, for policies that do not rotate by themselves; under `Never` a pool at its cap refuses a domain that has no binding
though it would share the session there is; `rotate` and `restore_snapshot` do not
check for a worn identity or seed, although lines 15-16 say active sessions are
distinct; `rotate` on a burned session makes its id usable again; burned seeds are
not part of a snapshot, so that "a burned persona stays burned across restarts" (414)
holds only within one pool.

*Control channel.* `add_route` returns an error when its report fails, though the
engine and the session both took the route; `session.rs:126` speaks only of a refusal,
which "leaves the session's table as it was". Routes are lost with their engine while
the session goes on listing them: nothing sends the table again at launch. The report
pairs the engine's counts with the session's routes by place and pattern alone.
Two positions that cross leave the session remembering one and the engine serving the
other: `set` and `clear` hold nothing over the sending and the remembering
(`geo.rs:142-143`, 153-157). A position set while a launch is under way leaves the session
remembering it and the new engine serving the one before. Position calls do not look at
the `error` of an answer that says yes, which `control.rs:280-285` says must not be
reported as done.

*Frames.* A handle may be resolved on a tree that another verb had read before the
request began and stores only now, so that a frame removed earlier is reported as
there; `AnswerIsCurrent` says that this is as old as it gets. The table outlives the
engine: a relaunched engine that uses a context id again takes the old handle with it.

*Navigation.* A verdict appended between the last look for one and the deadline's
decision (`goto.rs:166-201`) is not read again. A `taken` row of another schema that
lands between the two looks at the file is overlooked. The file is one for the whole
process: another session's visit to the same URL is read as this one's, a verdict an
earlier visit's engine reports late counts for the next visit, and another session's
`started` row hides that this session's engine has no observer, although
`challenge.rs:892` asks of "this session".

*Downloads.* Two downloads of one context and URL that overlap may swap their ends, so
that a record's suggested name belongs to one and its path to the other; this is why
`WaitFindsTheFile` speaks of a download with the same key. An end that comes before its
begin leaves a record that never ends, as a prompt's close before its open leaves one
open for good. A wait fails at once on an earlier cancelled download of the name while
another is still running. It keeps the telemetry it began with through a relaunch.

*Engine process.* `terminate_and_reap` says that SIGTERM makes the engine flush
(`browser.rs:66`), `Page::close` that it is ignored (1677). A driver that dies, or a
launch that is cancelled between spawn and attach, leaves its process behind; a
`try_wait` that fails returns without reaping. Neither is modelled.

## 5. The proofs

`tlapm` proves every theorem from the assumptions stated in the modules: the ids are a
finite set, `None` is distinct from the values it stands beside, the caps are natural
numbers and the channel holds at least one entry; `None` is no engine, task, session,
lock, job, persona or domain, the reaper is no client, the callers of a pool are a
finite set and its numbers are natural numbers. In the five parts, `None` is no task,
context, page, kind, request, download, URL, name or engine, the handles a caller asks
for are positive, the times and bounds are natural numbers, and the log of downloads and
the attempts are at least one. No assumption bounds the number of
ids, entries, events, tasks, engines, contexts, locks, callers or domains, and
`MaxEvents`, `MaxSeed`, `MaxRequests`, `MaxSaved`, `MaxRoutes`, `MaxLate` and `MaxRows`
are arbitrary.

**`NetworkLogProofs`.** `LogInvariant`: `TypeOK`, `IndexOK`, `AnswersBelong`,
`PendingIsEarly` and the cap on entries are inductive together. The index needs the
types, and `PendingIsEarly` needs the index (a filed id is one the index finds). The
work is in the index: lemmas state what rebuilding it (`RebuiltIndex`), appending
(`AppendedIndex`), replacing in place (`UpdatedIndex`), draining the oldest
(`EvictionKeepsIndex`) and closing the gap of a removed entry (`RemoveKeepsLogInv`)
do to it, and one lemma per handler uses them. `NoWakeupIsLost` adds the waiters:
what a step adds to the log it also publishes, so it is in the queue of every
receiver that did not lag, and what a receiver throws away is no match.
`TimeoutsAreHonest` follows from it, as an action property.
`WaitsReturnTheirAnswer` is the other half of a wait: what it does return matches what
it asked for and holds answers of that request only, since every queue holds entries
with their own answers (`QueuesInvariant`, which also bounds the queues by the
channel). `TablesInvariant` holds
the caps and the counters, by cardinalities. `LogIsKeyedTable` is the refinement:
each handler is one step of KeyedLog or a stutter.

**`SessionProofs`.** `SessionInvariant` strengthens the run's properties with the
lock discipline: a task in the launch steps is the one that holds the mutex, and the
slot is empty meanwhile; a task at a step of one call was asked that call. From it:
`EnginesAreOwned`, `LaunchesFillEmptySlots` and the refinement `SessionIsEngineSlot`.
`TelemetryFollowsSlot` is about `Telemetry`, with any number of verbs, `as` and closes and no
hypothesis on them. Its invariant speaks of the time since a writer last met another:
there is at most one between its writes, and what it wrote first says what it
writes next (`TelemetryInv`). A writer that comes alone finds both places with the same
engine and leaves them so (`OpeningKeepsTelemetry`, `ClosingKeepsTelemetry`), and no
other step touches either place or the writers (`QuietIsQuiet`). Finding 2 is
a crossing of a launch and a close.

**`RegistryProofs`.** `RegistryInvariant` is over any number of clients and contexts.
It relates holders and what they hold (`owner`, `launching`), says that a kept
context's lock and session, once made, stay (`close` and the reaper never name it),
that everyone launching for it refers to the one registered lock, and that a task
past the second look still finds the map empty. From it: `NothingIsLeftBehind`,
`KeptContextHasOneSession`, `LocksAreForgotten`, and `LaunchesAreExclusive`, which says
who may be launching at the same time. `ContextsStayApart` is inductive next to it: a session
belongs to one context, in the map and in the hands of tasks, also after a close or a
replacement has taken it out of the map. Both are needed for the refinement,
`KeptContextsStayOpen`: an insert, a launch or an engine that stops for one context
must not be seen by another (`StepImplementsOpen`, one step per action).

**`PersonaPoolProofs`.** The types, `BindingsUsable` and `InFlightIsHeld` are
inductive together (`PoolInvariant`): a reused id is live because a bound session is,
and a session replaced by `rotate` is nobody's because its count is the number of its
holders. The lemmas are about ids: with one id free, the loop of `fresh_id` ends, at an
id of the right width that no session has (`EveryIdIsReached`, `FreshIdIsFree`), so
creating or restoring disturbs no session a caller holds. The five action properties
follow, with one lemma on what an acquire hands out (`AcquiredSession`).
`PoolLeasesPersonas` is the refinement, by one step per call. A second invariant
(`SeedsInvariant`) says where seeds come from: one in use or in quarantine was counted
by this process, and so lies behind its counter, or is recorded in a snapshot. A call gives no
seed, one that is new, or a recorded one that is not in quarantine (`NoSeedGiven`,
`SeedCounted`, `SeedRestored`). Hence `TwinsAreRecorded`, `QuarantineHolds` and
`BurnedStaysQuarantined`, the positive side of finding 5.

**`ControlProofs`.** `ControlInvariant` adds to the types and the mutex what each
task in a call has asked (`AsksOK`) and, where there is no doubt, what holds while a
call is between the engine's yes and the session's note of it: the engine then has the
table the one writer asked for (`RoutesOK`), or the position of the one call that
crosses (`FixOK`), and an engine being launched has the session's position, with no call on
its way from the engine to the session (`LaunchOK`). `RoutesStayAgreed` and `PositionStaysAgreed` are
those with no call in between.

**`FramesProofs`.** `FramesInvariant` carries a reading from the page to the answer: a
tree that was read, and the table's live marks once a task has refreshed, are within
`there`, and what they lack is within `gone` (`Readings`). `HandlesAreKept` needs that a refresh only
appends, once per new context (`MintedOnce`, `RefreshedTable`).

**`GotoProofs`.** `GotoInvariant` says what each look has established: past the look
for a verdict no row that decides lay between the mark and `looked`, and the row that
was heard was the last one by then. Since rows are only appended, later rows disturb
nothing (`RowsGrow`); `OthersKeep` does the same for the steps of other visits.

**`PartsProofs`.** Downloads: types and `Paired`, of the log and of the copy a wait
holds, are inductive; `Pushed` and `PushKeeps` say what appending with eviction keeps.
EngineProcess: `NoStrayProcess` with `ServedOK`, which places every process, every
unflushed write and every attempt at a stage of its engine; `ClosesFlush` follows,
since only `CloseEnds` and `TerminateAndReap` reap. `ProcessIsEngineSlot` is its refinement of
EngineSlot, so that what a session promises its verbs is promised down to the process. `PartsTypes` is about `MCParts` itself:
the part that runs keeps its invariant and the others do not move. It uses the step lemma of
each part, as do the theorems about each part's own specification. `EveryPartRuns` says
that the composed run is a run of each part, and `PartsKeepTheirPromises` transfers to
it, by that, what was proved of each.

**Only model-checked:** liveness (`EveryCallReturns`, `EveryRequestAnswered`,
`IdleIsReaped`), which is outside what the prover does, and the five violations.
**Only proved:** theorems without a run of their own; those that are refinements
(`ProcessIsEngineSlot`) were explored by TLC on the instances of section 3 before.

## 6. What is not modelled

Every component is listed in `PROJECT.json` with its status. Left out for good: what
is pure data or arithmetic with no state of its own (fingerprints, profiles, headers,
TLS parameters, probes, human timing curves, image and sound processing), what is
I/O and formatting (verbs' arguments and output, HAR export, MCP and HTTP framing,
the command line), documentation and tests. Left out inside modelled parts: the
network log's read-only queries, `describe` (it reads, though it holds references
for a moment), a `retain` predicate that panics (the entries are drained by then and
the index is not rebuilt, `network.rs:974`), the calls that shift the clock, whose state
is the engine's alone, prompts, which are matched as downloads are but by context only,
what a frame's row reports beside its handle, the gates and directories of a launch,
the launch mode in which rustenium owns the process, the cancellation of a request in
the middle of a call, and the verbs themselves, which here only begin, hold the page,
and end. Request pacing is arithmetic on one owner's counters, covered by the property
tests of its crate.

These are most of the repository by size: the largest files are data, scripts that run
in the page, parsing, formatting and tests. What is modelled is the state that
several tasks, processes or events share.

## 7. Plan

Written, in order of importance: the traffic log, the session, the registry, the
persona pool; then the tables next to a session's engine slot (frames, control channel),
visits, downloads, and the process behind an engine. What is left:

1. Composition: `Registry` with sessions that are those of `Session` instead of a
   boolean; telemetry read by `net` verbs from a `NetworkLog` per engine.
2. `Control` over `Session`: which engine a request reaches when `as` and a launch
   interleave, instead of launches that replace the engine at any time.
3. Liveness of the parts: a wait for a download, a visit and a launch all return, under
   the fairness of their timers.
4. Prompts, with handlers that leave them open, and the verbs that answer them.
