------------------------------ MODULE PersonaPool ------------------------------
(***************************************************************************)
(* guise/src/persona_pool.rs: browser personas handed out to callers.  Every *)
(* method takes &mut self, so a call is one step; what is hard is the order *)
(* of the calls, the ids and seeds that restored snapshots bring, and the   *)
(* restart of the process, which forgets everything but the snapshots.     *)
(***************************************************************************)
EXTENDS Naturals, FiniteSets

CONSTANTS Callers,     \* each holds at most one session, and releases it once
          Domains,
          Policies,    \* rotation policies a pool may be configured with
          Every,       \* the n of PerRequests(n)
          Caps,        \* values of max_concurrent_sessions; 0 is no cap
          MaxId,       \* u64::MAX
          Tries,       \* times create_session builds another persona: 64
          IdentityOf,  \* the identity a seed selects
          None,
          MaxSeed,     \* bound on the seeds one process uses
          MaxRequests, \* bound on the requests between two rotations
          MaxSaved     \* bound on the snapshots kept

Ids == 0..MaxId
Seeds == Nat \ {0}

ASSUME NumbersAssumption == /\ MaxId \in Nat \ {0}
                            /\ Tries \in Nat
                            /\ Caps \subseteq Nat
                            /\ Every \in Nat
ASSUME PoliciesAssumption ==
    Policies \subseteq {"Never", "PerSession", "PerTarget", "PerRequests"}
ASSUME CallersAssumption == IsFiniteSet(Callers)
PersonaSession == [seed : Seeds, in_flight : Nat, burned : BOOLEAN]
PersonaSnapshot == [id : Ids, seed : Seeds]

ASSUME NoneAssumption == None \notin Ids \union Domains \union PersonaSession

VARIABLES config,          \* the policy and the cap
          sessions,        \* the session of each id in the map
          domain_bindings, \* the id each domain is bound to
          burned_seeds,
          next_id,
          next_seed,
          previous_target, \* rotation_state: the last domain
          request_count,   \* rotation_state: requests since the last rotation
          hold,            \* the session each caller acquired and has not released
          saved            \* snapshots on disk

counters == <<next_id, next_seed>>
rotation_state == <<previous_target, request_count>>
vars == <<config, sessions, domain_bindings, burned_seeds, next_id, next_seed,
          previous_target, request_count, hold, saved>>

Live == {i \in Ids : sessions[i] # None}

\* Mutant: a burned persona counts as any other.
UsableBurned == Live

Usable == {i \in Live : ~sessions[i].burned}

Worn == {IdentityOf[sessions[i].seed] : i \in Live}

Built(seed) == [seed |-> seed, in_flight |-> 0, burned |-> FALSE]

-----------------------------------------------------------------------------
(* Counters *)

\* wrapping_add and saturating_add, for what the ids are added to.
Wrapped(n) == IF n <= MaxId THEN n ELSE n - (MaxId + 1)

\* Mutant: a plain addition.
Unchecked(n) == n
Saturated(n) == IF n <= MaxId THEN n ELSE MaxId

\* The n-th id from the counter on.
IdAt(n) == Wrapped(next_id + n)

\* Mutant: the counter is trusted.
CounterId == next_id

\* The first id from the counter on that is not in the map.
FreshId == IdAt(CHOOSE n \in Ids : /\ IdAt(n) \notin Live
                                   /\ \A k \in 0..(n - 1) : IdAt(k) \in Live)

\* Mutant: the first persona built is taken, whoever wears it.
FirstSeed == next_seed

\* The first seed from the counter on whose identity nobody wears; the last one
\* built is taken as it is.
FreshSeed ==
    next_seed + (CHOOSE n \in 0..Tries :
                    /\ n < Tries => IdentityOf[next_seed + n] \notin Worn
                    /\ \A k \in 0..(n - 1) : IdentityOf[next_seed + k] \in Worn)

-----------------------------------------------------------------------------
Init ==
    /\ config \in [policy : Policies, cap : Caps]
    /\ sessions = [i \in Ids |-> None]
    /\ domain_bindings = [d \in Domains |-> None]
    /\ burned_seeds = {}
    /\ next_id = 1
    /\ next_seed = 1
    /\ previous_target = None
    /\ request_count = 0
    /\ hold = [c \in Callers |-> None]
    /\ saved = {}

\* Mutant: a pool is fresh whenever it counts no requests.
ShouldRotateCounting(d) ==
    CASE config.policy = "Never" -> FALSE
      [] config.policy = "PerSession" -> request_count = 0
      [] config.policy = "PerTarget" -> previous_target # d
      [] config.policy = "PerRequests" -> Every # 0 /\ request_count % Every = 0

ShouldRotate(d) ==
    CASE config.policy = "Never" -> FALSE
      [] config.policy = "PerSession" -> request_count = 0 /\ previous_target = None
      [] config.policy = "PerTarget" -> previous_target # d
      [] config.policy = "PerRequests" -> Every # 0 /\ request_count % Every = 0

\* The sessions an acquire may take for a domain: the one bound to it, or with
\* no rotation at all whichever usable one the map lists first.
Reusable(d) ==
    IF ShouldRotate(d) THEN {}
    ELSE IF config.policy = "Never" THEN Usable
    ELSE Usable \intersect {domain_bindings[d]}

\* A pool at its cap serves the domains that have a binding.
Admitted(d) == \/ config.cap = 0
               \/ Cardinality(Live) < config.cap
               \/ domain_bindings[d] # None

\* What every acquire ends with.
Issue(c, d, i) ==
    /\ hold' = [hold EXCEPT ![c] = i]
    /\ previous_target' = d
    /\ request_count' = request_count + 1

Reuse(c, d) ==
    /\ hold[c] = None
    /\ request_count < MaxRequests
    /\ Admitted(d)
    /\ \E i \in Reusable(d) :
          /\ sessions' = [sessions EXCEPT ![i].in_flight = @ + 1]
          /\ Issue(c, d, i)
    /\ UNCHANGED <<config, domain_bindings, burned_seeds, saved>> /\ UNCHANGED counters

\* acquire with nothing to reuse: create_session, and the domain is bound to it.
Create(c, d) ==
    /\ hold[c] = None
    /\ request_count < MaxRequests
    /\ FreshSeed <= MaxSeed
    /\ Live # Ids
    /\ Admitted(d)
    /\ Reusable(d) = {}
    /\ sessions' = [sessions EXCEPT ![FreshId] = [Built(FreshSeed) EXCEPT !.in_flight = 1]]
    /\ next_id' = Wrapped(FreshId + 1)
    /\ next_seed' = FreshSeed + 1
    /\ domain_bindings' = [domain_bindings EXCEPT ![d] = FreshId]
    /\ Issue(c, d, FreshId)
    /\ UNCHANGED <<config, burned_seeds, saved>>

Release(c) ==
    /\ hold[c] # None
    /\ sessions' = [sessions EXCEPT ![hold[c]].in_flight = IF @ > 0 THEN @ - 1 ELSE 0]
    /\ hold' = [hold EXCEPT ![c] = None]
    /\ UNCHANGED <<config, domain_bindings, burned_seeds, saved>>
    /\ UNCHANGED counters /\ UNCHANGED rotation_state

\* A new persona under the same id, when no request is in flight; the domain
\* named is bound to it.
Rotate(i, d) ==
    /\ next_seed <= MaxSeed
    /\ i \in Live
    /\ sessions[i].in_flight = 0
    /\ sessions' = [sessions EXCEPT ![i] = Built(next_seed)]
    /\ next_seed' = next_seed + 1
    /\ domain_bindings' = [domain_bindings EXCEPT ![d] = i]
    /\ request_count' = 0
    /\ UNCHANGED <<config, burned_seeds, next_id, previous_target, hold, saved>>

\* Mutant: the domains bound to a burned session stay bound.
MarkBurnedBound(i) ==
    /\ i \in Live
    /\ sessions' = [sessions EXCEPT ![i].burned = TRUE]
    /\ burned_seeds' = burned_seeds \union {sessions[i].seed}
    /\ UNCHANGED <<config, domain_bindings, hold, saved>>
    /\ UNCHANGED counters /\ UNCHANGED rotation_state

MarkBurned(i) ==
    /\ i \in Live
    /\ sessions' = [sessions EXCEPT ![i].burned = TRUE]
    /\ burned_seeds' = burned_seeds \union {sessions[i].seed}
    /\ domain_bindings' = [d \in Domains |-> IF domain_bindings[d] = i THEN None
                                             ELSE domain_bindings[d]]
    /\ UNCHANGED <<config, hold, saved>>
    /\ UNCHANGED counters /\ UNCHANGED rotation_state

-----------------------------------------------------------------------------
(* Snapshots, and the processes they outlive *)

Snapshot(i) ==
    LET snap == [id |-> i, seed |-> sessions[i].seed]
    IN /\ i \in Live
       /\ Cardinality(saved \union {snap}) <= MaxSaved
       /\ saved' = saved \union {snap}
       /\ UNCHANGED <<config, sessions, domain_bindings, burned_seeds, hold>>
       /\ UNCHANGED counters /\ UNCHANGED rotation_state

Larger(a, b) == IF a > b THEN a ELSE b

\* Mutant: the recorded id is taken over in any case.
RestoreVerbatim(snap) ==
    /\ snap.seed \notin burned_seeds
    /\ sessions' = [sessions EXCEPT ![snap.id] = Built(snap.seed)]
    /\ next_id' = Larger(next_id, Saturated(snap.id + 1))
    /\ UNCHANGED <<config, domain_bindings, burned_seeds, next_seed, hold, saved>>
    /\ UNCHANGED rotation_state

\* The recorded id if it is free, else the next; the counter goes past it, short
\* of overflow.
RestoreSnapshot(snap) ==
    LET taken == snap.id \in Live
        id == IF taken THEN FreshId ELSE snap.id
        counter == IF taken THEN Wrapped(FreshId + 1) ELSE next_id
    IN /\ Live # Ids
       /\ snap.seed \notin burned_seeds
       /\ sessions' = [sessions EXCEPT ![id] = Built(snap.seed)]
       /\ next_id' = Larger(counter, Saturated(id + 1))
       /\ UNCHANGED <<config, domain_bindings, burned_seeds, next_seed, hold, saved>>
       /\ UNCHANGED rotation_state

\* The process ends; the next one makes its pool with the same configuration.
Restart ==
    /\ sessions' = [i \in Ids |-> None]
    /\ domain_bindings' = [d \in Domains |-> None]
    /\ burned_seeds' = {}
    /\ next_id' = 1
    /\ next_seed' = 1
    /\ previous_target' = None
    /\ request_count' = 0
    /\ hold' = [c \in Callers |-> None]
    /\ UNCHANGED <<config, saved>>

-----------------------------------------------------------------------------
Next == \/ \E c \in Callers : \/ \E d \in Domains : Reuse(c, d) \/ Create(c, d)
                              \/ Release(c)
        \/ \E i \in Ids : \/ \E d \in Domains : Rotate(i, d)
                          \/ MarkBurned(i)
                          \/ Snapshot(i)
        \/ \E snap \in saved : RestoreSnapshot(snap)
        \/ Restart

Spec == Init /\ [][Next]_vars

-----------------------------------------------------------------------------
(* Properties *)

\* Types of the state.
TypeOK ==
    /\ config \in [policy : Policies, cap : Caps]
    /\ sessions \in [Ids -> PersonaSession \union {None}]
    /\ domain_bindings \in [Domains -> Ids \union {None}]
    /\ burned_seeds \subseteq Seeds
    /\ next_id \in Ids
    /\ next_seed \in Seeds
    /\ previous_target \in Domains \union {None}
    /\ request_count \in Nat
    /\ hold \in [Callers -> Ids \union {None}]
    /\ saved \subseteq PersonaSnapshot

\* A domain is bound to a session that may still be used.  The capacity check of
\* acquire relies on it: a bound domain is let in since it needs no new session.
BindingsUsable == \A d \in Domains : domain_bindings[d] \in Usable \union {None}

\* A session counts exactly the requests issued on it: no id handed out again,
\* no snapshot restored and no rotation loses or invents one.
InFlightIsHeld ==
    /\ \A c \in Callers : hold[c] \in Live \union {None}
    /\ \A i \in Live : sessions[i].in_flight = Cardinality({c \in Callers : hold[c] = i})

\* A request keeps its persona: whatever is rotated, restored or created in the
\* meantime, and however the ids wrap, the session a caller holds wears the same
\* seed ("no mid-request rotation", persona_pool.rs:9).
NoMidRequestRotation ==
    [][\A c \in Callers : hold[c] # None /\ hold'[c] = hold[c] =>
          sessions'[hold[c]].seed = sessions[hold[c]].seed]_vars

Acquired(c) == hold[c] = None /\ hold'[c] # None

\* A burned persona is not handed out.
BurnedNotHandedOut ==
    [][\A c \in Callers : Acquired(c) => ~sessions'[hold'[c]].burned]_vars

\* Repeated visits to a domain reuse its session, and leave every other domain's
\* binding alone ("sticky per-domain identity", persona_pool.rs:11): a policy
\* that rotates once starts over only when the process does.
StickyPerSession ==
    [][config.policy = "PerSession" /\ previous_target # None =>
          \A c \in Callers : Acquired(c) =>
             \A d \in Domains : domain_bindings[d] # None =>
                /\ domain_bindings'[d] = domain_bindings[d]
                /\ d = previous_target' => hold'[c] = domain_bindings[d]]_vars

\* Where the policy does not rotate by itself, an acquire never takes the pool
\* over its cap.
AcquireWithinCap ==
    [][/\ config.cap > 0
       /\ config.policy \in {"Never", "PerSession"}
       /\ config.policy = "PerSession" => previous_target # None
       /\ \E c \in Callers : Acquired(c)
       /\ Live' # Live
       => Cardinality(Live') <= config.cap]_vars

\* An acquire that makes a session gives it an identity no session wears, if one
\* of the seeds it may try has one.
NewIdentityIfAny ==
    [][(\E c \in Callers : Acquired(c)) /\ Live' # Live
          /\ (\E n \in 0..Tries : IdentityOf[next_seed + n] \notin Worn) =>
       \A i \in Live' \ Live : IdentityOf[sessions'[i].seed] \notin Worn]_vars

\* "a challenged/blocked persona is retired and never reassigned"
\* (persona_pool.rs:13): no session is given a seed that is quarantined.
NeverReassigned ==
    [][\A i \in Live' : i \notin Live \/ sessions'[i].seed # sessions[i].seed =>
          sessions'[i].seed \notin burned_seeds]_vars

-----------------------------------------------------------------------------
(* What the pool promises its callers *)

\* No seed is 0.
LeasedPersona == [i \in Ids |-> IF i \in Live THEN sessions[i].seed ELSE 0]

Retired == {i \in Live : sessions[i].burned}

Lease == INSTANCE PersonaLease WITH Personas <- Seeds,
                                    Blank <- 0,
                                    persona <- LeasedPersona,
                                    retired <- Retired,
                                    held <- hold

\* A session is a lease of its persona: it is handed out while the persona is
\* not burned, keeps it while anybody holds it, and is dressed anew otherwise
\* (persona_pool.rs:9, persona_pool.rs:13).
ImplementsPersonaLease == Lease!Spec
=============================================================================
