------------------------- MODULE PersonaPoolProofs -------------------------
(***************************************************************************)
(* Proofs about PersonaPool, for any callers, domains, policies, caps, id   *)
(* width, identities and number of tries, and for any bounds.              *)
(***************************************************************************)
EXTENDS PersonaPool, FiniteSetTheorems, WellFoundedInduction, TLAPS

\* The inductive invariant.
PoolInv == TypeOK /\ BindingsUsable /\ InFlightIsHeld

-----------------------------------------------------------------------------
(* Counters *)

\* A set of numbers has a first one.
LEMMA FirstOf ==
    ASSUME NEW S \in SUBSET Nat, S # {}
    PROVE  \E m \in S : \A k \in S : m <= k
<1>1. PICK m \in S : \A k \in S : ~ (<<k, m>> \in OpToRel(<, Nat))
  BY NatLessThanWellFounded, WFMin
<1>2. \A k \in S : ~ (k < m)
  BY <1>1 DEF OpToRel
<1> QED BY <1>2

\* Counting from the counter round the end of the width reaches every id.
LEMMA EveryIdIsReached ==
    ASSUME next_id \in Ids, NEW i \in Ids
    PROVE  \E n \in Ids : IdAt(n) = i
<1>1. CASE next_id <= i
  <2>1. i - next_id \in Ids /\ IdAt(i - next_id) = i
    BY <1>1, NumbersAssumption DEF Ids, IdAt, Wrapped
  <2> QED BY <2>1
<1>2. CASE i < next_id
  <2>1. /\ i + MaxId + 1 - next_id \in Ids
        /\ IdAt(i + MaxId + 1 - next_id) = i
    BY <1>2, NumbersAssumption DEF Ids, IdAt, Wrapped
  <2> QED BY <2>1
<1> QED BY <1>1, <1>2, NumbersAssumption DEF Ids

\* While the map has room, a fresh id is one it does not have.
LEMMA FreshIdIsFree ==
    ASSUME next_id \in Ids, Live # Ids
    PROVE  FreshId \in Ids \ Live
<1> DEFINE Free == {n \in Ids : IdAt(n) \notin Live}
<1>1. PICK i \in Ids : i \notin Live
  BY DEF Live
<1>2. Free # {} /\ Free \in SUBSET Nat
  <2>1. PICK n \in Ids : IdAt(n) = i
    BY <1>1, EveryIdIsReached
  <2>2. Ids \in SUBSET Nat
    BY NumbersAssumption DEF Ids
  <2> QED BY <1>1, <2>1, <2>2
<1>3. PICK m \in Free : \A k \in Free : m <= k
  BY <1>2, FirstOf
<1>4. \A k \in 0..(m - 1) : IdAt(k) \in Live
  BY <1>3, NumbersAssumption DEF Ids
<1> DEFINE n == CHOOSE n \in Ids : /\ IdAt(n) \notin Live
                                   /\ \A k \in 0..(n - 1) : IdAt(k) \in Live
<1>5. n \in Ids /\ IdAt(n) \notin Live
  BY <1>3, <1>4
<1>6. IdAt(n) \in Ids
  BY <1>5, NumbersAssumption DEF Ids, IdAt, Wrapped
<1> QED BY <1>5, <1>6 DEF FreshId

\* A fresh seed is one of the next Tries + 1, and selects an identity nobody
\* wears if one of them does.
LEMMA FreshSeedIsNew ==
    ASSUME next_seed \in Seeds
    PROVE  /\ FreshSeed \in Seeds /\ FreshSeed >= next_seed
           /\ (\E n \in 0..Tries : IdentityOf[next_seed + n] \notin Worn) =>
                 IdentityOf[FreshSeed] \notin Worn
<1> DEFINE Good == {n \in 0..Tries : n < Tries => IdentityOf[next_seed + n] \notin Worn}
<1>1. Tries \in Good /\ Good \in SUBSET Nat
  BY NumbersAssumption
<1>2. PICK m \in Good : \A k \in Good : m <= k
  BY <1>1, FirstOf
<1>3. \A k \in 0..(m - 1) : IdentityOf[next_seed + k] \in Worn
  BY <1>2, NumbersAssumption
<1> DEFINE n == CHOOSE n \in 0..Tries :
                   /\ n < Tries => IdentityOf[next_seed + n] \notin Worn
                   /\ \A k \in 0..(n - 1) : IdentityOf[next_seed + k] \in Worn
<1>4. /\ n \in 0..Tries
      /\ n < Tries => IdentityOf[next_seed + n] \notin Worn
      /\ \A k \in 0..(n - 1) : IdentityOf[next_seed + k] \in Worn
  BY <1>2, <1>3
<1> HIDE DEF n
<1>5. next_seed + n \in Seeds /\ next_seed + n >= next_seed
  BY <1>4, NumbersAssumption DEF Seeds
<1>6. ASSUME NEW k \in 0..Tries, IdentityOf[next_seed + k] \notin Worn
      PROVE  IdentityOf[next_seed + n] \notin Worn
  BY <1>4, <1>6, NumbersAssumption
<1>7. FreshSeed = next_seed + n
  BY DEF FreshSeed, n
<1> QED BY <1>5, <1>6, <1>7

\* The session create_session makes, as the acquire that asked for it leaves it.
LEMMA NewSession ==
    ASSUME NEW seed \in Seeds
    PROVE  /\ [Built(seed) EXCEPT !.in_flight = 1] \in PersonaSession
           /\ [Built(seed) EXCEPT !.in_flight = 1].seed = seed
           /\ [Built(seed) EXCEPT !.in_flight = 1].in_flight = 1
           /\ [Built(seed) EXCEPT !.in_flight = 1].burned = FALSE
<1>1. Built(seed) = [seed |-> seed, in_flight |-> 0, burned |-> FALSE]
  BY DEF Built
<1>2. PICK r \in PersonaSession : r = Built(seed) /\ r.seed = seed /\ r.burned = FALSE
  <2>1. [seed |-> seed, in_flight |-> 0, burned |-> FALSE] \in PersonaSession
    BY DEF PersonaSession
  <2> QED BY <1>1, <2>1
<1>3. /\ [r EXCEPT !.in_flight = 1] \in PersonaSession
      /\ [r EXCEPT !.in_flight = 1].in_flight = 1
      /\ [r EXCEPT !.in_flight = 1].seed = r.seed
      /\ [r EXCEPT !.in_flight = 1].burned = r.burned
  BY DEF PersonaSession
<1> QED BY <1>2, <1>3

-----------------------------------------------------------------------------
(* The callers that hold a session *)

Holders(i) == {c \in Callers : hold[c] = i}

\* A caller that acquires a session makes one more.
LEMMA OneMoreHolder ==
    ASSUME hold \in [Callers -> Ids \union {None}], NEW c \in Callers, hold[c] = None,
           NEW i \in Ids, hold' = [hold EXCEPT ![c] = i]
    PROVE  /\ Cardinality(Holders(i)) \in Nat
           /\ Cardinality(Holders(i)') = Cardinality(Holders(i)) + 1
           /\ \A j \in Ids \ {i} : Holders(j)' = Holders(j)
<1>1. Holders(i)' = Holders(i) \union {c} /\ c \notin Holders(i)
  BY NoneAssumption DEF Holders
<1>2. IsFiniteSet(Holders(i))
  BY CallersAssumption, FS_Subset DEF Holders
<1>3. \A j \in Ids \ {i} : Holders(j)' = Holders(j)
  BY NoneAssumption DEF Holders
<1> QED BY <1>1, <1>2, <1>3, FS_AddElement, FS_CardinalityType

\* A caller that releases its session makes one less.
LEMMA OneLessHolder ==
    ASSUME hold \in [Callers -> Ids \union {None}], NEW c \in Callers,
           NEW i \in Ids, hold[c] = i, hold' = [hold EXCEPT ![c] = None]
    PROVE  /\ Cardinality(Holders(i)) \in Nat \ {0}
           /\ Cardinality(Holders(i)') = Cardinality(Holders(i)) - 1
           /\ \A j \in Ids \ {i} : Holders(j)' = Holders(j)
<1>1. Holders(i)' = Holders(i) \ {c} /\ c \in Holders(i)
  BY NoneAssumption DEF Holders
<1>2. IsFiniteSet(Holders(i))
  BY CallersAssumption, FS_Subset DEF Holders
<1>3. \A j \in Ids \ {i} : Holders(j)' = Holders(j)
  BY NoneAssumption DEF Holders
<1>4. Cardinality(Holders(i)) # 0
  BY <1>1, <1>2, FS_EmptySet
<1> QED BY <1>1, <1>2, <1>3, <1>4, FS_RemoveElement, FS_CardinalityType

\* A session that is not in the map, or counts no request, is held by nobody.
LEMMA NoHolder ==
    ASSUME PoolInv, NEW i \in Ids, i \in Live => sessions[i].in_flight = 0
    PROVE  Holders(i) = {} /\ Cardinality(Holders(i)) = 0
<1>1. CASE i \in Live
  <2>1. Cardinality(Holders(i)) = 0 /\ IsFiniteSet(Holders(i))
    BY <1>1, CallersAssumption, FS_Subset DEF PoolInv, InFlightIsHeld, Holders
  <2> QED BY <2>1, FS_EmptySet
<1>2. CASE i \notin Live
  <2>1. Holders(i) = {}
    BY <1>2, NoneAssumption DEF PoolInv, InFlightIsHeld, Holders
  <2> QED BY <2>1, FS_EmptySet
<1> QED BY <1>1, <1>2

-----------------------------------------------------------------------------
(* Each call keeps the invariant *)

\* An acquire that reuses a session counts one more request on it.
LEMMA ReuseKeepsInv ==
    ASSUME PoolInv, NEW c \in Callers, NEW d \in Domains, Reuse(c, d)
    PROVE  PoolInv'
<1>1. PICK i \in Reusable(d) : /\ sessions' = [sessions EXCEPT ![i].in_flight = @ + 1]
                              /\ Issue(c, d, i)
  BY DEF Reuse
<1>2. i \in Ids /\ i \in Live /\ sessions[i] \in PersonaSession
  BY DEF Reusable, Usable, Live, PoolInv, TypeOK
<1>3. /\ sessions' = [sessions EXCEPT ![i] = [sessions[i] EXCEPT !.in_flight = @ + 1]]
      /\ sessions'[i] \in PersonaSession
      /\ sessions'[i].in_flight = sessions[i].in_flight + 1
      /\ sessions'[i].burned = sessions[i].burned
  BY <1>1, <1>2 DEF PoolInv, TypeOK, PersonaSession
<1>4. Live' = Live /\ Usable' = Usable
  BY <1>2, <1>3, NoneAssumption DEF Live, Usable, PoolInv, TypeOK
<1>5. TypeOK'
  BY <1>1, <1>2, <1>3 DEF PoolInv, TypeOK, Reuse, Issue, counters
<1>6. BindingsUsable'
  BY <1>4 DEF PoolInv, BindingsUsable, Reuse
<1>7. InFlightIsHeld'
  <2>1. hold[c] = None /\ hold' = [hold EXCEPT ![c] = i]
    BY <1>1 DEF Reuse, Issue
  <2>2. \A e \in Callers : hold'[e] \in Live' \union {None}
    BY <1>2, <1>4, <2>1 DEF PoolInv, InFlightIsHeld, TypeOK
  <2>3. /\ Cardinality(Holders(i)') = Cardinality(Holders(i)) + 1
        /\ \A j \in Ids \ {i} : Holders(j)' = Holders(j)
    BY <1>2, <2>1, OneMoreHolder DEF PoolInv, TypeOK
  <2>4. ASSUME NEW j \in Live' PROVE sessions'[j].in_flight = Cardinality(Holders(j)')
    BY <1>2, <1>3, <1>4, <2>3 DEF PoolInv, InFlightIsHeld, TypeOK, Live, Holders
  <2> QED BY <2>2, <2>4 DEF InFlightIsHeld, Holders
<1> QED BY <1>5, <1>6, <1>7 DEF PoolInv

\* An acquire that creates a session binds the domain to a usable one that
\* nobody held before.
LEMMA CreateKeepsInv ==
    ASSUME PoolInv, NEW c \in Callers, NEW d \in Domains, Create(c, d)
    PROVE  PoolInv'
<1>1. PICK i \in Ids : i = FreshId /\ i \notin Live
  BY FreshIdIsFree DEF PoolInv, TypeOK, Create
<1>2. PICK seed \in Seeds : seed = FreshSeed
  BY FreshSeedIsNew DEF PoolInv, TypeOK
<1>3. PICK new \in PersonaSession : /\ new = [Built(FreshSeed) EXCEPT !.in_flight = 1]
                                   /\ new.in_flight = 1 /\ new.burned = FALSE
  BY <1>2, NewSession
<1>4. new # None
  BY NoneAssumption
<1>5. /\ sessions' = [sessions EXCEPT ![i] = new]
      /\ domain_bindings' = [domain_bindings EXCEPT ![d] = i]
      /\ next_id' = Wrapped(i + 1)
      /\ next_seed' = seed + 1
      /\ hold[c] = None /\ hold' = [hold EXCEPT ![c] = i]
      /\ previous_target' = d /\ request_count' = request_count + 1
      /\ UNCHANGED <<config, burned_seeds, saved>>
  BY <1>1, <1>2, <1>3 DEF Create, Issue
<1>6. Live' = Live \union {i} /\ Usable' = Usable \union {i}
  BY <1>1, <1>3, <1>4, <1>5 DEF Live, Usable, PoolInv, TypeOK
<1>7. TypeOK'
  <2>1. next_id' \in Ids /\ next_seed' \in Seeds
    BY <1>1, <1>2, <1>5, NumbersAssumption DEF Wrapped, Ids, Seeds
  <2> QED BY <1>1, <1>3, <1>5, <2>1 DEF PoolInv, TypeOK
<1>8. BindingsUsable'
  BY <1>5, <1>6 DEF PoolInv, BindingsUsable, TypeOK
<1>9. InFlightIsHeld'
  <2>1. \A e \in Callers : hold'[e] \in Live' \union {None}
    BY <1>5, <1>6 DEF PoolInv, InFlightIsHeld, TypeOK
  <2>2. /\ Cardinality(Holders(i)') = Cardinality(Holders(i)) + 1
        /\ \A j \in Ids \ {i} : Holders(j)' = Holders(j)
    BY <1>5, OneMoreHolder DEF PoolInv, TypeOK
  <2>3. Cardinality(Holders(i)) = 0
    BY <1>1, NoHolder
  <2>4. ASSUME NEW j \in Live' PROVE sessions'[j].in_flight = Cardinality(Holders(j)')
    <3>1. CASE j = i
      BY <1>3, <1>5, <2>2, <2>3, <3>1 DEF PoolInv, TypeOK
    <3>2. CASE j # i
      BY <1>5, <1>6, <2>2, <2>4, <3>2 DEF PoolInv, InFlightIsHeld, TypeOK, Live, Holders
    <3> QED BY <3>1, <3>2
  <2> QED BY <2>1, <2>4 DEF InFlightIsHeld, Holders
<1> QED BY <1>7, <1>8, <1>9 DEF PoolInv

\* A release takes one request off, and the count never was at zero.
LEMMA ReleaseKeepsInv ==
    ASSUME PoolInv, NEW c \in Callers, Release(c)
    PROVE  PoolInv'
<1>1. PICK i \in Ids : i = hold[c] /\ i \in Live /\ sessions[i] \in PersonaSession
  BY DEF Release, PoolInv, InFlightIsHeld, TypeOK, Live
<1>2. /\ Cardinality(Holders(i)) \in Nat \ {0}
      /\ Cardinality(Holders(i)') = Cardinality(Holders(i)) - 1
      /\ \A j \in Ids \ {i} : Holders(j)' = Holders(j)
  BY <1>1, OneLessHolder DEF PoolInv, TypeOK, Release
<1>3. /\ sessions' = [sessions EXCEPT ![i] = [sessions[i] EXCEPT !.in_flight = @ - 1]]
      /\ sessions'[i] \in PersonaSession
      /\ sessions'[i].in_flight = sessions[i].in_flight - 1
      /\ sessions'[i].burned = sessions[i].burned
  <2>1. sessions[i].in_flight \in Nat \ {0}
    BY <1>1, <1>2 DEF PoolInv, InFlightIsHeld, Holders
  <2>2. sessions' = [sessions EXCEPT ![i] = [sessions[i] EXCEPT !.in_flight = @ - 1]]
    <3>1. PICK n \in Nat : n = IF sessions[i].in_flight > 0 THEN sessions[i].in_flight - 1
                                                            ELSE 0
      BY <2>1
    <3>2. sessions' = [sessions EXCEPT ![i] = [sessions[i] EXCEPT !.in_flight = n]]
      BY <1>1, <3>1 DEF Release
    <3>3. n = sessions[i].in_flight - 1
      BY <2>1, <3>1
    <3> QED BY <3>2, <3>3
  <2> QED BY <1>1, <2>1, <2>2 DEF PoolInv, TypeOK, PersonaSession
<1>4. Live' = Live /\ Usable' = Usable
  BY <1>1, <1>3, NoneAssumption DEF Live, Usable, PoolInv, TypeOK
<1>5. TypeOK'
  BY <1>3 DEF PoolInv, TypeOK, Release, counters, rotation_state
<1>6. BindingsUsable'
  BY <1>4 DEF PoolInv, BindingsUsable, Release
<1>7. InFlightIsHeld'
  <2>1. \A e \in Callers : hold'[e] \in Live' \union {None}
    BY <1>4 DEF PoolInv, InFlightIsHeld, TypeOK, Release
  <2>2. ASSUME NEW j \in Live' PROVE sessions'[j].in_flight = Cardinality(Holders(j)')
    <3>1. CASE j = i
      BY <1>1, <1>2, <1>3, <3>1 DEF PoolInv, InFlightIsHeld, Holders
    <3>2. CASE j # i
      BY <1>2, <1>3, <1>4, <2>2, <3>2 DEF PoolInv, InFlightIsHeld, TypeOK, Live, Holders
    <3> QED BY <3>1, <3>2
  <2> QED BY <2>1, <2>2 DEF InFlightIsHeld, Holders
<1> QED BY <1>5, <1>6, <1>7 DEF PoolInv

\* A new persona under an id that nobody holds, in the map or not.
LEMMA ReplacedKeepsHeld ==
    ASSUME PoolInv, NEW i \in Ids, NEW seed \in Seeds,
           i \in Live => sessions[i].in_flight = 0,
           sessions' = [sessions EXCEPT ![i] = Built(seed)], hold' = hold
    PROVE  /\ sessions' \in [Ids -> PersonaSession \union {None}]
           /\ Live' = Live \union {i} /\ Usable' = Usable \union {i}
           /\ InFlightIsHeld'
<1>1. PICK new \in PersonaSession : /\ new = Built(seed)
                                   /\ new.in_flight = 0 /\ new.burned = FALSE
  <2>1. Built(seed) = [seed |-> seed, in_flight |-> 0, burned |-> FALSE]
    BY DEF Built
  <2>2. [seed |-> seed, in_flight |-> 0, burned |-> FALSE] \in PersonaSession
    BY DEF PersonaSession
  <2> QED BY <2>1, <2>2
<1>2. new # None
  BY NoneAssumption
<1>3. /\ sessions' \in [Ids -> PersonaSession \union {None}]
      /\ Live' = Live \union {i} /\ Usable' = Usable \union {i}
  BY <1>1, <1>2 DEF Live, Usable, PoolInv, TypeOK
<1>4. Cardinality(Holders(i)) = 0 /\ \A j \in Ids : Holders(j)' = Holders(j)
  BY NoHolder DEF Holders
<1>5. \A e \in Callers : hold'[e] \in Live' \union {None}
  BY <1>3 DEF PoolInv, InFlightIsHeld
<1>6. ASSUME NEW j \in Live' PROVE sessions'[j].in_flight = Cardinality(Holders(j)')
  <2>1. CASE j = i
    BY <1>1, <1>4, <2>1 DEF PoolInv, TypeOK
  <2>2. CASE j # i
    BY <1>3, <1>4, <1>6, <2>2 DEF PoolInv, InFlightIsHeld, TypeOK, Live, Holders
  <2> QED BY <2>1, <2>2
<1> QED BY <1>3, <1>5, <1>6 DEF InFlightIsHeld, Holders

\* A rotation replaces a session without requests.
LEMMA RotateKeepsInv ==
    ASSUME PoolInv, NEW i \in Ids, NEW d \in Domains, Rotate(i, d)
    PROVE  PoolInv'
<1>1. /\ sessions' \in [Ids -> PersonaSession \union {None}]
      /\ Live' = Live \union {i} /\ Usable' = Usable \union {i}
      /\ InFlightIsHeld'
  BY ReplacedKeepsHeld DEF Rotate, PoolInv, TypeOK
<1>2. TypeOK'
  BY <1>1 DEF Rotate, PoolInv, TypeOK, Seeds
<1>3. BindingsUsable'
  BY <1>1 DEF Rotate, PoolInv, TypeOK, BindingsUsable
<1> QED BY <1>1, <1>2, <1>3 DEF PoolInv

\* A restored snapshot takes an id that is not in the map, and moves the
\* counter to an id of its width.
LEMMA RestoreKeepsInv ==
    ASSUME PoolInv, NEW snap \in saved, RestoreSnapshot(snap)
    PROVE  PoolInv'
<1>1. snap.id \in Ids /\ snap.seed \in Seeds
  BY DEF PoolInv, TypeOK, PersonaSnapshot
<1>2. PICK i \in Ids : i = (IF snap.id \in Live THEN FreshId ELSE snap.id) /\ i \notin Live
  BY <1>1, FreshIdIsFree DEF PoolInv, TypeOK, RestoreSnapshot
<1>3. /\ sessions' \in [Ids -> PersonaSession \union {None}]
      /\ Live' = Live \union {i} /\ Usable' = Usable \union {i}
      /\ InFlightIsHeld'
  BY <1>1, <1>2, ReplacedKeepsHeld DEF RestoreSnapshot
<1>4. next_id' \in Ids
  <2>1. PICK k \in Ids : k = IF snap.id \in Live THEN Wrapped(i + 1) ELSE next_id
    BY <1>2, NumbersAssumption DEF Ids, Wrapped, PoolInv, TypeOK
  <2>2. next_id' = Larger(k, Saturated(i + 1))
    BY <1>2, <2>1 DEF RestoreSnapshot
  <2> QED BY <1>2, <2>1, <2>2, NumbersAssumption DEF Ids, Larger, Saturated
<1>5. TypeOK'
  BY <1>3, <1>4 DEF RestoreSnapshot, PoolInv, TypeOK, rotation_state
<1>6. BindingsUsable'
  BY <1>3 DEF RestoreSnapshot, PoolInv, BindingsUsable
<1> QED BY <1>3, <1>5, <1>6 DEF PoolInv

\* A burned session loses its bindings and keeps its requests.
LEMMA BurnKeepsInv ==
    ASSUME PoolInv, NEW i \in Ids, MarkBurned(i)
    PROVE  PoolInv'
<1>1. i \in Live /\ sessions[i] \in PersonaSession
  BY DEF MarkBurned, PoolInv, TypeOK, Live
<1>2. /\ sessions' = [sessions EXCEPT ![i] = [sessions[i] EXCEPT !.burned = TRUE]]
      /\ sessions'[i] \in PersonaSession
      /\ sessions'[i].in_flight = sessions[i].in_flight
      /\ sessions'[i].burned = TRUE
      /\ sessions[i].seed \in Seeds
  BY <1>1 DEF MarkBurned, PoolInv, TypeOK, PersonaSession
<1>3. Live' = Live /\ Usable' = Usable \ {i}
  BY <1>1, <1>2, NoneAssumption DEF Live, Usable, PoolInv, TypeOK
<1>4. TypeOK'
  BY <1>2 DEF MarkBurned, PoolInv, TypeOK, counters, rotation_state
<1>5. BindingsUsable'
  BY <1>3 DEF MarkBurned, PoolInv, BindingsUsable
<1>6. InFlightIsHeld'
  BY <1>1, <1>2, <1>3 DEF MarkBurned, PoolInv, InFlightIsHeld, TypeOK, Live
<1> QED BY <1>4, <1>5, <1>6 DEF PoolInv

\* The invariant the others follow from.
THEOREM PoolInvariant == Spec => []PoolInv
<1>1. Init => PoolInv
  <2> SUFFICES ASSUME Init PROVE PoolInv
    OBVIOUS
  <2>1. TypeOK
    BY NumbersAssumption DEF Init, TypeOK, Ids, Seeds
  <2>2. Live = {}
    BY DEF Init, Live
  <2> QED BY <2>1, <2>2 DEF Init, PoolInv, BindingsUsable, InFlightIsHeld
<1>2. PoolInv /\ [Next]_vars => PoolInv'
  <2> SUFFICES ASSUME PoolInv, [Next]_vars PROVE PoolInv'
    OBVIOUS
  <2>1. ASSUME NEW c \in Callers, NEW d \in Domains, Reuse(c, d) \/ Create(c, d)
        PROVE  PoolInv'
    BY <2>1, ReuseKeepsInv, CreateKeepsInv
  <2>2. ASSUME NEW c \in Callers, Release(c) PROVE PoolInv'
    BY <2>2, ReleaseKeepsInv
  <2>3. ASSUME NEW i \in Ids, NEW d \in Domains, Rotate(i, d) PROVE PoolInv'
    BY <2>3, RotateKeepsInv
  <2>4. ASSUME NEW i \in Ids, MarkBurned(i) PROVE PoolInv'
    BY <2>4, BurnKeepsInv
  <2>5. ASSUME NEW i \in Ids, Snapshot(i) PROVE PoolInv'
    <3>1. [id |-> i, seed |-> sessions[i].seed] \in PersonaSnapshot
      BY <2>5 DEF Snapshot, Live, PoolInv, TypeOK, PersonaSession, PersonaSnapshot
    <3>2. TypeOK'
      BY <2>5, <3>1 DEF Snapshot, PoolInv, TypeOK, counters, rotation_state
    <3> QED BY <2>5, <3>2
       DEF Snapshot, PoolInv, BindingsUsable, InFlightIsHeld, Usable, Live
  <2>6. ASSUME NEW snap \in saved, RestoreSnapshot(snap) PROVE PoolInv'
    BY <2>6, RestoreKeepsInv
  <2>7. ASSUME Restart PROVE PoolInv'
    <3>1. TypeOK'
      BY <2>7, NumbersAssumption DEF Restart, PoolInv, TypeOK, Ids, Seeds
    <3>2. Live' = {}
      BY <2>7 DEF Restart, Live
    <3> QED BY <2>7, <3>1, <3>2 DEF Restart, PoolInv, BindingsUsable, InFlightIsHeld
  <2>8. CASE UNCHANGED vars
    BY <2>8 DEF vars, PoolInv, TypeOK, BindingsUsable, InFlightIsHeld, Usable, Live
  <2> QED BY <2>1, <2>2, <2>3, <2>4, <2>5, <2>6, <2>7, <2>8 DEF Next
<1> QED BY <1>1, <1>2, PTL DEF Spec

\* Types; the id counter stays within its width, whatever ids are restored.
THEOREM PoolTypes == Spec => []TypeOK
BY PoolInvariant, PTL DEF PoolInv

\* A bound domain always has a session it may use.
THEOREM BoundDomainsAreServed == Spec => []BindingsUsable
BY PoolInvariant, PTL DEF PoolInv

\* A session's count of requests is right, whatever was rotated or restored.
THEOREM InFlightIsAccurate == Spec => []InFlightIsHeld
BY PoolInvariant, PTL DEF PoolInv

-----------------------------------------------------------------------------
(* What a call may never do *)

\* A session that somebody holds counts a request.
LEMMA HeldIsInFlight ==
    ASSUME PoolInv, NEW c \in Callers, hold[c] # None
    PROVE  /\ hold[c] \in Live
           /\ sessions[hold[c]] \in PersonaSession
           /\ sessions[hold[c]].in_flight # 0
<1>1. PICK i \in Ids : i = hold[c] /\ i \in Live /\ sessions[i] \in PersonaSession
  BY DEF PoolInv, InFlightIsHeld, TypeOK, Live
<1>2. c \in Holders(i)
  BY <1>1 DEF Holders
<1> QED BY <1>1, <1>2, NoHolder

\* No call changes the persona a caller holds: rotation refuses a session with
\* requests in flight, and a new or restored one never takes a live id.
THEOREM PersonasAreKept == Spec => NoMidRequestRotation
<1>1. PoolInv /\ [Next]_vars =>
        [\A c \in Callers : hold[c] # None /\ hold'[c] = hold[c] =>
            sessions'[hold[c]].seed = sessions[hold[c]].seed]_vars
  <2> SUFFICES ASSUME PoolInv, [Next]_vars, NEW c \in Callers, hold[c] # None,
                      hold'[c] = hold[c]
               PROVE  sessions'[hold[c]].seed = sessions[hold[c]].seed
    OBVIOUS
  <2>1. PICK i \in Ids : /\ i = hold[c] /\ i \in Live
                         /\ sessions[i] \in PersonaSession /\ sessions[i].in_flight # 0
    BY HeldIsInFlight DEF Live
  <2> SUFFICES sessions'[i].seed = sessions[i].seed
    BY <2>1
  <2> USE <2>1 DEF PoolInv, TypeOK, PersonaSession
  <2>2. ASSUME NEW e \in Callers, NEW d \in Domains, Reuse(e, d)
        PROVE  sessions'[i].seed = sessions[i].seed
    BY <2>2 DEF Reuse, Reusable, Usable, Live
  <2>3. ASSUME NEW e \in Callers, NEW d \in Domains, Create(e, d)
        PROVE  sessions'[i].seed = sessions[i].seed
    <3>1. FreshId \in Ids \ Live
      BY <2>3, FreshIdIsFree DEF Create
    <3> QED BY <2>3, <3>1 DEF Create
  <2>4. ASSUME NEW e \in Callers, Release(e)
        PROVE  sessions'[i].seed = sessions[i].seed
    BY <2>4 DEF Release
  <2>5. ASSUME NEW j \in Ids, NEW d \in Domains, Rotate(j, d)
        PROVE  sessions'[i].seed = sessions[i].seed
    BY <2>5 DEF Rotate
  <2>6. ASSUME NEW j \in Ids, MarkBurned(j) \/ Snapshot(j)
        PROVE  sessions'[i].seed = sessions[i].seed
    BY <2>6 DEF MarkBurned, Snapshot
  <2>7. ASSUME NEW snap \in saved, RestoreSnapshot(snap)
        PROVE  sessions'[i].seed = sessions[i].seed
    <3>1. snap.id \in Live => FreshId \in Ids \ Live
      BY <2>7, FreshIdIsFree DEF RestoreSnapshot
    <3>2. snap.id \in Ids
      BY DEF PersonaSnapshot
    <3> QED BY <2>7, <3>1, <3>2 DEF RestoreSnapshot
  <2>8. ~Restart
    BY NoneAssumption DEF Restart
  <2>9. CASE UNCHANGED vars
    BY <2>9 DEF vars
  <2> QED BY <2>2, <2>3, <2>4, <2>5, <2>6, <2>7, <2>8, <2>9 DEF Next
<1> QED BY <1>1, PoolInvariant, PTL DEF Spec, NoMidRequestRotation

\* A caller gets a session by an acquire.
LEMMA AcquiredByAcquire ==
    ASSUME PoolInv, [Next]_vars, NEW c \in Callers, Acquired(c)
    PROVE  \E d \in Domains : Reuse(c, d) \/ Create(c, d)
<1> USE DEF PoolInv, TypeOK, Acquired
<1>1. ASSUME NEW e \in Callers, NEW d \in Domains, Reuse(e, d) \/ Create(e, d)
      PROVE  e = c
  BY <1>1 DEF Reuse, Create, Issue
<1>2. ASSUME NEW e \in Callers, Release(e) PROVE FALSE
  BY <1>2 DEF Release
<1>3. ASSUME NEW i \in Ids, NEW d \in Domains, Rotate(i, d) PROVE FALSE
  BY <1>3 DEF Rotate
<1>4. ASSUME NEW i \in Ids, MarkBurned(i) \/ Snapshot(i) PROVE FALSE
  BY <1>4 DEF MarkBurned, Snapshot
<1>5. ASSUME NEW snap \in saved, RestoreSnapshot(snap) PROVE FALSE
  BY <1>5 DEF RestoreSnapshot
<1>6. ~Restart
  BY DEF Restart
<1>7. ~UNCHANGED vars
  BY DEF vars
<1> QED BY <1>1, <1>2, <1>3, <1>4, <1>5, <1>6, <1>7 DEF Next

\* What an acquire leaves: the session it hands out is either one that could be
\* reused, or a new one.
LEMMA AcquiredSession ==
    ASSUME PoolInv, NEW c \in Callers, NEW d \in Domains, Reuse(c, d) \/ Create(c, d)
    PROVE  /\ previous_target' = d
           /\ \/ /\ hold'[c] \in Reusable(d) /\ Live' = Live
                 /\ domain_bindings' = domain_bindings
                 /\ sessions'[hold'[c]].burned = FALSE
              \/ /\ Admitted(d) /\ Reusable(d) = {}
                 /\ hold'[c] = FreshId /\ FreshId \in Ids \ Live
                 /\ Live' = Live \union {FreshId}
                 /\ domain_bindings' = [domain_bindings EXCEPT ![d] = FreshId]
                 /\ sessions'[hold'[c]] = [Built(FreshSeed) EXCEPT !.in_flight = 1]
<1> USE DEF PoolInv, TypeOK
<1>1. CASE Reuse(c, d)
  <2>1. PICK i \in Reusable(d) : /\ sessions' = [sessions EXCEPT ![i].in_flight = @ + 1]
                                /\ Issue(c, d, i)
    BY <1>1 DEF Reuse
  <2>2. i \in Ids /\ i \in Live /\ sessions[i] \in PersonaSession /\ ~sessions[i].burned
    BY DEF Reusable, Usable, Live
  <2>3. sessions'[i] \in PersonaSession /\ sessions'[i].burned = FALSE
    BY <2>1, <2>2 DEF PersonaSession
  <2>4. Live' = Live
    BY <2>1, <2>2, <2>3, NoneAssumption DEF Live
  <2> QED BY <1>1, <2>1, <2>2, <2>3, <2>4 DEF Reuse, Issue
<1>2. CASE Create(c, d)
  <2>1. PICK i \in Ids : i = FreshId /\ i \notin Live
    BY <1>2, FreshIdIsFree DEF Create
  <2>2. PICK new \in PersonaSession : new = [Built(FreshSeed) EXCEPT !.in_flight = 1]
    BY FreshSeedIsNew, NewSession
  <2>3. new # None
    BY NoneAssumption
  <2>4. sessions' = [sessions EXCEPT ![i] = new]
    BY <1>2, <2>1, <2>2 DEF Create
  <2>5. Live' = Live \union {i}
    BY <2>1, <2>3, <2>4 DEF Live
  <2>6. hold'[c] = i
    BY <1>2, <2>1 DEF Create, Issue
  <2>7. sessions'[i] = new
    BY <2>4
  <2> QED BY <1>2, <2>1, <2>2, <2>5, <2>6, <2>7 DEF Create, Issue
<1> QED BY <1>1, <1>2

\* An acquire never hands out a burned persona, whatever the policy.
THEOREM BurnedAreNotHandedOut == Spec => BurnedNotHandedOut
<1>1. PoolInv /\ [Next]_vars =>
        [\A c \in Callers : Acquired(c) => ~sessions'[hold'[c]].burned]_vars
  <2> SUFFICES ASSUME PoolInv, [Next]_vars, NEW c \in Callers, Acquired(c)
               PROVE  ~sessions'[hold'[c]].burned
    OBVIOUS
  <2>1. PICK d \in Domains : Reuse(c, d) \/ Create(c, d)
    BY AcquiredByAcquire
  <2> QED BY <2>1, AcquiredSession DEF Built
<1> QED BY <1>1, PoolInvariant, PTL DEF Spec, BurnedNotHandedOut

\* Under PerSession, once a domain was visited, a bound domain keeps its session.
THEOREM VisitsAreSticky == Spec => StickyPerSession
<1>1. PoolInv /\ [Next]_vars =>
        [config.policy = "PerSession" /\ previous_target # None =>
            \A c \in Callers : Acquired(c) =>
               \A d \in Domains : domain_bindings[d] # None =>
                  /\ domain_bindings'[d] = domain_bindings[d]
                  /\ d = previous_target' => hold'[c] = domain_bindings[d]]_vars
  <2> SUFFICES ASSUME PoolInv, [Next]_vars,
                      config.policy = "PerSession", previous_target # None,
                      NEW c \in Callers, Acquired(c),
                      NEW d \in Domains, domain_bindings[d] # None
               PROVE  /\ domain_bindings'[d] = domain_bindings[d]
                      /\ d = previous_target' => hold'[c] = domain_bindings[d]
    OBVIOUS
  <2>1. PICK e \in Domains : Reuse(c, e) \/ Create(c, e)
    BY AcquiredByAcquire
  <2>2. ~ShouldRotate(e)
    BY DEF ShouldRotate
  <2>3. Reusable(e) = Usable \intersect {domain_bindings[e]}
    BY <2>2 DEF Reusable
  <2>4. domain_bindings[d] \in Usable
    BY DEF PoolInv, BindingsUsable
  <2>5. CASE e = d
    BY <2>1, <2>3, <2>4, <2>5, AcquiredSession
  <2>6. CASE e # d
    BY <2>1, <2>6, AcquiredSession DEF PoolInv, TypeOK
  <2> QED BY <2>5, <2>6
<1> QED BY <1>1, PoolInvariant, PTL DEF Spec, StickyPerSession

\* Without rotation by the policy, an acquire keeps the pool within its cap: the
\* domain it lets in over the cap is bound, and so needs no session.
THEOREM AcquiresStayWithinCap == Spec => AcquireWithinCap
<1>1. PoolInv /\ [Next]_vars =>
        [/\ config.cap > 0
         /\ config.policy \in {"Never", "PerSession"}
         /\ config.policy = "PerSession" => previous_target # None
         /\ \E c \in Callers : Acquired(c)
         /\ Live' # Live
         => Cardinality(Live') <= config.cap]_vars
  <2> SUFFICES ASSUME PoolInv, [Next]_vars, config.cap > 0,
                      config.policy \in {"Never", "PerSession"},
                      config.policy = "PerSession" => previous_target # None,
                      NEW c \in Callers, Acquired(c), Live' # Live
               PROVE  Cardinality(Live') <= config.cap
    OBVIOUS
  <2>1. PICK d \in Domains : Reuse(c, d) \/ Create(c, d)
    BY AcquiredByAcquire
  <2>2. /\ Admitted(d) /\ Reusable(d) = {}
        /\ FreshId \in Ids \ Live /\ Live' = Live \union {FreshId}
    BY <2>1, AcquiredSession
  <2>3. ~ShouldRotate(d)
    BY DEF ShouldRotate
  <2>4. domain_bindings[d] = None
    BY <2>2, <2>3 DEF Reusable, PoolInv, BindingsUsable
  <2>5. Cardinality(Live) < config.cap
    BY <2>2, <2>4 DEF Admitted
  <2>6. IsFiniteSet(Live)
    <3>1. IsFiniteSet(Ids)
      BY NumbersAssumption, FS_Interval DEF Ids
    <3> QED BY <3>1, FS_Subset DEF Live
  <2>7. Cardinality(Live') = Cardinality(Live) + 1 /\ Cardinality(Live) \in Nat
    BY <2>2, <2>6, FS_AddElement, FS_CardinalityType
  <2>8. config.cap \in Nat
    BY NumbersAssumption DEF PoolInv, TypeOK
  <2> QED BY <2>5, <2>7, <2>8
<1> QED BY <1>1, PoolInvariant, PTL DEF Spec, AcquireWithinCap

\* A new session's identity is one nobody wears, if any of the seeds tried has
\* one.
THEOREM NewIdentitiesAreDistinct == Spec => NewIdentityIfAny
<1>1. PoolInv /\ [Next]_vars =>
        [(\E c \in Callers : Acquired(c)) /\ Live' # Live
            /\ (\E n \in 0..Tries : IdentityOf[next_seed + n] \notin Worn) =>
         \A i \in Live' \ Live : IdentityOf[sessions'[i].seed] \notin Worn]_vars
  <2> SUFFICES ASSUME PoolInv, [Next]_vars, NEW c \in Callers, Acquired(c), Live' # Live,
                      \E n \in 0..Tries : IdentityOf[next_seed + n] \notin Worn,
                      NEW i \in Live' \ Live
               PROVE  IdentityOf[sessions'[i].seed] \notin Worn
    OBVIOUS
  <2>1. PICK d \in Domains : Reuse(c, d) \/ Create(c, d)
    BY AcquiredByAcquire
  <2>2. i = hold'[c] /\ sessions'[i] = [Built(FreshSeed) EXCEPT !.in_flight = 1]
    BY <2>1, AcquiredSession
  <2>3. sessions'[i].seed = FreshSeed
    BY <2>2 DEF Built
  <2>4. IdentityOf[FreshSeed] \notin Worn
    BY FreshSeedIsNew DEF PoolInv, TypeOK
  <2> QED BY <2>3, <2>4
<1> QED BY <1>1, PoolInvariant, PTL DEF Spec, NewIdentityIfAny

-----------------------------------------------------------------------------
(* Where a seed that is given again comes from *)

\* The seeds the snapshots on disk recorded.
Recorded == {snap.seed : snap \in saved}

\* A session has the seed it had before the step.
SeedKept(i) == i \in Live /\ sessions'[i].seed = sessions[i].seed

\* Every seed in use or in quarantine was counted by this process or comes from a
\* snapshot; only a snapshot's seed is worn twice; a burned session's seed is in
\* quarantine.
SeedsInv ==
    /\ \A i \in Live : sessions[i].seed < next_seed \/ sessions[i].seed \in Recorded
    /\ \A s \in burned_seeds : s < next_seed \/ s \in Recorded
    /\ \A i, j \in Live : i # j /\ sessions[i].seed = sessions[j].seed =>
          sessions[i].seed \in Recorded
    /\ \A i \in Live : sessions[i].burned => sessions[i].seed \in burned_seeds

\* A step that gives no session a seed.
SameSeeds ==
    /\ Live' = Live
    /\ \A i \in Live : sessions'[i].seed = sessions[i].seed
    /\ next_seed' = next_seed

\* A step that gives one session a new seed, neither used nor counted yet.
CountedSeed(i) ==
    /\ Live' = Live \union {i}
    /\ \A j \in Live \ {i} : sessions'[j] = sessions[j]
    /\ sessions'[i].seed >= next_seed /\ sessions'[i].seed < next_seed'
    /\ ~sessions'[i].burned

\* A step that gives one session the seed a snapshot recorded.
RecordedSeed(i) ==
    /\ i \notin Live /\ Live' = Live \union {i}
    /\ \A j \in Live : sessions'[j] = sessions[j]
    /\ sessions'[i].seed \in Recorded \ burned_seeds
    /\ ~sessions'[i].burned
    /\ next_seed' = next_seed

\* An acquire that reuses a session, a release and a snapshot give no seed.
GivesNone == \/ \E c \in Callers, d \in Domains : Reuse(c, d)
             \/ \E c \in Callers : Release(c)
             \/ \E i \in Ids : Snapshot(i)

LEMMA NoSeedGiven ==
    ASSUME PoolInv, GivesNone
    PROVE  /\ SameSeeds /\ UNCHANGED burned_seeds
           /\ \A j \in Live : sessions'[j].burned = sessions[j].burned
<1> USE DEF PoolInv, TypeOK, PersonaSession, SameSeeds, counters
<1> DEFINE Kept == \A j \in Live : sessions'[j].burned = sessions[j].burned
<1>1. ASSUME NEW c \in Callers, NEW d \in Domains, Reuse(c, d)
      PROVE  SameSeeds /\ UNCHANGED burned_seeds /\ Kept
  <2>1. PICK j \in Reusable(d) : sessions' = [sessions EXCEPT ![j].in_flight = @ + 1]
    BY <1>1 DEF Reuse
  <2>2. j \in Ids /\ j \in Live /\ sessions[j] \in PersonaSession
    BY DEF Reusable, Usable, Live
  <2>3. /\ sessions' = [sessions EXCEPT ![j] = [sessions[j] EXCEPT !.in_flight = @ + 1]]
        /\ sessions'[j] \in PersonaSession
        /\ sessions'[j].seed = sessions[j].seed
        /\ sessions'[j].burned = sessions[j].burned
    BY <2>1, <2>2
  <2>4. Live' = Live
    BY <2>2, <2>3, NoneAssumption DEF Live
  <2> QED BY <1>1, <2>2, <2>3, <2>4 DEF Reuse, Live
<1>2. ASSUME NEW c \in Callers, Release(c)
      PROVE  SameSeeds /\ UNCHANGED burned_seeds /\ Kept
  <2>1. PICK j \in Ids : j = hold[c] /\ j \in Live /\ sessions[j] \in PersonaSession
    BY <1>2 DEF Release, InFlightIsHeld, Live
  <2>2. PICK n \in Nat : n = IF sessions[j].in_flight > 0
                                 THEN sessions[j].in_flight - 1 ELSE 0
    BY <2>1
  <2>3. /\ sessions' = [sessions EXCEPT ![j] = [sessions[j] EXCEPT !.in_flight = n]]
        /\ sessions'[j] \in PersonaSession
        /\ sessions'[j].seed = sessions[j].seed
        /\ sessions'[j].burned = sessions[j].burned
    BY <1>2, <2>1, <2>2 DEF Release
  <2>4. Live' = Live
    BY <2>1, <2>3, NoneAssumption DEF Live
  <2> QED BY <1>2, <2>1, <2>3, <2>4 DEF Release, Live
<1>3. ASSUME NEW i \in Ids, Snapshot(i)
      PROVE  SameSeeds /\ UNCHANGED burned_seeds /\ Kept
  BY <1>3 DEF Snapshot, Live
<1> QED BY <1>1, <1>2, <1>3 DEF GivesNone

\* An acquire that creates a session, and a rotation, take a seed that is new.
GivesCounted == \/ \E c \in Callers, d \in Domains : Create(c, d)
                \/ \E i \in Ids, d \in Domains : Rotate(i, d)

LEMMA SeedCounted ==
    ASSUME PoolInv, GivesCounted
    PROVE  (\E j \in Ids : CountedSeed(j)) /\ UNCHANGED <<burned_seeds, saved>>
<1> USE DEF PoolInv, TypeOK
<1>1. ASSUME NEW c \in Callers, NEW d \in Domains, Create(c, d)
      PROVE  (\E j \in Ids : CountedSeed(j)) /\ UNCHANGED <<burned_seeds, saved>>
  <2>1. PICK j \in Ids : j = FreshId /\ j \notin Live
    BY <1>1, FreshIdIsFree DEF Create
  <2>2. PICK seed \in Seeds : seed = FreshSeed /\ seed >= next_seed
    BY FreshSeedIsNew
  <2>3. PICK new \in PersonaSession : /\ new = [Built(FreshSeed) EXCEPT !.in_flight = 1]
                                     /\ new.seed = seed /\ new.burned = FALSE
    BY <2>2, NewSession
  <2>4. sessions' = [sessions EXCEPT ![j] = new] /\ next_seed' = seed + 1
    BY <1>1, <2>1, <2>2, <2>3 DEF Create
  <2>5. Live' = Live \union {j} /\ sessions'[j] = new
    BY <2>1, <2>4, NoneAssumption DEF Live
  <2>6. \A k \in Live \ {j} : sessions'[k] = sessions[k]
    BY <2>4 DEF Live
  <2>7. CountedSeed(j)
    BY <2>2, <2>3, <2>4, <2>5, <2>6 DEF CountedSeed, Seeds
  <2> QED BY <1>1, <2>7 DEF Create
<1>2. ASSUME NEW i \in Ids, NEW d \in Domains, Rotate(i, d)
      PROVE  (\E j \in Ids : CountedSeed(j)) /\ UNCHANGED <<burned_seeds, saved>>
  <2>1. /\ Built(next_seed) \in PersonaSession
        /\ Built(next_seed).seed = next_seed /\ Built(next_seed).burned = FALSE
    BY DEF Built, PersonaSession
  <2>2. /\ sessions' = [sessions EXCEPT ![i] = Built(next_seed)]
        /\ next_seed' = next_seed + 1
    BY <1>2 DEF Rotate
  <2>3. Live' = Live \union {i} /\ sessions'[i] = Built(next_seed)
    BY <2>1, <2>2, NoneAssumption DEF Live
  <2>4. \A k \in Live \ {i} : sessions'[k] = sessions[k]
    BY <2>2 DEF Live
  <2>5. CountedSeed(i)
    BY <2>1, <2>2, <2>3, <2>4 DEF CountedSeed, Seeds
  <2> QED BY <1>2, <2>5 DEF Rotate
<1> QED BY <1>1, <1>2 DEF GivesCounted

\* A restored session wears a recorded seed that is not in quarantine.
LEMMA SeedRestored ==
    ASSUME PoolInv, NEW snap \in saved, RestoreSnapshot(snap)
    PROVE  (\E j \in Ids : RecordedSeed(j)) /\ UNCHANGED <<burned_seeds, saved>>
<1> USE DEF PoolInv, TypeOK
<1>1. snap.id \in Ids /\ snap.seed \in Seeds
  BY DEF PersonaSnapshot
<1>2. PICK j \in Ids : j = (IF snap.id \in Live THEN FreshId ELSE snap.id) /\ j \notin Live
  BY <1>1, FreshIdIsFree DEF RestoreSnapshot
<1>3. /\ Built(snap.seed) \in PersonaSession
      /\ Built(snap.seed).seed = snap.seed /\ Built(snap.seed).burned = FALSE
  BY <1>1 DEF Built, PersonaSession
<1>4. sessions' = [sessions EXCEPT ![j] = Built(snap.seed)]
  BY <1>2 DEF RestoreSnapshot
<1>5. Live' = Live \union {j} /\ sessions'[j] = Built(snap.seed)
  BY <1>3, <1>4, NoneAssumption DEF Live
<1>6. \A k \in Live : sessions'[k] = sessions[k]
  BY <1>2, <1>4 DEF Live
<1>7. snap.seed \in Recorded \ burned_seeds /\ next_seed' = next_seed
  BY DEF Recorded, RestoreSnapshot
<1>8. RecordedSeed(j)
  BY <1>2, <1>3, <1>5, <1>6, <1>7 DEF RecordedSeed
<1> QED BY <1>8 DEF RestoreSnapshot

\* Seeds stay accounted for.
LEMMA SeedsInvariant == Spec => []SeedsInv
<1>1. Init => SeedsInv
  BY DEF Init, SeedsInv, Live
<1>2. PoolInv /\ SeedsInv /\ [Next]_vars => SeedsInv'
  <2> SUFFICES ASSUME PoolInv, SeedsInv, [Next]_vars PROVE SeedsInv'
    OBVIOUS
  <2>0. /\ next_seed \in Seeds /\ burned_seeds \subseteq Seeds
        /\ \A i \in Live : sessions[i].seed \in Seeds
    BY DEF PoolInv, TypeOK, PersonaSession, Live
  <2>1. CASE GivesNone
    <3>1. Recorded \subseteq Recorded'
      BY <2>1 DEF GivesNone, Recorded, Reuse, Release, Snapshot
    <3> QED BY <2>1, <3>1, NoSeedGiven DEF SeedsInv, SameSeeds
  <2>2. CASE GivesCounted
    <3>1. PICK j \in Ids : CountedSeed(j)
      BY <2>2, SeedCounted
    <3>2. burned_seeds' = burned_seeds /\ Recorded' = Recorded
      BY <2>2, SeedCounted DEF Recorded
    <3>3. next_seed' \in Seeds /\ sessions'[j].seed \in Seeds /\ next_seed' > next_seed
      <4>1. PoolInv'
        BY <2>2, CreateKeepsInv, RotateKeepsInv DEF GivesCounted
      <4>2. j \in Live'
        BY <3>1 DEF CountedSeed
      <4>3. next_seed' \in Seeds /\ sessions'[j].seed \in Seeds
        BY <4>1, <4>2 DEF PoolInv, TypeOK, PersonaSession, Live
      <4> QED BY <2>0, <3>1, <4>3 DEF CountedSeed, Seeds
    <3>4. \A k \in Live \ {j} : \/ sessions[k].seed < next_seed
                                \/ sessions[k].seed \in Recorded
      BY DEF SeedsInv
    <3>5. \A k \in Live \ {j} : sessions'[k].seed = sessions'[j].seed =>
             sessions[k].seed \in Recorded
      BY <2>0, <3>1, <3>3, <3>4 DEF CountedSeed, Seeds
    <3>6. \A k \in Live' : \/ sessions'[k].seed < next_seed'
                           \/ sessions'[k].seed \in Recorded
      BY <2>0, <3>1, <3>3, <3>4 DEF CountedSeed, Seeds
    <3>7. \A s \in burned_seeds : s < next_seed' \/ s \in Recorded
      <4>1. \A s \in burned_seeds : s \in Nat /\ (s < next_seed \/ s \in Recorded)
        BY <2>0 DEF SeedsInv, Seeds
      <4>2. next_seed \in Nat /\ next_seed' \in Nat
        BY <2>0, <3>3 DEF Seeds
      <4> QED BY <3>3, <4>1, <4>2
    <3>8. \A k, l \in Live' : k # l /\ sessions'[k].seed = sessions'[l].seed =>
             sessions'[k].seed \in Recorded
      BY <3>1, <3>5 DEF CountedSeed, SeedsInv
    <3>9. \A k \in Live' : sessions'[k].burned => sessions'[k].seed \in burned_seeds
      BY <3>1 DEF CountedSeed, SeedsInv
    <3> QED BY <3>2, <3>6, <3>7, <3>8, <3>9 DEF SeedsInv
  <2>3. ASSUME NEW i \in Ids, MarkBurned(i) PROVE SeedsInv'
    <3>1. i \in Live /\ sessions[i] \in PersonaSession
      BY <2>3 DEF MarkBurned, PoolInv, TypeOK, Live
    <3>2. /\ sessions' = [sessions EXCEPT ![i] = [sessions[i] EXCEPT !.burned = TRUE]]
          /\ sessions'[i] \in PersonaSession
          /\ sessions'[i].seed = sessions[i].seed
      BY <2>3, <3>1 DEF MarkBurned, PoolInv, TypeOK, PersonaSession
    <3>3. Live' = Live /\ \A j \in Live : sessions'[j].seed = sessions[j].seed
      BY <3>1, <3>2, NoneAssumption DEF Live, PoolInv, TypeOK
    <3>4. \A j \in Live \ {i} : sessions'[j] = sessions[j]
      BY <3>2 DEF Live, PoolInv, TypeOK
    <3>5. /\ burned_seeds' = burned_seeds \union {sessions[i].seed}
          /\ next_seed' = next_seed /\ Recorded' = Recorded
      BY <2>3 DEF MarkBurned, counters, Recorded
    <3> QED BY <3>1, <3>3, <3>4, <3>5 DEF SeedsInv
  <2>4. ASSUME NEW snap \in saved, RestoreSnapshot(snap) PROVE SeedsInv'
    <3>1. PICK j \in Ids : RecordedSeed(j)
      BY <2>4, SeedRestored
    <3>2. burned_seeds' = burned_seeds /\ Recorded' = Recorded
      BY <2>4, SeedRestored DEF Recorded
    <3> QED BY <3>1, <3>2 DEF RecordedSeed, SeedsInv
  <2>5. ASSUME Restart PROVE SeedsInv'
    BY <2>5 DEF Restart, SeedsInv, Live
  <2>6. CASE UNCHANGED vars
    BY <2>6 DEF vars, SeedsInv, Live, Recorded
  <2> QED BY <2>1, <2>2, <2>3, <2>4, <2>5, <2>6 DEF Next, GivesNone, GivesCounted
<1> QED BY <1>1, <1>2, PoolInvariant, PTL DEF Spec

\* Two sessions wear the same seed only if a snapshot on disk recorded it: the
\* counter by itself, and whatever create_session skips, never repeats one.
THEOREM TwinsAreRecorded ==
    Spec => [](\A i, j \in Live : i # j /\ sessions[i].seed = sessions[j].seed =>
                  \E snap \in saved : snap.seed = sessions[i].seed)
<1>1. SeedsInv => \A i, j \in Live : i # j /\ sessions[i].seed = sessions[j].seed =>
                     \E snap \in saved : snap.seed = sessions[i].seed
  BY DEF SeedsInv, Recorded
<1> QED BY <1>1, SeedsInvariant, PTL

\* A session with a seed that is in quarantine is given it by the counter coming
\* to a seed some snapshot had brought before: restore_snapshot refuses it, and
\* without snapshots no quarantined seed is worn again.
THEOREM QuarantineHolds ==
    Spec => [][\A i \in Live' : ~SeedKept(i) /\ sessions'[i].seed \in burned_seeds =>
                  \E snap \in saved : snap.seed = sessions'[i].seed]_vars
<1>1. PoolInv /\ SeedsInv /\ [Next]_vars =>
        [\A i \in Live' : ~SeedKept(i) /\ sessions'[i].seed \in burned_seeds =>
            \E snap \in saved : snap.seed = sessions'[i].seed]_vars
  <2> SUFFICES ASSUME PoolInv, SeedsInv, [Next]_vars, NEW i \in Live', ~SeedKept(i),
                      sessions'[i].seed \in burned_seeds
               PROVE  \E snap \in saved : snap.seed = sessions'[i].seed
    OBVIOUS
  <2>1. CASE GivesNone
    BY <2>1, NoSeedGiven DEF SameSeeds, SeedKept
  <2>2. CASE GivesCounted
    <3>1. PICK j \in Ids : CountedSeed(j)
      BY <2>2, SeedCounted
    <3>2. i = j /\ sessions'[i].seed >= next_seed
      BY <3>1 DEF CountedSeed, SeedKept
    <3>3. sessions'[i].seed \in Nat /\ next_seed \in Nat
      BY DEF PoolInv, TypeOK, Seeds
    <3> QED BY <3>2, <3>3 DEF SeedsInv, Recorded
  <2>3. ASSUME NEW j \in Ids, MarkBurned(j) PROVE FALSE
    <3>1. j \in Live /\ sessions[j] \in PersonaSession
      BY <2>3 DEF MarkBurned, PoolInv, TypeOK, Live
    <3>2. /\ sessions' = [sessions EXCEPT ![j] = [sessions[j] EXCEPT !.burned = TRUE]]
          /\ sessions'[j].seed = sessions[j].seed
      BY <2>3, <3>1 DEF MarkBurned, PoolInv, TypeOK, PersonaSession
    <3> QED BY <3>1, <3>2 DEF SeedKept, Live, PoolInv, TypeOK
  <2>4. ASSUME NEW snap \in saved, RestoreSnapshot(snap) PROVE FALSE
    BY <2>4, SeedRestored DEF RecordedSeed, SeedKept
  <2>5. ASSUME Restart PROVE FALSE
    BY <2>5 DEF Restart, Live
  <2>6. CASE UNCHANGED vars
    BY <2>6 DEF vars, SeedKept, Live
  <2> QED BY <2>1, <2>2, <2>3, <2>4, <2>5, <2>6 DEF Next, GivesNone, GivesCounted
<1> QED BY <1>1, PoolInvariant, SeedsInvariant, PTL DEF Spec

\* A session that was burned keeps its seed in quarantine as long as it wears it,
\* so that QuarantineHolds is about the persona of every session mark_burned named.
THEOREM BurnedStaysQuarantined ==
    Spec => [](\A i \in Live : sessions[i].burned => sessions[i].seed \in burned_seeds)
BY SeedsInvariant, PTL DEF SeedsInv

-----------------------------------------------------------------------------
(* The pool leases personas *)

LeaseView == <<LeasedPersona, Retired, hold>>

\* The personas, when one id is dressed and the others keep theirs.
LEMMA OneDressed ==
    ASSUME PoolInv, PoolInv', NEW i \in Ids, i \in Live', Live' = Live \union {i},
           \A j \in Live \ {i} : sessions'[j] = sessions[j]
    PROVE  /\ Lease!Dress(i)
           /\ ~sessions'[i].burned => Retired' = Retired \ {i}
<1>1. sessions'[i].seed \in Seeds
  BY DEF PoolInv, TypeOK, PersonaSession, Live
<1>2. LeasedPersona'[i] = sessions'[i].seed
  BY DEF LeasedPersona
<1>3. LeasedPersona' = [LeasedPersona EXCEPT ![i] = LeasedPersona'[i]]
  BY DEF LeasedPersona
<1>4. ~sessions'[i].burned => Retired' = Retired \ {i}
  BY DEF Retired
<1> QED BY <1>1, <1>2, <1>3, <1>4 DEF Lease!Dress

\* The personas, when nothing but counts of requests and burned marks change.
LEMMA NoneDressed ==
    ASSUME Live' = Live, \A j \in Live : sessions'[j].seed = sessions[j].seed
    PROVE  UNCHANGED LeasedPersona
BY DEF LeasedPersona

\* An id is blank when it is free.
LEMMA BlankIsFree ==
    ASSUME PoolInv, NEW i \in Ids
    PROVE  LeasedPersona[i] = 0 <=> i \notin Live
<1>1. i \in Live => sessions[i].seed \in Seeds
  BY DEF PoolInv, TypeOK, PersonaSession, Live
<1> QED BY <1>1 DEF LeasedPersona, Seeds

\* Each call is a step of leases or leaves them alone.
LEMMA StepImplementsLease ==
    ASSUME PoolInv, PoolInv', [Next]_vars
    PROVE  [Lease!Next]_LeaseView
<1> USE DEF PoolInv, TypeOK
<1>1. ASSUME NEW c \in Callers, NEW d \in Domains, Reuse(c, d) PROVE Lease!Next
  <2>1. PICK i \in Reusable(d) : Issue(c, d, i)
    BY <1>1 DEF Reuse
  <2>2. i \in Ids /\ i \in Live /\ i \notin Retired
    BY DEF Reusable, Usable, Live, Retired
  <2>3. GivesNone
    BY <1>1 DEF GivesNone
  <2>4. UNCHANGED LeasedPersona /\ UNCHANGED Retired
    BY <2>3, NoSeedGiven, NoneDressed DEF SameSeeds, Retired
  <2>5. Lease!Take(c, i)
    BY <1>1, <2>1 DEF Reuse, Issue, Lease!Take
  <2>6. Lease!Acquire(c, i)
    BY <2>2, <2>4, <2>5, BlankIsFree DEF Lease!Acquire
  <2> QED BY <2>2, <2>6 DEF Lease!Next
<1>2. ASSUME NEW c \in Callers, NEW d \in Domains, Create(c, d) PROVE Lease!Next
  <2>1. PICK i \in Ids : i = FreshId /\ i \notin Live
    BY <1>2, FreshIdIsFree DEF Create
  <2>2. Lease!Take(c, i)
    BY <1>2, <2>1 DEF Create, Issue, Lease!Take
  <2>3. /\ hold'[c] = i /\ Live' = Live \union {i}
        /\ sessions'[i] = [Built(FreshSeed) EXCEPT !.in_flight = 1]
    <3>1. hold'[c] = i
      BY <2>2 DEF Lease!Take
    <3>2. Reusable(d) = {}
      BY <1>2 DEF Create
    <3> QED BY <1>2, <2>1, <3>1, <3>2, AcquiredSession
  <2>4. sessions'[i].burned = FALSE
    BY <2>3, FreshSeedIsNew, NewSession
  <2>5. \A j \in Live \ {i} : sessions'[j] = sessions[j]
    BY <1>2, <2>1 DEF Create, Live
  <2>6. Lease!Dress(i) /\ Retired' = Retired \ {i}
    BY <2>3, <2>4, <2>5, OneDressed
  <2>7. UNCHANGED Retired
    BY <2>1, <2>6 DEF Retired
  <2>8. Lease!Admit(c, i)
    BY <2>1, <2>2, <2>6, <2>7, BlankIsFree DEF Lease!Admit
  <2> QED BY <2>8 DEF Lease!Next
<1>3. ASSUME NEW c \in Callers, Release(c) PROVE Lease!Next
  <2>1. GivesNone
    BY <1>3 DEF GivesNone
  <2>2. UNCHANGED LeasedPersona /\ UNCHANGED Retired
    BY <2>1, NoSeedGiven, NoneDressed DEF SameSeeds, Retired
  <2>3. Lease!Release(c)
    BY <1>3, <2>2 DEF Release, Lease!Release
  <2> QED BY <2>3 DEF Lease!Next
<1>4. ASSUME NEW i \in Ids, NEW d \in Domains, Rotate(i, d) PROVE Lease!Next
  <2>1. i \in Live /\ Live' = Live \union {i} /\ sessions'[i].burned = FALSE
    <3>1. Built(next_seed) \in PersonaSession /\ Built(next_seed).burned = FALSE
      BY DEF Built, PersonaSession
    <3> QED BY <1>4, <3>1, NoneAssumption DEF Rotate, Live
  <2>2. \A j \in Live \ {i} : sessions'[j] = sessions[j]
    BY <1>4 DEF Rotate, Live
  <2>3. Lease!Dress(i) /\ Retired' = Retired \ {i}
    BY <2>1, <2>2, OneDressed
  <2>4. \A c \in Callers : hold[c] # i
    BY <1>4, NoHolder DEF Rotate, Holders
  <2>5. Lease!Reassign(i)
    BY <1>4, <2>1, <2>3, <2>4, BlankIsFree DEF Rotate, Lease!Reassign
  <2> QED BY <2>5 DEF Lease!Next
<1>5. ASSUME NEW i \in Ids, MarkBurned(i) PROVE Lease!Next
  <2>1. i \in Live /\ sessions[i] \in PersonaSession
    BY <1>5 DEF MarkBurned, Live
  <2>2. /\ sessions' = [sessions EXCEPT ![i] = [sessions[i] EXCEPT !.burned = TRUE]]
        /\ sessions'[i] \in PersonaSession
        /\ sessions'[i].seed = sessions[i].seed /\ sessions'[i].burned = TRUE
    BY <1>5, <2>1 DEF MarkBurned, PersonaSession
  <2>3. Live' = Live /\ \A j \in Live : sessions'[j].seed = sessions[j].seed
    <3>1. Live' = Live
      BY <2>1, <2>2, NoneAssumption DEF Live
    <3>2. ASSUME NEW j \in Live PROVE sessions'[j].seed = sessions[j].seed
      BY <2>1, <2>2 DEF Live
    <3> QED BY <3>1, <3>2
  <2>4. Retired' = Retired \union {i}
    BY <2>1, <2>2, <2>3 DEF Retired, Live
  <2>5. Lease!Retire(i)
    BY <1>5, <2>1, <2>3, <2>4, NoneDressed, BlankIsFree DEF MarkBurned, Lease!Retire
  <2> QED BY <2>5 DEF Lease!Next
<1>6. ASSUME NEW i \in Ids, Snapshot(i) PROVE UNCHANGED LeaseView
  BY <1>6 DEF Snapshot, LeaseView, LeasedPersona, Retired, Live
<1>7. ASSUME NEW snap \in saved, RestoreSnapshot(snap) PROVE Lease!Next
  <2>1. PICK i \in Ids : RecordedSeed(i)
    BY <1>7, SeedRestored
  <2>2. Lease!Dress(i) /\ Retired' = Retired \ {i}
    BY <2>1, OneDressed DEF RecordedSeed
  <2>3. UNCHANGED Retired
    BY <2>1, <2>2 DEF Retired, RecordedSeed
  <2>4. Lease!Restore(i)
    BY <1>7, <2>1, <2>2, <2>3, BlankIsFree
       DEF RestoreSnapshot, RecordedSeed, Lease!Restore
  <2> QED BY <2>4 DEF Lease!Next
<1>8. ASSUME Restart PROVE Lease!Next
  <2>1. Live' = {}
    BY <1>8 DEF Restart, Live
  <2>2. LeasedPersona' = [i \in Ids |-> 0] /\ Retired' = {}
    BY <2>1 DEF LeasedPersona, Retired
  <2>3. Lease!Forget
    BY <1>8, <2>2 DEF Restart, Lease!Forget
  <2> QED BY <2>3 DEF Lease!Next
<1>9. CASE UNCHANGED vars
  BY <1>9 DEF vars, LeaseView, LeasedPersona, Retired, Live
<1> QED BY <1>1, <1>2, <1>3, <1>4, <1>5, <1>6, <1>7, <1>8, <1>9 DEF Next

\* Callers get leases: a session is handed out while its persona is not burned,
\* wears that persona as long as anybody holds it, and is dressed anew only when
\* nobody does, in any order of acquires, rotations, restores and restarts.
THEOREM PoolLeasesPersonas == Spec => ImplementsPersonaLease
<1>1. Init => Lease!Init
  <2> SUFFICES ASSUME Init PROVE Lease!Init
    OBVIOUS
  <2>1. Live = {}
    BY DEF Init, Live
  <2> QED BY <2>1 DEF Init, Lease!Init, LeasedPersona, Retired
<1>2. PoolInv /\ PoolInv' /\ [Next]_vars => [Lease!Next]_LeaseView
  BY StepImplementsLease
<1> QED BY <1>1, <1>2, PoolInvariant, PTL
        DEF Spec, ImplementsPersonaLease, Lease!Spec, LeaseView
=============================================================================
