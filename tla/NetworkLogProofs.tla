-------------------------- MODULE NetworkLogProofs --------------------------
(***************************************************************************)
(* Proofs about NetworkLog, for any ids, caps, channel capacity and number *)
(* of waiters.                                                             *)
(***************************************************************************)
EXTENDS NetworkLog, FiniteSetTheorems, WellFoundedInduction, TLAPS

-----------------------------------------------------------------------------
(* The position map *)

\* A set of positions has a first one.
LEMMA SmallestOfNats ==
    ASSUME NEW S \in SUBSET Nat, S # {}
    PROVE  \E m \in S : \A k \in S : m <= k
<1>1. PICK m \in S : \A k \in S : ~ (<<k, m>> \in OpToRel(<, Nat))
  BY NatLessThanWellFounded, WFMin
<1>2. \A k \in S : ~ (k < m)
  BY <1>1 DEF OpToRel
<1> QED BY <1>2

Unique(es) == \A i, j \in 1..Len(es) : es[i].id = es[j].id => i = j

\* An indexed log has no id twice.
LEMMA IndexedIsUnique ==
    ASSUME NEW es \in Seq(Entry), NEW index \in [Ids -> Nat], Indexes(index, es)
    PROVE  Unique(es)
BY DEF Indexes, Unique, Entry

\* Rebuilding the map from a log without repeated ids gives its index.
LEMMA RebuiltIndex ==
    ASSUME NEW es \in Seq(Entry), Unique(es)
    PROVE  IndexOf(es) \in [Ids -> Nat] /\ Indexes(IndexOf(es), es)
<1>1. ASSUME NEW i \in 1..Len(es)
      PROVE  LastAt(es, 1, es[i].id) = i
  <2>1. \A k \in (i + 1)..Len(es) : es[k].id # es[i].id
    BY DEF Unique
  <2>2. \A k \in 1..Len(es) : es[k].id = es[i].id => k = i
    BY DEF Unique
  <2> QED BY <2>1, <2>2 DEF LastAt
<1>2. ASSUME NEW id \in Ids, NEW i \in 1..Len(es), es[i].id = id
      PROVE  IndexOf(es)[id] = i
  BY <1>1, <1>2 DEF IndexOf
<1>3. ASSUME NEW id \in Ids, ~ \E i \in 1..Len(es) : es[i].id = id
      PROVE  IndexOf(es)[id] = 0
  BY <1>3 DEF IndexOf
<1>4. IndexOf(es) \in [Ids -> Nat]
  <2>1. \A id \in Ids : IndexOf(es)[id] \in Nat
    BY <1>2, <1>3
  <2> QED BY <2>1 DEF IndexOf
<1>5. \A i \in 1..Len(es) : es[i].id \in Ids
  <2>1. \A e \in Entry : e.id \in Ids
    BY DEF Entry
  <2> QED BY <2>1
<1> QED BY <1>2, <1>3, <1>4, <1>5 DEF Indexes

\* A new entry goes to the end, and its id is indexed there.
LEMMA AppendedIndex ==
    ASSUME NEW es \in Seq(Entry), NEW index \in [Ids -> Nat], Indexes(index, es),
           NEW e \in Entry, index[e.id] = 0
    PROVE  /\ [index EXCEPT ![e.id] = Len(es) + 1] \in [Ids -> Nat]
           /\ Indexes([index EXCEPT ![e.id] = Len(es) + 1], Append(es, e))
<1>1. e.id \in Ids /\ \A f \in Entry : f.id \in Ids
  BY DEF Entry
<1>2. \A i \in 1..Len(es) : es[i].id \in Ids
  BY <1>1
<1> DEFINE new == [index EXCEPT ![e.id] = Len(es) + 1]
           ext == Append(es, e)
<1>3. /\ Len(ext) = Len(es) + 1
      /\ ext[Len(es) + 1] = e
      /\ \A i \in 1..Len(es) : ext[i] = es[i]
  OBVIOUS
<1>4. /\ new \in [Ids -> Nat]
      /\ new[e.id] = Len(es) + 1
      /\ \A id \in Ids : id # e.id => new[id] = index[id]
  BY <1>1
<1> HIDE DEF new, ext
<1>5. ASSUME NEW id \in Ids, new[id] # 0
      PROVE  new[id] <= Len(ext) /\ ext[new[id]].id = id
  <2>1. CASE id = e.id
    BY <2>1, <1>3, <1>4
  <2>2. CASE id # e.id
    BY <2>2, <1>3, <1>4, <1>5 DEF Indexes
  <2> QED BY <2>1, <2>2
<1>6. ASSUME NEW i \in 1..Len(ext)
      PROVE  new[ext[i].id] = i
  <2>1. CASE i = Len(es) + 1
    BY <2>1, <1>3, <1>4
  <2>2. CASE i \in 1..Len(es)
    BY <2>2, <1>2, <1>3, <1>4 DEF Indexes
  <2> QED BY <2>1, <2>2, <1>3
<1> QED BY <1>4, <1>5, <1>6 DEF Indexes, new, ext

\* Replacing an entry by one with the same id leaves the index right.
LEMMA UpdatedIndex ==
    ASSUME NEW es \in Seq(Entry), NEW index \in [Ids -> Nat], Indexes(index, es),
           NEW i \in 1..Len(es), NEW e \in Entry, e.id = es[i].id
    PROVE  /\ [es EXCEPT ![i] = e] \in Seq(Entry)
           /\ Indexes(index, [es EXCEPT ![i] = e])
BY DEF Indexes

-----------------------------------------------------------------------------
(* What push_entry leaves of the log before it appends *)

\* What push_entry drains leaves a suffix of the log, indexed, with room for one
\* more entry under the cap.
LEMMA EvictionKeepsIndex ==
    ASSUME TypeOK, IndexOK
    PROVE  /\ Survivors \in Seq(Entry)
           /\ Surplus \in 0..Len(entries)
           /\ Len(Survivors) = Len(entries) - Surplus
           /\ \A i \in 1..Len(Survivors) : Survivors[i] = entries[i + Surplus]
           /\ IndexAfterEviction \in [Ids -> Nat]
           /\ Indexes(IndexAfterEviction, Survivors)
           /\ \A id \in Ids : by_id[id] = 0 => IndexAfterEviction[id] = 0
           /\ MaxEntries > 0 => Len(Survivors) < MaxEntries
<1>1. entries \in Seq(Entry) /\ by_id \in [Ids -> Nat] /\ Len(entries) \in Nat
  BY DEF TypeOK
<1>2. Surplus \in 0..Len(entries)
  BY <1>1, CapsAssumption DEF Surplus
<1>3. /\ Survivors \in Seq(Entry)
      /\ Len(Survivors) = Len(entries) - Surplus
      /\ \A i \in 1..Len(Survivors) : Survivors[i] = entries[i + Surplus]
  BY <1>1, <1>2 DEF Survivors
<1>4. MaxEntries > 0 => Len(Survivors) < MaxEntries
  BY <1>1, <1>3, CapsAssumption DEF Surplus
<1>5. CASE Surplus = 0
  <2>1. Len(Survivors) = Len(entries) /\ \A i \in 1..Len(entries) : Survivors[i] = entries[i]
    BY <1>1, <1>3, <1>5
  <2>2. Indexes(by_id, Survivors)
    BY <2>1, <1>1 DEF IndexOK, Indexes
  <2>3. IndexAfterEviction = by_id
    BY <1>5 DEF IndexAfterEviction
  <2> QED BY <2>2, <2>3, <1>1, <1>2, <1>3, <1>4
<1>6. CASE Surplus > 0
  <2>1. Unique(entries)
    BY <1>1, IndexedIsUnique DEF IndexOK
  <2>2. Unique(Survivors)
    <3> SUFFICES ASSUME NEW i \in 1..Len(Survivors), NEW j \in 1..Len(Survivors),
                        Survivors[i].id = Survivors[j].id
                 PROVE  i = j
      BY DEF Unique
    <3>1. i + Surplus \in 1..Len(entries) /\ j + Surplus \in 1..Len(entries)
      BY <1>1, <1>2, <1>3
    <3>2. entries[i + Surplus].id = entries[j + Surplus].id
      BY <1>3
    <3>3. i + Surplus = j + Surplus
      BY <2>1, <3>1, <3>2 DEF Unique
    <3> QED BY <3>3, <1>2
  <2>3. IndexAfterEviction = IndexOf(Survivors)
    BY <1>6 DEF IndexAfterEviction
  <2>4. /\ IndexAfterEviction \in [Ids -> Nat]
        /\ Indexes(IndexAfterEviction, Survivors)
    BY <2>2, <2>3, <1>3, RebuiltIndex
  <2>5. ASSUME NEW id \in Ids, by_id[id] = 0, IndexAfterEviction[id] # 0
        PROVE  FALSE
    <3> DEFINE k == IndexAfterEviction[id]
    <3>1. k \in 1..Len(Survivors) /\ Survivors[k].id = id
      BY <2>4, <2>5, <1>3 DEF Indexes
    <3>2. k + Surplus \in 1..Len(entries) /\ entries[k + Surplus].id = id
      BY <3>1, <1>1, <1>2, <1>3
    <3> QED BY <3>2, <2>5, <1>1 DEF IndexOK, Indexes
  <2> QED BY <2>4, <2>5, <1>2, <1>3, <1>4
<1> QED BY <1>2, <1>5, <1>6

-----------------------------------------------------------------------------
(* Each action keeps the types and the index *)

\* The broadcast keeps receivers well formed and attached as they were.
LEMMA PublishKeepsReceivers ==
    ASSUME TypeOK, NEW e \in Entry, Publish(e)
    PROVE  /\ rx' \in [Waiters -> Receivers]
           /\ \A w \in Waiters : rx'[w].on = rx[w].on
<1>1. \A w \in Waiters : rx[w] \in Receivers
  BY DEF TypeOK
<1>2. ASSUME NEW r \in Receivers, r.on
      PROVE  Len(r.queue) < Capacity =>
                Enqueue(r, e) \in Receivers /\ Enqueue(r, e).on = r.on
  BY <1>2 DEF Receivers, Enqueue
<1>3. ASSUME NEW r \in Receivers, r.on
      PROVE  ~(Len(r.queue) < Capacity) =>
                Overrun(r, e) \in Receivers /\ Overrun(r, e).on = r.on
  <2>1. r.queue \in Seq(Entry)
    BY DEF Receivers
  <2>2. ~(Len(r.queue) < Capacity) => Len(r.queue) > 0
    BY <2>1, ChannelAssumption
  <2>3. ~(Len(r.queue) < Capacity) => Append(Tail(r.queue), e) \in Seq(Entry)
    BY <2>1, <2>2
  <2> QED BY <2>3, <1>3 DEF Receivers, Overrun
<1>4. \A w \in Waiters : rx'[w] \in Receivers /\ rx'[w].on = rx[w].on
  BY <1>1, <1>2, <1>3 DEF Publish
<1> QED BY <1>4 DEF Publish

\* Two counters move at once in most handlers.
LEMMA CountersStayNat ==
    ASSUME NEW m \in [Counters -> Nat], NEW a \in Counters, NEW b \in Counters,
           NEW x \in Nat, NEW y \in Nat
    PROVE  [m EXCEPT ![a] = @ + x, ![b] = @ + y] \in [Counters -> Nat]
OBVIOUS

\* The counters the handlers move are counters.
LEMMA CounterNames ==
    /\ "requests_received" \in Counters /\ "responses_received" \in Counters
    /\ "errors_received" \in Counters /\ "entries_evicted" \in Counters
    /\ "pending_responses_dropped" \in Counters /\ "pending_errors_dropped" \in Counters
    /\ "broadcast_drops" \in Counters /\ "duplicate_responses" \in Counters
    /\ "duplicate_errors" \in Counters
BY DEF Counters

\* What the log relies on: the index, answers filed under their own request,
\* early answers only for absent requests, and the cap on the vector.
EntryCap == MaxEntries > 0 => Len(entries) <= MaxEntries
LogInv == TypeOK /\ IndexOK /\ AnswersBelong /\ PendingIsEarly /\ EntryCap

\* The empty log satisfies the invariant.
LEMMA InitLogInv == Init => LogInv
<1> SUFFICES ASSUME Init PROVE LogInv
  OBVIOUS
<1>1. TypeOK
  BY DEF Init, TypeOK, NoReceiver, Receivers
<1>2. IndexOK /\ AnswersBelong /\ PendingIsEarly /\ EntryCap
  BY CapsAssumption DEF Init, IndexOK, Indexes, AnswersBelong, PendingIsEarly, EntryCap
<1> QED BY <1>1, <1>2 DEF LogInv

\* The new entry of a request is well typed and holds its own answers.
LEMMA RequestedEntry ==
    ASSUME LogInv, NEW id \in Ids, NEW url \in Urls
    PROVE  LET e == Requested(id, url)
           IN  /\ e \in Entry
               /\ e.id = id
               /\ e.response # None => e.response.id = id
               /\ e.error # None => e.error.id = id
BY DEF LogInv, TypeOK, AnswersBelong, Requested, Entry

\* beforeRequestSent for a new id.
LEMMA RequestKeepsLogInv ==
    ASSUME LogInv, NEW id \in Ids, NEW url \in Urls, IngestRequest(id, url)
    PROVE  LogInv'
<1> DEFINE e == Requested(id, url)
<1>1. /\ e \in Entry
      /\ e.id = id
      /\ e.response # None => e.response.id = id
      /\ e.error # None => e.error.id = id
  BY RequestedEntry
<1>2. TypeOK /\ IndexOK /\ AnswersBelong /\ PendingIsEarly /\ by_id[id] = 0
  BY DEF LogInv, IngestRequest
<1>3. /\ Survivors \in Seq(Entry)
      /\ Surplus \in 0..Len(entries)
      /\ Len(Survivors) = Len(entries) - Surplus
      /\ \A i \in 1..Len(Survivors) : Survivors[i] = entries[i + Surplus]
      /\ IndexAfterEviction \in [Ids -> Nat]
      /\ Indexes(IndexAfterEviction, Survivors)
      /\ IndexAfterEviction[id] = 0
      /\ MaxEntries > 0 => Len(Survivors) < MaxEntries
  BY <1>2, EvictionKeepsIndex
<1>4. /\ entries' = Append(Survivors, e)
      /\ by_id' = [IndexAfterEviction EXCEPT ![id] = Len(Survivors) + 1]
      /\ pending_responses' = [pending_responses EXCEPT ![id] = None]
      /\ pending_errors' = [pending_errors EXCEPT ![id] = None]
      /\ Publish(e)
      /\ UNCHANGED waitVars
  BY DEF IngestRequest
<1> HIDE DEF e
<1>5. by_id' \in [Ids -> Nat] /\ IndexOK'
  BY <1>1, <1>3, <1>4, AppendedIndex DEF IndexOK
<1>6. /\ entries' \in Seq(Entry)
      /\ Len(entries') = Len(Survivors) + 1
      /\ entries'[Len(Survivors) + 1] = e
      /\ \A i \in 1..Len(Survivors) : entries'[i] = entries[i + Surplus]
  BY <1>1, <1>3, <1>4
<1>7. TypeOK'
  <2>1. metrics' \in [Counters -> Nat]
    <3>1. metrics \in [Counters -> Nat] /\ Surplus \in Nat
      BY <1>2, <1>3 DEF TypeOK
    <3> DEFINE n == IF Waiting = {} THEN 1 ELSE 0
    <3>2. n \in Nat
      OBVIOUS
    <3>3. metrics' = [metrics EXCEPT !["requests_received"] = @ + 1,
                                     !["entries_evicted"] = @ + Surplus,
                                     !["broadcast_drops"] = @ + n]
      BY DEF IngestRequest
    <3> HIDE DEF n
    <3> QED BY <3>1, <3>2, <3>3 DEF Counters
  <2>2. /\ rx' \in [Waiters -> Receivers]
        /\ \A w \in Waiters : rx'[w].on = rx[w].on
    BY <1>1, <1>2, <1>4, PublishKeepsReceivers
  <2>3. /\ pending_responses' \in [Ids -> Response \union {None}]
        /\ pending_errors' \in [Ids -> FetchError \union {None}]
    BY <1>2, <1>4 DEF TypeOK
  <2> QED BY <2>1, <2>2, <2>3, <1>2, <1>4, <1>5, <1>6 DEF TypeOK, waitVars
<1>8. AnswersBelong'
  <2>1. ASSUME NEW i \in 1..Len(entries')
        PROVE  /\ entries'[i].response # None => entries'[i].response.id = entries'[i].id
               /\ entries'[i].error # None => entries'[i].error.id = entries'[i].id
    <3>1. CASE i = Len(Survivors) + 1
      BY <3>1, <1>1, <1>6
    <3>2. CASE i \in 1..Len(Survivors)
      <4>1. i + Surplus \in 1..Len(entries) /\ entries'[i] = entries[i + Surplus]
        BY <3>2, <1>3, <1>6
      <4> QED BY <4>1, <1>2 DEF AnswersBelong
    <3>3. Len(Survivors) \in Nat /\ Len(entries') = Len(Survivors) + 1
      BY <1>3, <1>6
    <3>4. i = Len(Survivors) + 1 \/ i \in 1..Len(Survivors)
      BY <3>3
    <3> QED BY <3>1, <3>2, <3>4
  <2>2. \A j \in Ids : /\ pending_responses'[j] # None => pending_responses'[j].id = j
                       /\ pending_errors'[j] # None => pending_errors'[j].id = j
    BY <1>2, <1>4 DEF AnswersBelong, TypeOK
  <2> QED BY <2>1, <2>2 DEF AnswersBelong
<1>9. PendingIsEarly'
  <2> SUFFICES ASSUME NEW j \in Ids, by_id'[j] # 0
               PROVE  pending_responses'[j] = None /\ pending_errors'[j] = None
    BY DEF PendingIsEarly
  <2>1. CASE j = id
    BY <2>1, <1>2, <1>4 DEF TypeOK
  <2>2. CASE j # id
    <3>1. IndexAfterEviction[j] # 0
      BY <2>2, <1>3, <1>4
    <3>2. by_id[j] # 0
      BY <3>1, <1>2, EvictionKeepsIndex
    <3> QED BY <3>2, <2>2, <1>2, <1>4 DEF PendingIsEarly, TypeOK
  <2> QED BY <2>1, <2>2
<1>10. EntryCap'
  BY <1>3, <1>6, CapsAssumption DEF EntryCap
<1> QED BY <1>5, <1>7, <1>8, <1>9, <1>10 DEF LogInv

\* An answer put into the entry at position i of its own request.
LEMMA AnsweredEntry ==
    ASSUME LogInv, NEW i \in 1..Len(entries), NEW e \in Entry,
           e.id = entries[i].id,
           e.response # None => e.response.id = e.id,
           e.error # None => e.error.id = e.id,
           entries' = [entries EXCEPT ![i] = e],
           UNCHANGED <<by_id, pending_responses, pending_errors>>,
           metrics' \in [Counters -> Nat],
           Publish(e), UNCHANGED waitVars
    PROVE  LogInv'
<1>1. TypeOK /\ IndexOK /\ AnswersBelong /\ PendingIsEarly /\ EntryCap
  BY DEF LogInv
<1>2. entries' \in Seq(Entry) /\ IndexOK' /\ Len(entries') = Len(entries)
  <2>1. entries \in Seq(Entry) /\ by_id \in [Ids -> Nat] /\ Indexes(by_id, entries)
    BY <1>1 DEF IndexOK, TypeOK
  <2>2. entries' \in Seq(Entry) /\ Indexes(by_id, entries')
    BY <2>1, UpdatedIndex
  <2> QED BY <2>1, <2>2 DEF IndexOK
<1>3. /\ rx' \in [Waiters -> Receivers]
      /\ \A w \in Waiters : rx'[w].on = rx[w].on
  BY <1>1, PublishKeepsReceivers
<1>4. TypeOK'
  BY <1>1, <1>2, <1>3 DEF TypeOK, waitVars
<1>5. AnswersBelong'
  <2>1. \A j \in 1..Len(entries) : entries'[j] = IF j = i THEN e ELSE entries[j]
    BY <1>1 DEF TypeOK
  <2> QED BY <2>1, <1>1, <1>2 DEF AnswersBelong
<1>6. PendingIsEarly' /\ EntryCap'
  BY <1>1, <1>2 DEF PendingIsEarly, EntryCap
<1> QED BY <1>2, <1>4, <1>5, <1>6 DEF LogInv

\* beforeRequestSent for an id the log already holds.
LEMMA RequestAgainKeepsLogInv ==
    ASSUME LogInv, NEW id \in Ids, IngestResentRequest(id)
    PROVE  LogInv'
<1>1. TypeOK'
  <2>1. metrics' \in [Counters -> Nat]
    BY DEF LogInv, TypeOK, IngestResentRequest, Plus, Counters
  <2> QED BY <2>1 DEF LogInv, TypeOK, IngestResentRequest, waitVars
<1>2. IndexOK' /\ AnswersBelong' /\ PendingIsEarly' /\ EntryCap'
  BY
     DEF LogInv, TypeOK, IndexOK, AnswersBelong, PendingIsEarly, EntryCap,
         IngestResentRequest
<1> QED BY <1>1, <1>2 DEF LogInv

\* responseCompleted for an entry of the log.
LEMMA ResponseKeepsLogInv ==
    ASSUME LogInv, NEW id \in Ids, NEW status \in Statuses, IngestResponse(id, status)
    PROVE  LogInv'
<1> DEFINE i == by_id[id]
           e == [entries[i] EXCEPT !.response = [id |-> id, status |-> status]]
<1>1. /\ entries \in Seq(Entry) /\ by_id \in [Ids -> Nat] /\ IndexOK /\ AnswersBelong
      /\ metrics \in [Counters -> Nat]
  BY DEF LogInv, TypeOK
<1>2. i \in 1..Len(entries) /\ entries[i].id = id
  BY <1>1 DEF IndexOK, Indexes, IngestResponse
<1>3. entries[i] \in Entry
  BY <1>1, <1>2
<1>4. /\ e \in Entry
      /\ e.id = entries[i].id
      /\ e.response.id = e.id
      /\ e.error = entries[i].error
  BY <1>2, <1>3 DEF Entry, Response
<1>5. e.error # None => e.error.id = e.id
  BY <1>1, <1>2, <1>4 DEF AnswersBelong
<1>6. /\ entries' = [entries EXCEPT ![i] = e]
      /\ UNCHANGED <<by_id, pending_responses, pending_errors>>
      /\ Publish(e) /\ UNCHANGED waitVars
  BY DEF IngestResponse
<1>7. metrics' \in [Counters -> Nat]
  <2> DEFINE n == IF entries[i].response # None THEN 1 ELSE 0
  <2>1. n \in Nat
    OBVIOUS
  <2>2. metrics' = [metrics EXCEPT !["responses_received"] = @ + 1,
                                   !["duplicate_responses"] = @ + n]
    BY DEF IngestResponse
  <2> HIDE DEF n
  <2> QED BY <1>1, <2>1, <2>2, CountersStayNat, CounterNames
<1> HIDE DEF e, i
<1> QED BY <1>2, <1>4, <1>5, <1>6, <1>7, AnsweredEntry

\* fetchError for an entry of the log.
LEMMA ErrorKeepsLogInv ==
    ASSUME LogInv, NEW id \in Ids, IngestError(id)
    PROVE  LogInv'
<1> DEFINE i == by_id[id]
           e == [entries[i] EXCEPT !.error = [id |-> id]]
<1>1. /\ entries \in Seq(Entry) /\ by_id \in [Ids -> Nat] /\ IndexOK /\ AnswersBelong
      /\ metrics \in [Counters -> Nat]
  BY DEF LogInv, TypeOK
<1>2. i \in 1..Len(entries) /\ entries[i].id = id
  BY <1>1 DEF IndexOK, Indexes, IngestError
<1>3. entries[i] \in Entry
  BY <1>1, <1>2
<1>4. /\ e \in Entry
      /\ e.id = entries[i].id
      /\ e.error.id = e.id
      /\ e.response = entries[i].response
  BY <1>2, <1>3 DEF Entry, FetchError
<1>5. e.response # None => e.response.id = e.id
  BY <1>1, <1>2, <1>4 DEF AnswersBelong
<1>6. /\ entries' = [entries EXCEPT ![i] = e]
      /\ UNCHANGED <<by_id, pending_responses, pending_errors>>
      /\ Publish(e) /\ UNCHANGED waitVars
  BY DEF IngestError
<1>7. metrics' \in [Counters -> Nat]
  <2> DEFINE n == IF entries[i].error # None THEN 1 ELSE 0
  <2>1. n \in Nat
    OBVIOUS
  <2>2. metrics' = [metrics EXCEPT !["errors_received"] = @ + 1,
                                   !["duplicate_errors"] = @ + n]
    BY DEF IngestError
  <2> HIDE DEF n
  <2> QED BY <1>1, <2>1, <2>2, CountersStayNat, CounterNames
<1> HIDE DEF e, i
<1> QED BY <1>2, <1>4, <1>5, <1>6, <1>7, AnsweredEntry

\* responseCompleted for a request the log does not hold.
LEMMA EarlyResponseKeepsLogInv ==
    ASSUME LogInv, NEW id \in Ids, NEW status \in Statuses,
           NEW dropped \in SUBSET Ids, IngestEarlyResponse(id, status, dropped)
    PROVE  LogInv'
<1>1. TypeOK /\ IndexOK /\ AnswersBelong /\ PendingIsEarly /\ EntryCap
  BY DEF LogInv
<1>2. Cardinality(dropped) \in Nat
  BY IdsAssumption, FS_Subset, FS_CardinalityType
<1>3. [id |-> id, status |-> status] \in Response
  BY DEF Response
<1>4. pending_responses' = [j \in Ids |-> IF j = id THEN [id |-> id, status |-> status]
                                         ELSE IF j \in dropped THEN None
                                         ELSE pending_responses[j]]
  BY DEF IngestEarlyResponse, Stashed
<1>5. TypeOK'
  <2>1. metrics' \in [Counters -> Nat]
    <3>1. metrics' = [metrics EXCEPT !["responses_received"] = @ + 1,
                                     !["pending_responses_dropped"] = @ + Cardinality(dropped)]
      BY DEF IngestEarlyResponse
    <3> QED BY <1>1, <1>2, <3>1, CountersStayNat, CounterNames DEF TypeOK
  <2>2. pending_responses' \in [Ids -> Response \union {None}]
    BY <1>1, <1>3, <1>4 DEF TypeOK
  <2> QED BY <1>1, <2>1, <2>2 DEF TypeOK, IngestEarlyResponse, waitVars
<1>6. IndexOK' /\ EntryCap'
  BY <1>1 DEF IndexOK, EntryCap, IngestEarlyResponse
<1>7. AnswersBelong'
  BY <1>1, <1>4 DEF AnswersBelong, IngestEarlyResponse
<1>8. PendingIsEarly'
  BY <1>1, <1>4 DEF PendingIsEarly, IngestEarlyResponse
<1> QED BY <1>5, <1>6, <1>7, <1>8 DEF LogInv

\* fetchError for a request the log does not hold.
LEMMA EarlyErrorKeepsLogInv ==
    ASSUME LogInv, NEW id \in Ids,
           NEW dropped \in SUBSET Ids, IngestEarlyError(id, dropped)
    PROVE  LogInv'
<1>1. TypeOK /\ IndexOK /\ AnswersBelong /\ PendingIsEarly /\ EntryCap
  BY DEF LogInv
<1>2. Cardinality(dropped) \in Nat
  BY IdsAssumption, FS_Subset, FS_CardinalityType
<1>3. [id |-> id] \in FetchError
  BY DEF FetchError
<1>4. pending_errors' = [j \in Ids |-> IF j = id THEN [id |-> id]
                                      ELSE IF j \in dropped THEN None
                                      ELSE pending_errors[j]]
  BY DEF IngestEarlyError, Stashed
<1>5. TypeOK'
  <2>1. metrics' \in [Counters -> Nat]
    <3>1. metrics' = [metrics EXCEPT !["errors_received"] = @ + 1,
                                     !["pending_errors_dropped"] = @ + Cardinality(dropped)]
      BY DEF IngestEarlyError
    <3> QED BY <1>1, <1>2, <3>1, CountersStayNat, CounterNames DEF TypeOK
  <2>2. pending_errors' \in [Ids -> FetchError \union {None}]
    BY <1>1, <1>3, <1>4 DEF TypeOK
  <2> QED BY <1>1, <2>1, <2>2 DEF TypeOK, IngestEarlyError, waitVars
<1>6. IndexOK' /\ EntryCap'
  BY <1>1 DEF IndexOK, EntryCap, IngestEarlyError
<1>7. AnswersBelong'
  BY <1>1, <1>4 DEF AnswersBelong, IngestEarlyError
<1>8. PendingIsEarly'
  BY <1>1, <1>4 DEF PendingIsEarly, IngestEarlyError
<1> QED BY <1>5, <1>6, <1>7, <1>8 DEF LogInv

\* clear() empties the log and its index together.
LEMMA ClearKeepsLogInv ==
    ASSUME LogInv, Clear
    PROVE  LogInv'
<1>1. TypeOK' /\ IndexOK'
  BY DEF LogInv, TypeOK, IndexOK, Indexes, Clear, waitVars
<1>2. AnswersBelong' /\ PendingIsEarly' /\ EntryCap'
  BY CapsAssumption DEF LogInv, AnswersBelong, PendingIsEarly, EntryCap, Clear
<1> QED BY <1>1, <1>2 DEF LogInv

\* Closing the gap after the removed entry moves the later positions down.
LEMMA RemoveKeepsLogInv ==
    ASSUME LogInv, NEW id \in Ids, RemoveById(id)
    PROVE  LogInv'
<1> DEFINE i == by_id[id]
           n == Len(entries)
           rest == SubSeq(entries, 1, i - 1) \o SubSeq(entries, i + 1, n)
<1>1. /\ entries \in Seq(Entry) /\ by_id \in [Ids -> Nat] /\ n \in Nat
      /\ IndexOK /\ AnswersBelong /\ PendingIsEarly /\ EntryCap /\ TypeOK
  BY DEF LogInv, TypeOK
<1>2. i \in 1..n /\ entries[i].id = id
  BY <1>1 DEF IndexOK, Indexes, RemoveById
<1>3. /\ rest \in Seq(Entry)
      /\ Len(rest) = n - 1
      /\ \A k \in 1..(n - 1) : rest[k] = IF k < i THEN entries[k] ELSE entries[k + 1]
  <2> DEFINE front == SubSeq(entries, 1, i - 1)
             back == SubSeq(entries, i + 1, n)
  <2>1. /\ front \in Seq(Entry) /\ Len(front) = i - 1
        /\ \A k \in 1..(i - 1) : front[k] = entries[k]
    BY <1>1, <1>2
  <2>2. /\ back \in Seq(Entry) /\ Len(back) = n - i
        /\ \A k \in 1..(n - i) : back[k] = entries[k + i]
    BY <1>1, <1>2
  <2> HIDE DEF front, back
  <2>3. /\ front \o back \in Seq(Entry)
        /\ Len(front \o back) = n - 1
        /\ \A k \in 1..(i - 1) : (front \o back)[k] = entries[k]
        /\ \A k \in i..(n - 1) : (front \o back)[k] = back[k - (i - 1)]
    BY <2>1, <2>2, <1>1, <1>2
  <2>4. \A k \in i..(n - 1) : back[k - (i - 1)] = entries[k + 1]
    <3> SUFFICES ASSUME NEW k \in i..(n - 1)
                 PROVE  back[k - (i - 1)] = entries[k + 1]
      OBVIOUS
    <3>1. k - (i - 1) \in 1..(n - i) /\ (k - (i - 1)) + i = k + 1
      BY <1>1, <1>2
    <3> QED BY <3>1, <2>2
  <2>5. \A k \in 1..(n - 1) :
           (front \o back)[k] = IF k < i THEN entries[k] ELSE entries[k + 1]
    <3> SUFFICES ASSUME NEW k \in 1..(n - 1)
                 PROVE  (front \o back)[k] = IF k < i THEN entries[k] ELSE entries[k + 1]
      OBVIOUS
    <3>1. CASE k < i
      <4>1. k \in 1..(i - 1)
        BY <3>1, <1>1, <1>2
      <4>2. (front \o back)[k] = entries[k]
        BY <4>1, <2>3
      <4> QED BY <3>1, <4>2
    <3>2. CASE ~(k < i)
      BY <3>2, <2>3, <2>4, <1>1, <1>2
    <3> QED BY <3>1, <3>2
  <2>6. rest = front \o back
    BY DEF front, back
  <2> HIDE DEF rest
  <2> QED BY <2>3, <2>5, <2>6
<1>4. /\ entries' = rest
      /\ by_id' = [j \in Ids |-> IF j = id THEN 0
                                 ELSE IF \E k \in i..Len(rest) : rest[k].id = j
                                      THEN LastAt(rest, i, j)
                                      ELSE by_id[j]]
      /\ UNCHANGED <<pending_responses, pending_errors, metrics, rx>>
      /\ UNCHANGED waitVars
  BY DEF RemoveById
<1> HIDE DEF i, n, rest
<1>5. \A e \in Entry : e.id \in Ids
  BY DEF Entry
<1>6. \A k \in 1..n : entries[k].id \in Ids /\ by_id[entries[k].id] = k
  BY <1>1, <1>5 DEF IndexOK, Indexes, n
<1>7. ASSUME NEW k \in i..(n - 1)
      PROVE  LastAt(rest, i, rest[k].id) = k
  <2>1. rest[k] = entries[k + 1] /\ k + 1 \in 1..n
    BY <1>1, <1>2, <1>3
  <2>2. \A h \in i..(n - 1) : rest[h].id = rest[k].id => h = k
    <3> SUFFICES ASSUME NEW h \in i..(n - 1), rest[h].id = rest[k].id
                 PROVE  h = k
      OBVIOUS
    <3>1. rest[h] = entries[h + 1] /\ h + 1 \in 1..n
      BY <1>1, <1>2, <1>3
    <3>2. h + 1 = k + 1
      BY <2>1, <3>1, <1>6
    <3> QED BY <3>2, <1>1, <1>2
  <2>3. \A h \in (k + 1)..Len(rest) : rest[h].id # rest[k].id
    BY <2>2, <1>1, <1>2, <1>3
  <2> QED BY <2>2, <2>3, <1>3 DEF LastAt
<1>8. ASSUME NEW j \in Ids, j # id, NEW k \in i..(n - 1), rest[k].id = j
      PROVE  by_id'[j] = k
  BY <1>3, <1>4, <1>7, <1>8
<1>9. ASSUME NEW j \in Ids, j # id, ~ \E k \in i..(n - 1) : rest[k].id = j
      PROVE  by_id'[j] = by_id[j] /\ by_id[j] < i
  <2>1. by_id'[j] = by_id[j]
    BY <1>3, <1>4, <1>9
  <2>2. ASSUME ~(by_id[j] < i)
        PROVE  FALSE
    <3>1. by_id[j] \in 1..n /\ entries[by_id[j]].id = j
      BY <2>2, <1>1, <1>2 DEF IndexOK, Indexes, n
    <3>2. by_id[j] # i
      BY <3>1, <1>2, <1>9
    <3>3. by_id[j] - 1 \in i..(n - 1)
      BY <2>2, <3>1, <3>2, <1>1, <1>2
    <3>4. rest[by_id[j] - 1] = entries[by_id[j]]
      BY <3>1, <3>3, <1>1, <1>2, <1>3
    <3> QED BY <3>1, <3>3, <3>4, <1>9
  <2> QED BY <2>1, <2>2
<1>10. by_id'[id] = 0
  BY <1>4
<1>11. by_id' \in [Ids -> Nat]
  <2>1. \A j \in Ids : by_id'[j] \in Nat
    BY <1>1, <1>2, <1>8, <1>9, <1>10
  <2> QED BY <2>1, <1>4
<1>12. IndexOK'
  <2>1. ASSUME NEW j \in Ids, by_id'[j] # 0
        PROVE  by_id'[j] <= Len(rest) /\ rest[by_id'[j]].id = j
    <3>1. j # id
      BY <2>1, <1>10
    <3>2. CASE \E k \in i..(n - 1) : rest[k].id = j
      BY <3>1, <3>2, <1>1, <1>2, <1>3, <1>8
    <3>3. CASE ~ \E k \in i..(n - 1) : rest[k].id = j
      <4>1. by_id'[j] = by_id[j] /\ by_id[j] < i
        BY <3>1, <3>3, <1>9
      <4>2. by_id[j] \in 1..n /\ entries[by_id[j]].id = j
        BY <4>1, <2>1, <1>1 DEF IndexOK, Indexes, n
      <4> QED BY <4>1, <4>2, <1>1, <1>2, <1>3
    <3> QED BY <3>2, <3>3
  <2>2. ASSUME NEW k \in 1..Len(rest)
        PROVE  by_id'[rest[k].id] = k
    <3>1. CASE k \in i..(n - 1)
      <4>1. rest[k] = entries[k + 1] /\ k + 1 \in 1..n
        BY <3>1, <1>1, <1>2, <1>3
      <4>2. rest[k].id \in Ids /\ rest[k].id # id
        BY <4>1, <3>1, <1>2, <1>6
      <4> QED BY <4>2, <3>1, <1>8
    <3>2. CASE k < i
      <4>1. rest[k] = entries[k] /\ k \in 1..n
        BY <3>2, <1>1, <1>2, <1>3
      <4>2. rest[k].id \in Ids /\ rest[k].id # id /\ by_id[rest[k].id] = k
        BY <4>1, <3>2, <1>2, <1>6
      <4>3. ~ \E h \in i..(n - 1) : rest[h].id = rest[k].id
        <5> SUFFICES ASSUME NEW h \in i..(n - 1), rest[h].id = rest[k].id PROVE FALSE
          OBVIOUS
        <5>1. rest[h] = entries[h + 1] /\ h + 1 \in 1..n
          BY <1>1, <1>2, <1>3
        <5>2. h + 1 = k
          BY <5>1, <4>2, <1>6
        <5> QED BY <5>2, <3>2, <1>1, <1>2
      <4> QED BY <4>2, <4>3, <1>9
    <3> QED BY <3>1, <3>2, <1>1, <1>2, <1>3
  <2> QED BY <2>1, <2>2, <1>4 DEF IndexOK, Indexes
<1>13. TypeOK'
  BY <1>1, <1>3, <1>4, <1>11 DEF TypeOK, waitVars
<1>14. AnswersBelong'
  <2>1. ASSUME NEW k \in 1..Len(rest)
        PROVE  /\ rest[k].response # None => rest[k].response.id = rest[k].id
               /\ rest[k].error # None => rest[k].error.id = rest[k].id
    <3>1. \E h \in 1..n : rest[k] = entries[h]
      BY <1>1, <1>2, <1>3
    <3> QED BY <3>1, <1>1 DEF AnswersBelong, n
  <2> QED BY <2>1, <1>1, <1>4 DEF AnswersBelong
<1>15. PendingIsEarly'
  <2> SUFFICES ASSUME NEW j \in Ids, by_id'[j] # 0
               PROVE  by_id[j] # 0
    BY <1>1, <1>4 DEF PendingIsEarly
  <2>1. j # id
    BY <1>10
  <2>2. CASE \E k \in i..(n - 1) : rest[k].id = j
    <3>1. PICK k \in i..(n - 1) : rest[k].id = j
      BY <2>2
    <3>2. rest[k] = entries[k + 1] /\ k + 1 \in 1..n
      BY <3>1, <1>1, <1>2, <1>3
    <3>3. by_id[j] = k + 1
      BY <3>1, <3>2, <1>6
    <3> QED BY <3>3, <1>1, <1>2
  <2>3. CASE ~ \E k \in i..(n - 1) : rest[k].id = j
    BY <2>1, <2>3, <1>9
  <2> QED BY <2>2, <2>3
<1>16. EntryCap'
  BY <1>1, <1>3, <1>4, CapsAssumption DEF EntryCap, n
<1> QED BY <1>12, <1>13, <1>14, <1>15, <1>16, <1>1 DEF LogInv

\* A bulk filter keeps a subsequence and rebuilds the map.
LEMMA RetainKeepsLogInv ==
    ASSUME LogInv, NEW kept \in Kept, Retain(kept)
    PROVE  LogInv'
<1> DEFINE es == [k \in DOMAIN kept |-> entries[kept[k]]]
<1>1. /\ entries \in Seq(Entry) /\ by_id \in [Ids -> Nat]
      /\ IndexOK /\ AnswersBelong /\ PendingIsEarly /\ EntryCap /\ TypeOK
  BY DEF LogInv, TypeOK
<1>2. PICK n \in 0..Len(entries) : kept \in [1..n -> 1..Len(entries)]
  BY DEF Kept
<1>3. /\ es \in Seq(Entry)
      /\ Len(es) = n
      /\ \A k \in 1..n : kept[k] \in 1..Len(entries) /\ es[k] = entries[kept[k]]
  <2>1. DOMAIN kept = 1..n
    BY <1>2
  <2>2. es \in [1..n -> Entry]
    BY <2>1, <1>1, <1>2
  <2> QED BY <1>2, <2>1, <2>2
<1>4. /\ entries' = es /\ by_id' = IndexOf(es)
      /\ \A a, b \in DOMAIN kept : a < b => kept[a] < kept[b]
      /\ UNCHANGED <<pending_responses, pending_errors, metrics, rx>>
      /\ UNCHANGED waitVars
  BY DEF Retain
<1> HIDE DEF es
<1>5. Unique(es)
  <2> SUFFICES ASSUME NEW a \in 1..n, NEW b \in 1..n, es[a].id = es[b].id
               PROVE  a = b
    BY <1>3 DEF Unique
  <2>1. Unique(entries)
    BY <1>1, IndexedIsUnique DEF IndexOK
  <2>2. kept[a] = kept[b]
    BY <2>1, <1>3 DEF Unique
  <2>3. DOMAIN kept = 1..n
    BY <1>2
  <2>4. ~(a < b) /\ ~(b < a)
    BY <2>2, <2>3, <1>3, <1>4
  <2> QED BY <2>4
<1>6. by_id' \in [Ids -> Nat] /\ IndexOK'
  BY <1>3, <1>4, <1>5, RebuiltIndex DEF IndexOK
<1>7. TypeOK'
  BY <1>1, <1>3, <1>4, <1>6 DEF TypeOK, waitVars
<1>8. AnswersBelong'
  BY <1>1, <1>3, <1>4 DEF AnswersBelong
<1>9. PendingIsEarly'
  <2> SUFFICES ASSUME NEW id \in Ids, by_id'[id] # 0
               PROVE  by_id[id] # 0
    BY <1>1, <1>4 DEF PendingIsEarly
  <2>1. by_id'[id] \in 1..n /\ es[by_id'[id]].id = id
    BY <1>3, <1>4, <1>6 DEF IndexOK, Indexes
  <2>2. PICK h \in 1..Len(entries) : entries[h].id = id
    BY <2>1, <1>3
  <2>3. by_id[id] = h
    BY <2>2, <1>1 DEF IndexOK, Indexes
  <2> QED BY <2>3
<1>10. EntryCap'
  BY <1>1, <1>2, <1>3, <1>4, CapsAssumption DEF EntryCap
<1> QED BY <1>6, <1>7, <1>8, <1>9, <1>10 DEF LogInv

\* drain_pending() empties the two tables of early answers only.
LEMMA DrainKeepsLogInv ==
    ASSUME LogInv, DrainPending
    PROVE  LogInv'
<1>1. TypeOK' /\ IndexOK'
  BY DEF LogInv, TypeOK, IndexOK, DrainPending, waitVars
<1>2. AnswersBelong' /\ PendingIsEarly' /\ EntryCap'
  BY DEF LogInv, AnswersBelong, PendingIsEarly, EntryCap, DrainPending
<1> QED BY <1>1, <1>2 DEF LogInv

-----------------------------------------------------------------------------
(* The waits touch only their own receivers *)

\* What a look at the log finds is an entry that the wait accepts, and a look
\* that finds nothing means that the log holds none.
LEMMA SeenIsMatching ==
    ASSUME LogInv, NEW k \in Wants
    PROVE  /\ Seen(k) \subseteq Entry
           /\ \A e \in Seen(k) : Matches(e, k)
           /\ Seen(k) = {} => \A i \in 1..Len(entries) : ~Matches(entries[i], k)
<1>1. /\ entries \in Seq(Entry) /\ by_id \in [Ids -> Nat] /\ IndexOK
      /\ \A e \in Entry : e.id \in Ids
  BY DEF LogInv, TypeOK, Entry
<1>2. CASE k.kind = "response" /\ k.key \in Ids
  <2>1. by_id[k.key] # 0 => /\ by_id[k.key] \in 1..Len(entries)
                            /\ entries[by_id[k.key]].id = k.key
    BY <1>1, <1>2 DEF IndexOK, Indexes
  <2>2. Seen(k) = IF by_id[k.key] # 0 /\ HasAnswer(entries[by_id[k.key]])
                  THEN {entries[by_id[k.key]]} ELSE {}
    BY <1>2 DEF Seen
  <2>3. \A i \in 1..Len(entries) : entries[i].id = k.key => by_id[k.key] = i
    BY <1>1 DEF IndexOK, Indexes
  <2>4. Seen(k) \subseteq Entry
    BY <1>1, <2>1, <2>2
  <2>5. \A e \in Seen(k) : Matches(e, k)
    BY <1>2, <2>1, <2>2 DEF Matches
  <2>6. Seen(k) = {} => \A i \in 1..Len(entries) : ~Matches(entries[i], k)
    <3> SUFFICES ASSUME NEW i \in 1..Len(entries), Matches(entries[i], k)
                 PROVE  Seen(k) # {}
      OBVIOUS
    <3>1. entries[i].id = k.key /\ HasAnswer(entries[i])
      BY <1>2 DEF Matches
    <3>2. by_id[k.key] = i /\ i # 0
      BY <2>3, <3>1
    <3> QED BY <2>2, <3>1, <3>2
  <2> QED BY <2>4, <2>5, <2>6
<1>3. CASE k.kind = "url"
  <2> DEFINE hits == {j \in 1..Len(entries) : entries[j].url = k.key}
  <2>1. Seen(k) = {entries[i] : i \in {j \in 1..Len(entries) :
                      /\ entries[j].url = k.key
                      /\ \A h \in 1..(j - 1) : entries[h].url # k.key}}
    BY <1>3 DEF Seen
  <2>2. Seen(k) \subseteq Entry
    BY <1>1, <2>1
  <2>3. \A e \in Seen(k) : Matches(e, k)
    BY <1>3, <2>1 DEF Matches
  <2>4. ASSUME hits # {}
        PROVE  Seen(k) # {}
    <3>1. hits \subseteq Nat
      OBVIOUS
    <3>2. PICK j \in hits : \A h \in hits : j <= h
      BY <2>4, <3>1, SmallestOfNats
    <3>3. \A h \in 1..(j - 1) : entries[h].url # k.key
      BY <3>2
    <3> QED BY <2>1, <3>2, <3>3
  <2>5. Seen(k) = {} => \A i \in 1..Len(entries) : ~Matches(entries[i], k)
    BY <1>3, <2>4 DEF Matches
  <2> QED BY <2>2, <2>3, <2>5
<1> QED BY <1>2, <1>3 DEF Wants

\* A wait always waits for something.
LEMMA WantsAreSome == \A k \in Wants : k # None
BY NoneAssumption DEF Wants

\* A wait's steps leave the log alone and keep its own state well typed.
LEMMA WaitKeepsLogInv ==
    ASSUME LogInv, NEW w \in Waiters, Wait(w)
    PROVE  LogInv'
<1>1. TypeOK
  BY DEF LogInv
<1>2. UNCHANGED logVars /\ UNCHANGED metrics
  BY DEF Wait, Subscribe, CheckHit, CheckMiss, Recv, Return, Lag, Timeout
<1>3. NoReceiver \in Receivers /\ Listening \in Receivers /\ Listening.on
  BY DEF NoReceiver, Listening, Receivers
<1>4. ASSUME NEW e \in Entry \union {None}, Return(w, e)
      PROVE  TypeOK'
  BY <1>1, <1>2, <1>3, <1>4 DEF TypeOK, Return, logVars
<1>5. TypeOK'
  <2>5. CASE Subscribe(w)
    <3>1. PICK k \in Wants : want' = [want EXCEPT ![w] = k]
      BY <2>5 DEF Subscribe
    <3>2. k # None
      BY WantsAreSome
    <3> QED BY <1>1, <1>2, <1>3, <2>5, <3>1, <3>2 DEF TypeOK, Subscribe, logVars
  <2>6. CASE CheckHit(w)
    <3>1. want[w] \in Wants
      BY <1>1, <2>6 DEF TypeOK, CheckHit
    <3>2. \E e \in Entry : Return(w, e)
      BY <2>6, <3>1, SeenIsMatching DEF CheckHit
    <3> QED BY <3>2, <1>4
  <2>7. CASE CheckMiss(w)
    BY <1>1, <1>2, <2>7 DEF TypeOK, CheckMiss, logVars
  <2>8. CASE Recv(w)
    <3> DEFINE e == Head(rx[w].queue)
    <3>1. rx[w] \in Receivers /\ rx[w].queue \in Seq(Entry) /\ rx[w].queue # <<>>
      BY <1>1, <2>8 DEF TypeOK, Recv, Receivers
    <3>2. e \in Entry /\ Tail(rx[w].queue) \in Seq(Entry)
      BY <3>1
    <3>3. CASE Return(w, e)
      BY <3>2, <3>3, <1>4
    <3>4. CASE rx' = [rx EXCEPT ![w].queue = Tail(@)] /\ UNCHANGED waitVars
      <4>1. rx' = [rx EXCEPT ![w] = [rx[w] EXCEPT !.queue = Tail(@)]]
        BY <3>4
      <4>2. [rx[w] EXCEPT !.queue = Tail(@)] \in Receivers
        BY <3>1, <3>2 DEF Receivers
      <4>3. [rx[w] EXCEPT !.queue = Tail(@)].on = rx[w].on
        BY <3>1 DEF Receivers
      <4>4. rx' \in [Waiters -> Receivers]
        BY <1>1, <4>1, <4>2 DEF TypeOK
      <4>5. \A v \in Waiters : rx'[v].on = rx[v].on
        BY <1>1, <4>1, <4>3 DEF TypeOK
      <4> QED BY <1>1, <1>2, <3>4, <4>4, <4>5 DEF TypeOK, logVars, waitVars
    <3> QED BY <2>8, <3>3, <3>4 DEF Recv
  <2>9. CASE Lag(w) \/ Timeout(w)
    BY <1>4, <2>9 DEF Lag, Timeout
  <2> QED BY <2>5, <2>6, <2>7, <2>8, <2>9 DEF Wait
<1>6. IndexOK' /\ AnswersBelong' /\ PendingIsEarly' /\ EntryCap'
  BY <1>2 DEF LogInv, IndexOK, AnswersBelong, PendingIsEarly, EntryCap, logVars
<1> QED BY <1>5, <1>6 DEF LogInv

\* A step that changes nothing keeps the invariant.
LEMMA StutterKeepsLogInv ==
    ASSUME LogInv, UNCHANGED vars
    PROVE  LogInv'
<1>1. TypeOK'
  BY DEF LogInv, TypeOK, vars
<1>2. IndexOK' /\ AnswersBelong' /\ PendingIsEarly' /\ EntryCap'
  BY DEF LogInv, IndexOK, AnswersBelong, PendingIsEarly, EntryCap, vars
<1> QED BY <1>1, <1>2 DEF LogInv

\* The invariant of the log, and with it the index, the ownership of answers
\* and the disjointness of the early answers from the log.
THEOREM LogInvariant == Spec => []LogInv
<1>1. Init => LogInv
  BY InitLogInv
<1>2. LogInv /\ [Next]_vars => LogInv'
  <2> SUFFICES ASSUME LogInv, [Next]_vars
               PROVE  LogInv'
    OBVIOUS
  <2>1. CASE Ingest
    BY <2>1, RequestKeepsLogInv, RequestAgainKeepsLogInv, ResponseKeepsLogInv,
       ErrorKeepsLogInv, EarlyResponseKeepsLogInv, EarlyErrorKeepsLogInv DEF Ingest
  <2>2. CASE Call
    BY <2>2, ClearKeepsLogInv, RemoveKeepsLogInv, RetainKeepsLogInv,
       DrainKeepsLogInv
       DEF Call
  <2>3. CASE \E w \in Waiters : Wait(w)
    BY <2>3, WaitKeepsLogInv
  <2>4. CASE UNCHANGED vars
    BY <2>4, StutterKeepsLogInv
  <2> QED BY <2>1, <2>2, <2>3, <2>4 DEF Next
<1> QED BY <1>1, <1>2, PTL DEF Spec

\* The state has its types (network.rs, Inner and the two waits).
THEOREM TypeCorrect == Spec => []TypeOK
BY LogInvariant, PTL DEF LogInv

\* The index always finds each entry at its place, and nothing else.
THEOREM IndexCorrect == Spec => []IndexOK
BY LogInvariant, PTL DEF LogInv

\* No answer is ever filed under, or kept for, another request.
THEOREM AnswersCorrect == Spec => []AnswersBelong
BY LogInvariant, PTL DEF LogInv

\* Early answers exist only for requests the log does not hold.
THEOREM EarlyCorrect == Spec => []PendingIsEarly
BY LogInvariant, PTL DEF LogInv

-----------------------------------------------------------------------------
(* No lost wakeup *)

\* A receiver that has not lagged got the entry at the end of its queue.
LEMMA PublishDelivers ==
    ASSUME TypeOK, NEW e \in Entry, Publish(e), NEW w \in Waiters, rx[w].on,
           ~rx'[w].lagged
    PROVE  /\ ~rx[w].lagged
           /\ rx[w].queue \in Seq(Entry)
           /\ rx'[w].queue = Append(rx[w].queue, e)
<1>1. rx[w] \in Receivers
  BY DEF TypeOK
<1>2. CASE Len(rx[w].queue) < Capacity
  BY <1>1, <1>2 DEF Publish, Enqueue, Receivers
<1>3. CASE ~(Len(rx[w].queue) < Capacity)
  BY <1>1, <1>3 DEF Publish, Overrun
<1> QED BY <1>2, <1>3

\* A step that publishes the one entry it adds or changes.
LEMMA PublishingKeepsWakeup ==
    ASSUME LogInv, NoLostWakeup, NEW e \in Entry, Publish(e), UNCHANGED waitVars,
           \A i \in 1..Len(entries') :
              entries'[i] = e \/ \E j \in 1..Len(entries) : entries'[i] = entries[j]
    PROVE  NoLostWakeup'
<1>1. TypeOK
  BY DEF LogInv
<1> SUFFICES ASSUME NEW w \in Waiters, pc'[w] = "recv", ~rx'[w].lagged,
                    NEW i \in 1..Len(entries'), Matches(entries'[i], want'[w])
             PROVE  \E j \in 1..Len(rx'[w].queue) : Matches(rx'[w].queue[j], want'[w])
  BY DEF NoLostWakeup
<1>2. pc[w] = "recv" /\ want'[w] = want[w]
  BY DEF waitVars
<1>3. rx[w].on
  BY <1>1, <1>2 DEF TypeOK
<1>4. /\ ~rx[w].lagged
      /\ rx[w].queue \in Seq(Entry)
      /\ rx'[w].queue = Append(rx[w].queue, e)
  BY <1>1, <1>3, PublishDelivers
<1>5. /\ Len(rx'[w].queue) = Len(rx[w].queue) + 1
      /\ rx'[w].queue[Len(rx[w].queue) + 1] = e
      /\ \A j \in 1..Len(rx[w].queue) : rx'[w].queue[j] = rx[w].queue[j]
      /\ Len(rx[w].queue) \in Nat
  BY <1>4
<1>6. CASE entries'[i] = e
  BY <1>2, <1>5, <1>6
<1>7. CASE \E j \in 1..Len(entries) : entries'[i] = entries[j]
  <2>1. \E j \in 1..Len(rx[w].queue) : Matches(rx[w].queue[j], want[w])
    BY <1>2, <1>4, <1>7 DEF NoLostWakeup
  <2> QED BY <2>1, <1>2, <1>5
<1> QED BY <1>6, <1>7

\* A step that only takes entries away.
LEMMA ForgettingKeepsWakeup ==
    ASSUME NoLostWakeup, UNCHANGED <<rx, pc, want>>,
           \A i \in 1..Len(entries') : \E j \in 1..Len(entries) : entries'[i] = entries[j]
    PROVE  NoLostWakeup'
BY DEF NoLostWakeup

\* A new request adds one entry, the others were there.
LEMMA RequestOnlyAdds ==
    ASSUME LogInv, NEW id \in Ids, NEW url \in Urls, IngestRequest(id, url)
    PROVE  \A i \in 1..Len(entries') :
              \/ entries'[i] = Requested(id, url)
              \/ \E j \in 1..Len(entries) : entries'[i] = entries[j]
<1>0. /\ TypeOK /\ IndexOK /\ entries \in Seq(Entry)
  BY DEF LogInv, TypeOK
<1> DEFINE e == Requested(id, url)
<1>1. e \in Entry
  BY RequestedEntry
<1>2. entries' = Append(Survivors, e) /\ Publish(e) /\ UNCHANGED waitVars
  BY DEF IngestRequest
<1>3. /\ Survivors \in Seq(Entry)
      /\ Surplus \in 0..Len(entries)
      /\ Len(Survivors) = Len(entries) - Surplus
      /\ \A i \in 1..Len(Survivors) : Survivors[i] = entries[i + Surplus]
  BY <1>0, EvictionKeepsIndex
<1> HIDE DEF e
<1>5. /\ Len(Survivors) \in Nat
      /\ Len(entries') = Len(Survivors) + 1
      /\ entries'[Len(Survivors) + 1] = e
  <2>1. Len(Survivors) \in Nat
    BY <1>3
  <2>2. Len(Append(Survivors, e)) = Len(Survivors) + 1
    BY <1>1, <1>3
  <2>3. Append(Survivors, e)[Len(Survivors) + 1] = e
    BY <1>1, <1>3, <2>1, <2>2
  <2> QED BY <2>1, <2>2, <2>3, <1>2
<1>4. ASSUME NEW i \in 1..Len(entries')
      PROVE  entries'[i] = e \/ \E j \in 1..Len(entries) : entries'[i] = entries[j]
  <2>1. CASE i = Len(Survivors) + 1
    BY <1>5, <2>1
  <2>2. CASE i \in 1..Len(Survivors)
    <3>1. i + Surplus \in 1..Len(entries)
      BY <1>0, <1>3, <2>2
    <3>2. entries'[i] = entries[i + Surplus]
      BY <1>1, <1>2, <1>3, <2>2
    <3> QED BY <3>1, <3>2
  <2>3. i = Len(Survivors) + 1 \/ i \in 1..Len(Survivors)
    BY <1>5
  <2> QED BY <2>1, <2>2, <2>3
<1> QED BY <1>4 DEF e

\* Each ingestion either changes no entry or publishes the one it changes.
LEMMA IngestKeepsWakeup ==
    ASSUME LogInv, NoLostWakeup, Ingest
    PROVE  NoLostWakeup'
<1>1. /\ TypeOK /\ IndexOK /\ entries \in Seq(Entry) /\ by_id \in [Ids -> Nat]
  BY DEF LogInv, TypeOK
<1>2. ASSUME NEW id \in Ids, NEW url \in Urls, IngestRequest(id, url)
      PROVE  NoLostWakeup'
  <2>1. Requested(id, url) \in Entry
    BY RequestedEntry
  <2>2. Publish(Requested(id, url)) /\ UNCHANGED waitVars
    BY <1>2 DEF IngestRequest
  <2> QED BY <1>2, <2>1, <2>2, RequestOnlyAdds, PublishingKeepsWakeup
<1>3. ASSUME NEW i \in 1..Len(entries), NEW e \in Entry,
             entries' = [entries EXCEPT ![i] = e], Publish(e), UNCHANGED waitVars
      PROVE  NoLostWakeup'
  <2>1. \A j \in 1..Len(entries') : entries'[j] = e \/ entries'[j] = entries[j]
    BY <1>1, <1>3
  <2>2. Len(entries') = Len(entries)
    BY <1>1, <1>3
  <2>3. \A j \in 1..Len(entries') :
           entries'[j] = e \/ \E h \in 1..Len(entries) : entries'[j] = entries[h]
    BY <2>1, <2>2
  <2> QED BY <1>3, <2>3, PublishingKeepsWakeup
<1>4. ASSUME NEW id \in Ids, NEW status \in Statuses, IngestResponse(id, status)
      PROVE  NoLostWakeup'
  <2>1. by_id[id] \in 1..Len(entries)
    BY <1>1, <1>4 DEF IndexOK, Indexes, IngestResponse
  <2>2. [entries[by_id[id]] EXCEPT !.response = [id |-> id, status |-> status]] \in Entry
    <3>1. entries[by_id[id]] \in Entry
      BY <1>1, <2>1
    <3> QED BY <3>1 DEF Entry, Response
  <2> QED BY <2>1, <2>2, <1>3, <1>4 DEF IngestResponse
<1>5. ASSUME NEW id \in Ids, IngestError(id)
      PROVE  NoLostWakeup'
  <2>1. by_id[id] \in 1..Len(entries)
    BY <1>1, <1>5 DEF IndexOK, Indexes, IngestError
  <2>2. [entries[by_id[id]] EXCEPT !.error = [id |-> id]] \in Entry
    <3>1. entries[by_id[id]] \in Entry
      BY <1>1, <2>1
    <3> QED BY <3>1 DEF Entry, FetchError
  <2> QED BY <2>1, <2>2, <1>3, <1>5 DEF IngestError
<1>6. ASSUME UNCHANGED <<entries, rx>>, UNCHANGED waitVars
      PROVE  NoLostWakeup'
  BY <1>6 DEF NoLostWakeup, waitVars
<1>7. ASSUME NEW id \in Ids, IngestResentRequest(id)
      PROVE  NoLostWakeup'
  BY <1>6, <1>7 DEF IngestResentRequest
<1>8. ASSUME NEW id \in Ids, NEW status \in Statuses, NEW dropped \in SUBSET Ids,
             IngestEarlyResponse(id, status, dropped)
      PROVE  NoLostWakeup'
  BY <1>6, <1>8 DEF IngestEarlyResponse
<1>9. ASSUME NEW id \in Ids, NEW dropped \in SUBSET Ids, IngestEarlyError(id, dropped)
      PROVE  NoLostWakeup'
  BY <1>6, <1>9 DEF IngestEarlyError
<1> QED BY <1>2, <1>4, <1>5, <1>7, <1>8, <1>9 DEF Ingest

\* What a caller removes from the log leaves only entries that were there.
LEMMA CallOnlyRemoves ==
    ASSUME LogInv, Call
    PROVE  \A k \in 1..Len(entries') : \E j \in 1..Len(entries) : entries'[k] = entries[j]
<1>1. entries \in Seq(Entry) /\ by_id \in [Ids -> Nat] /\ IndexOK
  BY DEF LogInv, TypeOK
<1>2. CASE Clear
  BY <1>2 DEF Clear
<1>3. ASSUME NEW id \in Ids, RemoveById(id)
      PROVE  \A k \in 1..Len(entries') : \E j \in 1..Len(entries) : entries'[k] = entries[j]
  <2> DEFINE i == by_id[id]
  <2>1. i \in 1..Len(entries)
    BY <1>1, <1>3 DEF IndexOK, Indexes, RemoveById
  <2>2. entries' = SubSeq(entries, 1, i - 1) \o SubSeq(entries, i + 1, Len(entries))
    BY <1>3 DEF RemoveById
  <2>3. ASSUME NEW k \in 1..Len(entries')
        PROVE  \E j \in 1..Len(entries) : entries'[k] = entries[j]
    <3> DEFINE front == SubSeq(entries, 1, i - 1)
               back == SubSeq(entries, i + 1, Len(entries))
    <3>1. /\ front \in Seq(Entry) /\ Len(front) = i - 1
          /\ \A j \in 1..(i - 1) : front[j] = entries[j]
      BY <1>1, <2>1
    <3>2. /\ back \in Seq(Entry) /\ Len(back) = Len(entries) - i
          /\ \A j \in 1..(Len(entries) - i) : back[j] = entries[j + i]
      BY <1>1, <2>1
    <3>3. entries' = front \o back
      BY <2>2
    <3> HIDE DEF front, back, i
    <3>4. CASE k \in 1..(i - 1)
      <4>1. entries'[k] = front[k]
        BY <3>1, <3>2, <3>3, <3>4
      <4> QED BY <4>1, <3>1, <3>4, <1>1, <2>1
    <3>5. CASE ~(k \in 1..(i - 1))
      <4>1. /\ k - (i - 1) \in 1..(Len(entries) - i)
            /\ entries'[k] = back[k - (i - 1)]
        BY <3>1, <3>2, <3>3, <3>5, <1>1, <2>1
      <4>2. (k - (i - 1)) + i \in 1..Len(entries)
        BY <4>1, <1>1, <2>1
      <4> QED BY <4>1, <4>2, <3>2
    <3> QED BY <3>4, <3>5
  <2> QED BY <2>3
<1>4. ASSUME NEW kept \in Kept, Retain(kept)
      PROVE  \A k \in 1..Len(entries') : \E j \in 1..Len(entries) : entries'[k] = entries[j]
  <2>1. PICK n \in 0..Len(entries) : kept \in [1..n -> 1..Len(entries)]
    BY DEF Kept
  <2>2. entries' = [k \in 1..n |-> entries[kept[k]]]
    BY <1>4, <2>1 DEF Retain
  <2> QED BY <2>1, <2>2
<1>5. CASE DrainPending
  BY <1>1, <1>5 DEF DrainPending
<1> QED BY <1>2, <1>3, <1>4, <1>5 DEF Call

\* No caller adds an entry, so no caller makes an answer a waiter has not seen.
LEMMA CallKeepsWakeup ==
    ASSUME LogInv, NoLostWakeup, Call
    PROVE  NoLostWakeup'
<1>1. UNCHANGED <<rx, pc, want>>
  BY DEF Call, Clear, RemoveById, Retain, DrainPending, waitVars
<1> QED BY <1>1, CallOnlyRemoves, ForgettingKeepsWakeup

\* A wait's own steps: a look that finds nothing leaves nothing to find, and a
\* received entry is let go of only when it is not what the wait is for.
LEMMA WaitKeepsWakeup ==
    ASSUME LogInv, NoLostWakeup, NEW w \in Waiters, Wait(w)
    PROVE  NoLostWakeup'
<1>1. /\ TypeOK /\ entries \in Seq(Entry)
      /\ pc \in [Waiters -> {"idle", "check", "recv"}]
      /\ rx \in [Waiters -> Receivers]
      /\ want \in [Waiters -> Wants \union {None}]
  BY DEF LogInv, TypeOK
<1>2. UNCHANGED entries
  BY DEF Wait, Subscribe, CheckHit, CheckMiss, Recv, Lag, Timeout, logVars
<1>3. \A v \in Waiters : v # w =>
         /\ pc'[v] = pc[v] /\ rx'[v] = rx[v] /\ want'[v] = want[v]
  BY <1>1 DEF Wait, Subscribe, CheckHit, CheckMiss, Recv, Lag, Timeout, Return, waitVars
<1> DEFINE Woken(v) == pc[v] = "recv" /\ ~rx[v].lagged =>
               \A i \in 1..Len(entries) : Matches(entries[i], want[v]) =>
                  \E j \in 1..Len(rx[v].queue) : Matches(rx[v].queue[j], want[v])
<1>4. \A v \in Waiters : Woken(v)
  BY DEF NoLostWakeup
<1>5. \A v \in Waiters : v # w => Woken(v)'
  BY <1>2, <1>3, <1>4
<1>6. Woken(w)'
  <2>1. CASE pc'[w] # "recv"
    BY <2>1
  <2>2. CASE CheckMiss(w)
    <3>1. want[w] \in Wants /\ Seen(want[w]) = {} /\ want' = want
      BY <1>1, <2>2 DEF TypeOK, CheckMiss
    <3>2. \A i \in 1..Len(entries) : ~Matches(entries[i], want[w])
      BY <3>1, SeenIsMatching
    <3> QED BY <1>2, <3>1, <3>2
  <2>3. CASE /\ Recv(w)
             /\ ~Matches(Head(rx[w].queue), want[w])
             /\ rx' = [rx EXCEPT ![w].queue = Tail(@)]
             /\ UNCHANGED waitVars
    <3>1. /\ rx[w] \in Receivers /\ rx[w].queue \in Seq(Entry) /\ rx[w].queue # <<>>
          /\ ~rx[w].lagged /\ pc[w] = "recv"
      BY <1>1, <2>3 DEF Recv, Receivers
    <3>2. rx'[w].queue = Tail(rx[w].queue)
      BY <1>1, <2>3, <3>1 DEF Receivers
    <3>3. /\ Len(rx'[w].queue) = Len(rx[w].queue) - 1
          /\ \A j \in 1..(Len(rx[w].queue) - 1) : rx'[w].queue[j] = rx[w].queue[j + 1]
          /\ Head(rx[w].queue) = rx[w].queue[1]
      BY <3>1, <3>2
    <3>4. ASSUME NEW j \in 1..Len(rx[w].queue), Matches(rx[w].queue[j], want[w])
          PROVE  \E h \in 1..Len(rx'[w].queue) : Matches(rx'[w].queue[h], want[w])
      <4>1. j # 1
        BY <2>3, <3>3, <3>4
      <4>2. j - 1 \in 1..(Len(rx[w].queue) - 1) /\ (j - 1) + 1 = j
        BY <3>1, <4>1
      <4> QED BY <3>3, <3>4, <4>2
    <3>5. want' = want
      BY <2>3 DEF waitVars
    <3> QED BY <1>2, <1>4, <3>1, <3>4, <3>5
  <2> QED BY <1>1, <2>1, <2>2, <2>3
      DEF Wait, Subscribe, CheckHit, Recv, Lag, Timeout, Return
<1> QED BY <1>5, <1>6 DEF NoLostWakeup

\* A waiter whose receiver kept up has in its queue an entry it accepts as long
\* as the log holds one.
THEOREM NoWakeupIsLost == Spec => []NoLostWakeup
<1>1. Init => NoLostWakeup
  BY DEF Init, NoLostWakeup
<1>2. LogInv /\ NoLostWakeup /\ [Next]_vars => NoLostWakeup'
  <2> SUFFICES ASSUME LogInv, NoLostWakeup, [Next]_vars
               PROVE  NoLostWakeup'
    OBVIOUS
  <2>1. CASE UNCHANGED vars
    BY <2>1 DEF NoLostWakeup, vars
  <2> QED BY <2>1, IngestKeepsWakeup, CallKeepsWakeup, WaitKeepsWakeup DEF Next
<1> QED BY <1>1, <1>2, LogInvariant, PTL DEF Spec

-----------------------------------------------------------------------------
(* The caps *)

\* Making room for one more leaves a table within its cap.
LEMMA StashWithinCap ==
    ASSUME NEW table \in [Ids -> Response \union FetchError \union {None}],
           NEW dropped \in SUBSET Ids, Room(table, dropped),
           NEW id \in Ids, NEW answer, answer # None,
           MaxPending > 0 => Cardinality(Pending(table)) <= MaxPending
    PROVE  /\ MaxPending > 0 =>
                 Cardinality(Pending(Stashed(table, dropped, id, answer))) <= MaxPending
           /\ Cardinality(Pending(Stashed(table, dropped, id, answer))) + Cardinality(dropped)
                 <= Cardinality(Pending(table)) + 1
           /\ Cardinality(dropped) \in Nat
           /\ Cardinality(Pending(Stashed(table, dropped, id, answer))) \in Nat
<1> DEFINE P == Pending(table)
           Q == Pending(Stashed(table, dropped, id, answer))
           kept == P \ dropped
<1>1. Q = kept \union {id}
  BY DEF Pending, Stashed
<1>2. IsFiniteSet(P) /\ IsFiniteSet(dropped) /\ IsFiniteSet(kept) /\ dropped \subseteq P
  <2>1. P \subseteq Ids /\ kept \subseteq Ids /\ dropped \subseteq Ids
    BY DEF Pending
  <2> QED BY <2>1, IdsAssumption, FS_Subset DEF Room
<1>3. Cardinality(kept) = Cardinality(P) - Cardinality(dropped)
  <2>1. P \cap dropped = dropped
    BY <1>2
  <2> QED BY <1>2, <2>1, FS_Difference
<1>4. /\ Cardinality(P) \in Nat /\ Cardinality(dropped) \in Nat
      /\ Cardinality(kept) \in Nat /\ Cardinality(Q) \in Nat
  <2> HIDE DEF Q, kept
  <2>1. IsFiniteSet(Q)
    BY <1>1, <1>2, FS_AddElement
  <2> QED BY <1>2, <2>1, FS_CardinalityType
<1>5. Cardinality(Q) <= Cardinality(kept) + 1
  <2> HIDE DEF Q, kept
  <2>1. Cardinality(Q) = IF id \in kept THEN Cardinality(kept) ELSE Cardinality(kept) + 1
    BY <1>1, <1>2, FS_AddElement
  <2> QED BY <2>1, <1>4
<1>6. Cardinality(dropped) = IF MaxPending > 0 /\ Cardinality(P) >= MaxPending
                             THEN Cardinality(P) - (MaxPending - 1) ELSE 0
  BY DEF Room
<1> HIDE DEF P, Q, kept
<1>7. MaxPending > 0 => Cardinality(Q) <= MaxPending
  BY <1>3, <1>4, <1>5, <1>6, CapsAssumption
<1>8. Cardinality(Q) + Cardinality(dropped) <= Cardinality(P) + 1
  BY <1>3, <1>4, <1>5
<1> QED BY <1>4, <1>7, <1>8 DEF P, Q

\* A table without answers counts none.
LEMMA EmptyTable ==
    Cardinality(Pending([id \in Ids |-> None])) = 0
<1>1. Pending([id \in Ids |-> None]) = {}
  BY DEF Pending
<1> QED BY <1>1, FS_EmptySet

\* Clearing one key can only shrink a table.
LEMMA ClearedKey ==
    ASSUME NEW table \in [Ids -> Response \union FetchError \union {None}], NEW id \in Ids
    PROVE  /\ Cardinality(Pending([table EXCEPT ![id] = None])) <= Cardinality(Pending(table))
           /\ Cardinality(Pending([table EXCEPT ![id] = None])) \in Nat
           /\ Cardinality(Pending(table)) \in Nat
<1>1. Pending([table EXCEPT ![id] = None]) \subseteq Pending(table)
  BY DEF Pending
<1>2. IsFiniteSet(Pending(table))
  <2>1. Pending(table) \subseteq Ids
    BY DEF Pending
  <2> QED BY <2>1, IdsAssumption, FS_Subset
<1> QED BY <1>1, <1>2, FS_Subset, FS_CardinalityType

\* The early answers can be counted.
LEMMA PendingIsFinite ==
    Cardinality(Pending(pending_responses)) \in Nat /\ Cardinality(Pending(pending_errors)) \in Nat
<1>1. Pending(pending_responses) \subseteq Ids /\ Pending(pending_errors) \subseteq Ids
  BY DEF Pending
<1> QED BY <1>1, IdsAssumption, FS_Subset, FS_CardinalityType

\* The two tables, and what their counters say of them.  Both are kept by every
\* handler at once, so they are proved together.
TablesInv == WithinCaps /\ CountersAccount

\* A new request makes room in the log and takes its early answers.
LEMMA RequestKeepsTables ==
    ASSUME LogInv, TablesInv, NEW id \in Ids, NEW url \in Urls, IngestRequest(id, url)
    PROVE  TablesInv'
<1>1. /\ TypeOK /\ IndexOK /\ entries \in Seq(Entry) /\ metrics \in [Counters -> Nat]
      /\ WithinCaps /\ CountersAccount
      /\ pending_responses \in [Ids -> Response \union FetchError \union {None}]
      /\ pending_errors \in [Ids -> Response \union FetchError \union {None}]
  BY DEF LogInv, TypeOK, TablesInv
<1>2. /\ Surplus \in 0..Len(entries)
      /\ Survivors \in Seq(Entry)
      /\ Len(Survivors) = Len(entries) - Surplus
      /\ MaxEntries > 0 => Len(Survivors) < MaxEntries
  BY <1>1, EvictionKeepsIndex
<1>3. Len(entries') = Len(Survivors) + 1
  <2>1. Requested(id, url) \in Entry
    BY RequestedEntry
  <2> QED BY <1>2, <2>1 DEF IngestRequest
<1>4. /\ metrics'["requests_received"] = metrics["requests_received"] + 1
      /\ metrics'["entries_evicted"] = metrics["entries_evicted"] + Surplus
      /\ \A c \in {"responses_received", "errors_received", "pending_responses_dropped",
                   "pending_errors_dropped", "duplicate_responses", "duplicate_errors"} :
            metrics'[c] = metrics[c]
  BY <1>1, CounterNames DEF IngestRequest
<1>5. /\ pending_responses' = [pending_responses EXCEPT ![id] = None]
      /\ pending_errors' = [pending_errors EXCEPT ![id] = None]
  BY DEF IngestRequest
<1>6. /\ Cardinality(Pending(pending_responses')) <= Cardinality(Pending(pending_responses))
      /\ Cardinality(Pending(pending_responses')) \in Nat
      /\ Cardinality(Pending(pending_responses)) \in Nat
      /\ Cardinality(Pending(pending_errors')) <= Cardinality(Pending(pending_errors))
      /\ Cardinality(Pending(pending_errors')) \in Nat
      /\ Cardinality(Pending(pending_errors)) \in Nat
  BY <1>1, <1>5, ClearedKey
<1>7. WithinCaps'
  BY <1>1, <1>2, <1>3, <1>6, CapsAssumption DEF WithinCaps
<1>8. CountersAccount'
  <2>1. \A c \in Counters : metrics[c] \in Nat
    BY <1>1
  <2>2. Len(entries') + metrics'["entries_evicted"] <= metrics'["requests_received"]
    <3>1. Len(entries) + metrics["entries_evicted"] <= metrics["requests_received"]
      BY <1>1 DEF CountersAccount
    <3>2. metrics["requests_received"] \in Nat /\ metrics["entries_evicted"] \in Nat
      BY <2>1, CounterNames
    <3>3. /\ Len(entries) \in Nat /\ Surplus \in Nat
          /\ Len(entries') = Len(entries) - Surplus + 1
      BY <1>1, <1>2, <1>3
    <3> QED BY <3>1, <3>2, <3>3, <1>4
  <2>3. Cardinality(Pending(pending_responses')) + metrics'["pending_responses_dropped"]
          + metrics'["duplicate_responses"] <= metrics'["responses_received"]
    <3>1. Cardinality(Pending(pending_responses)) + metrics["pending_responses_dropped"]
            + metrics["duplicate_responses"] <= metrics["responses_received"]
      BY <1>1 DEF CountersAccount
    <3> QED BY <2>1, <3>1, <1>4, <1>6, CounterNames
  <2>4. Cardinality(Pending(pending_errors')) + metrics'["pending_errors_dropped"]
          + metrics'["duplicate_errors"] <= metrics'["errors_received"]
    <3>1. Cardinality(Pending(pending_errors)) + metrics["pending_errors_dropped"]
            + metrics["duplicate_errors"] <= metrics["errors_received"]
      BY <1>1 DEF CountersAccount
    <3> QED BY <2>1, <3>1, <1>4, <1>6, CounterNames
  <2> QED BY <2>2, <2>3, <2>4 DEF CountersAccount
<1> QED BY <1>7, <1>8 DEF TablesInv

\* A response filed with its entry.
LEMMA ResponseKeepsTables ==
    ASSUME LogInv, TablesInv, NEW id \in Ids, NEW status \in Statuses, IngestResponse(id, status)
    PROVE  TablesInv'
<1>1. /\ entries \in Seq(Entry) /\ metrics \in [Counters -> Nat]
      /\ WithinCaps /\ CountersAccount
  BY DEF LogInv, TypeOK, TablesInv
<1>2. /\ Len(entries') = Len(entries)
      /\ UNCHANGED <<pending_responses, pending_errors>>
  BY <1>1 DEF IngestResponse
<1>3. /\ metrics'["responses_received"] = metrics["responses_received"] + 1
      /\ metrics'["duplicate_responses"] \in {metrics["duplicate_responses"], metrics["duplicate_responses"] + 1}
      /\ \A c \in Counters \ {"responses_received", "duplicate_responses"} : metrics'[c] = metrics[c]
  BY <1>1, CounterNames DEF IngestResponse
<1>4. metrics'["requests_received"] = metrics["requests_received"]
      /\ metrics'["entries_evicted"] = metrics["entries_evicted"]
      /\ metrics'["pending_responses_dropped"] = metrics["pending_responses_dropped"]
      /\ metrics'["errors_received"] = metrics["errors_received"]
      /\ metrics'["pending_errors_dropped"] = metrics["pending_errors_dropped"]
      /\ metrics'["duplicate_errors"] = metrics["duplicate_errors"]
  BY <1>3, CounterNames
<1>5. WithinCaps'
  BY <1>1, <1>2 DEF WithinCaps
<1>6. CountersAccount'
  <2>1. \A c \in Counters : metrics[c] \in Nat
    BY <1>1
  <2>2. Cardinality(Pending(pending_responses)) \in Nat /\ Cardinality(Pending(pending_errors)) \in Nat
    BY PendingIsFinite
  <2>3. Cardinality(Pending(pending_responses')) + metrics'["pending_responses_dropped"]
          + metrics'["duplicate_responses"] <= metrics'["responses_received"]
    <3>1. Cardinality(Pending(pending_responses)) + metrics["pending_responses_dropped"]
            + metrics["duplicate_responses"] <= metrics["responses_received"]
      BY <1>1 DEF CountersAccount
    <3>2. /\ metrics["pending_responses_dropped"] \in Nat /\ metrics["duplicate_responses"] \in Nat
          /\ metrics["responses_received"] \in Nat
      BY <2>1, CounterNames
    <3> QED BY <1>2, <1>3, <1>4, <2>2, <3>1, <3>2
  <2> QED BY <1>1, <1>2, <1>4, <2>3 DEF CountersAccount
<1> QED BY <1>5, <1>6 DEF TablesInv

\* A response kept until its request comes.
LEMMA EarlyResponseKeepsTables ==
    ASSUME LogInv, TablesInv, NEW id \in Ids, NEW status \in Statuses, NEW dropped \in SUBSET Ids,
           IngestEarlyResponse(id, status, dropped)
    PROVE  TablesInv'
<1> DEFINE answer == [id |-> id, status |-> status]
<1>1. /\ entries \in Seq(Entry) /\ metrics \in [Counters -> Nat]
      /\ WithinCaps /\ CountersAccount
      /\ pending_responses \in [Ids -> Response \union FetchError \union {None}]
  BY DEF LogInv, TypeOK, TablesInv
<1>2. answer # None
  BY NoneAssumption
<1>3. /\ UNCHANGED <<entries, pending_errors>>
      /\ Room(pending_responses, dropped)
      /\ pending_responses' = Stashed(pending_responses, dropped, id, answer)
  BY DEF IngestEarlyResponse
<1>4. /\ MaxPending > 0 => Cardinality(Pending(pending_responses')) <= MaxPending
      /\ Cardinality(Pending(pending_responses')) + Cardinality(dropped)
            <= Cardinality(Pending(pending_responses)) + 1
      /\ Cardinality(dropped) \in Nat
      /\ Cardinality(Pending(pending_responses')) \in Nat
  <2> HIDE DEF answer
  <2>1. MaxPending > 0 => Cardinality(Pending(pending_responses)) <= MaxPending
    BY <1>1 DEF WithinCaps
  <2> QED BY <1>1, <1>2, <1>3, <2>1, StashWithinCap
<1>5. /\ metrics'["responses_received"] = metrics["responses_received"] + 1
      /\ metrics'["pending_responses_dropped"] = metrics["pending_responses_dropped"] + Cardinality(dropped)
      /\ \A c \in Counters \ {"responses_received", "pending_responses_dropped"} : metrics'[c] = metrics[c]
  BY <1>1, CounterNames DEF IngestEarlyResponse
<1>6. metrics'["requests_received"] = metrics["requests_received"]
      /\ metrics'["entries_evicted"] = metrics["entries_evicted"]
      /\ metrics'["duplicate_responses"] = metrics["duplicate_responses"]
      /\ metrics'["errors_received"] = metrics["errors_received"]
      /\ metrics'["pending_errors_dropped"] = metrics["pending_errors_dropped"]
      /\ metrics'["duplicate_errors"] = metrics["duplicate_errors"]
  BY <1>5, CounterNames
<1>7. WithinCaps'
  BY <1>1, <1>3, <1>4 DEF WithinCaps
<1>8. CountersAccount'
  <2>1. \A c \in Counters : metrics[c] \in Nat
    BY <1>1
  <2>2. Cardinality(Pending(pending_responses)) \in Nat /\ Cardinality(Pending(pending_errors)) \in Nat
    BY PendingIsFinite
  <2>3. Cardinality(Pending(pending_responses')) + metrics'["pending_responses_dropped"]
          + metrics'["duplicate_responses"] <= metrics'["responses_received"]
    <3>1. Cardinality(Pending(pending_responses)) + metrics["pending_responses_dropped"]
            + metrics["duplicate_responses"] <= metrics["responses_received"]
      BY <1>1 DEF CountersAccount
    <3> QED BY <2>1, <2>2, <3>1, <1>4, <1>5, <1>6, CounterNames
  <2> QED BY <1>1, <1>3, <1>6, <2>3 DEF CountersAccount
<1> QED BY <1>7, <1>8 DEF TablesInv

\* An error filed with its entry.
LEMMA ErrorKeepsTables ==
    ASSUME LogInv, TablesInv, NEW id \in Ids, IngestError(id)
    PROVE  TablesInv'
<1>1. /\ entries \in Seq(Entry) /\ metrics \in [Counters -> Nat]
      /\ WithinCaps /\ CountersAccount
  BY DEF LogInv, TypeOK, TablesInv
<1>2. /\ Len(entries') = Len(entries)
      /\ UNCHANGED <<pending_responses, pending_errors>>
  BY <1>1 DEF IngestError
<1>3. /\ metrics'["errors_received"] = metrics["errors_received"] + 1
      /\ metrics'["duplicate_errors"] \in {metrics["duplicate_errors"], metrics["duplicate_errors"] + 1}
      /\ \A c \in Counters \ {"errors_received", "duplicate_errors"} : metrics'[c] = metrics[c]
  BY <1>1, CounterNames DEF IngestError
<1>4. metrics'["requests_received"] = metrics["requests_received"]
      /\ metrics'["entries_evicted"] = metrics["entries_evicted"]
      /\ metrics'["pending_errors_dropped"] = metrics["pending_errors_dropped"]
      /\ metrics'["responses_received"] = metrics["responses_received"]
      /\ metrics'["pending_responses_dropped"] = metrics["pending_responses_dropped"]
      /\ metrics'["duplicate_responses"] = metrics["duplicate_responses"]
  BY <1>3, CounterNames
<1>5. WithinCaps'
  BY <1>1, <1>2 DEF WithinCaps
<1>6. CountersAccount'
  <2>1. \A c \in Counters : metrics[c] \in Nat
    BY <1>1
  <2>2. Cardinality(Pending(pending_responses)) \in Nat /\ Cardinality(Pending(pending_errors)) \in Nat
    BY PendingIsFinite
  <2>3. Cardinality(Pending(pending_errors')) + metrics'["pending_errors_dropped"]
          + metrics'["duplicate_errors"] <= metrics'["errors_received"]
    <3>1. Cardinality(Pending(pending_errors)) + metrics["pending_errors_dropped"]
            + metrics["duplicate_errors"] <= metrics["errors_received"]
      BY <1>1 DEF CountersAccount
    <3>2. /\ metrics["pending_errors_dropped"] \in Nat /\ metrics["duplicate_errors"] \in Nat
          /\ metrics["errors_received"] \in Nat
      BY <2>1, CounterNames
    <3> QED BY <1>2, <1>3, <1>4, <2>2, <3>1, <3>2
  <2> QED BY <1>1, <1>2, <1>4, <2>3 DEF CountersAccount
<1> QED BY <1>5, <1>6 DEF TablesInv

\* An error kept until its request comes.
LEMMA EarlyErrorKeepsTables ==
    ASSUME LogInv, TablesInv, NEW id \in Ids, NEW dropped \in SUBSET Ids,
           IngestEarlyError(id, dropped)
    PROVE  TablesInv'
<1> DEFINE answer == [id |-> id]
<1>1. /\ entries \in Seq(Entry) /\ metrics \in [Counters -> Nat]
      /\ WithinCaps /\ CountersAccount
      /\ pending_errors \in [Ids -> Response \union FetchError \union {None}]
  BY DEF LogInv, TypeOK, TablesInv
<1>2. answer # None
  BY NoneAssumption
<1>3. /\ UNCHANGED <<entries, pending_responses>>
      /\ Room(pending_errors, dropped)
      /\ pending_errors' = Stashed(pending_errors, dropped, id, answer)
  BY DEF IngestEarlyError
<1>4. /\ MaxPending > 0 => Cardinality(Pending(pending_errors')) <= MaxPending
      /\ Cardinality(Pending(pending_errors')) + Cardinality(dropped)
            <= Cardinality(Pending(pending_errors)) + 1
      /\ Cardinality(dropped) \in Nat
      /\ Cardinality(Pending(pending_errors')) \in Nat
  <2> HIDE DEF answer
  <2>1. MaxPending > 0 => Cardinality(Pending(pending_errors)) <= MaxPending
    BY <1>1 DEF WithinCaps
  <2> QED BY <1>1, <1>2, <1>3, <2>1, StashWithinCap
<1>5. /\ metrics'["errors_received"] = metrics["errors_received"] + 1
      /\ metrics'["pending_errors_dropped"] = metrics["pending_errors_dropped"] + Cardinality(dropped)
      /\ \A c \in Counters \ {"errors_received", "pending_errors_dropped"} : metrics'[c] = metrics[c]
  BY <1>1, CounterNames DEF IngestEarlyError
<1>6. metrics'["requests_received"] = metrics["requests_received"]
      /\ metrics'["entries_evicted"] = metrics["entries_evicted"]
      /\ metrics'["duplicate_errors"] = metrics["duplicate_errors"]
      /\ metrics'["responses_received"] = metrics["responses_received"]
      /\ metrics'["pending_responses_dropped"] = metrics["pending_responses_dropped"]
      /\ metrics'["duplicate_responses"] = metrics["duplicate_responses"]
  BY <1>5, CounterNames
<1>7. WithinCaps'
  BY <1>1, <1>3, <1>4 DEF WithinCaps
<1>8. CountersAccount'
  <2>1. \A c \in Counters : metrics[c] \in Nat
    BY <1>1
  <2>2. Cardinality(Pending(pending_responses)) \in Nat /\ Cardinality(Pending(pending_errors)) \in Nat
    BY PendingIsFinite
  <2>3. Cardinality(Pending(pending_errors')) + metrics'["pending_errors_dropped"]
          + metrics'["duplicate_errors"] <= metrics'["errors_received"]
    <3>1. Cardinality(Pending(pending_errors)) + metrics["pending_errors_dropped"]
            + metrics["duplicate_errors"] <= metrics["errors_received"]
      BY <1>1 DEF CountersAccount
    <3> QED BY <2>1, <2>2, <3>1, <1>4, <1>5, <1>6, CounterNames
  <2> QED BY <1>1, <1>3, <1>6, <2>3 DEF CountersAccount
<1> QED BY <1>7, <1>8 DEF TablesInv

\* clear(), remove_by_id() and retain() never add an entry.
LEMMA OthersKeepTables ==
    ASSUME LogInv, TablesInv,
           \/ Clear
           \/ \E id \in Ids : RemoveById(id)
           \/ \E kept \in Kept : Retain(kept)
    PROVE  TablesInv'
<1>1. entries \in Seq(Entry) /\ metrics \in [Counters -> Nat]
  BY DEF LogInv, TypeOK
<1>6. WithinCaps /\ CountersAccount
  BY DEF TablesInv
<1>2. UNCHANGED <<pending_responses, pending_errors, metrics>>
  BY DEF Clear, RemoveById, Retain
<1>3. Len(entries') \in Nat /\ Len(entries') <= Len(entries)
  <2>1. CASE Clear
    BY <2>1, <1>1 DEF Clear
  <2>2. ASSUME NEW id \in Ids, RemoveById(id)
        PROVE  Len(entries') \in Nat /\ Len(entries') <= Len(entries)
    <3> DEFINE i == by_id[id]
    <3>1. i \in 1..Len(entries)
      <4>1. by_id \in [Ids -> Nat] /\ IndexOK /\ i # 0
        BY <2>2 DEF LogInv, TypeOK, RemoveById
      <4> QED BY <4>1, <1>1 DEF IndexOK, Indexes
    <3>2. entries' = SubSeq(entries, 1, i - 1) \o SubSeq(entries, i + 1, Len(entries))
      BY <2>2 DEF RemoveById
    <3> HIDE DEF i
    <3>3. /\ SubSeq(entries, 1, i - 1) \in Seq(Entry)
          /\ Len(SubSeq(entries, 1, i - 1)) = i - 1
          /\ SubSeq(entries, i + 1, Len(entries)) \in Seq(Entry)
          /\ Len(SubSeq(entries, i + 1, Len(entries))) = Len(entries) - i
      BY <1>1, <3>1
    <3>4. Len(entries') = (i - 1) + (Len(entries) - i)
      BY <3>2, <3>3
    <3> QED BY <1>1, <3>1, <3>4
  <2>3. ASSUME NEW kept \in Kept, Retain(kept)
        PROVE  Len(entries') \in Nat /\ Len(entries') <= Len(entries)
    <3>1. PICK n \in 0..Len(entries) : kept \in [1..n -> 1..Len(entries)]
      BY DEF Kept
    <3>2. entries' = [k \in 1..n |-> entries[kept[k]]]
      BY <2>3, <3>1 DEF Retain
    <3> QED BY <1>1, <3>1, <3>2
  <2> QED BY <2>1, <2>2, <2>3
<1>4. WithinCaps'
  BY <1>1, <1>2, <1>3, <1>6, CapsAssumption DEF WithinCaps
<1>5. CountersAccount'
  <2>1. \A c \in Counters : metrics[c] \in Nat
    BY <1>1
  <2> QED BY <1>1, <1>2, <1>3, <1>6, <2>1, CounterNames DEF CountersAccount
<1> QED BY <1>4, <1>5 DEF TablesInv

\* drain_pending() leaves both tables empty.
LEMMA DrainKeepsTables ==
    ASSUME LogInv, TablesInv, DrainPending
    PROVE  TablesInv'
<1>1. metrics \in [Counters -> Nat] /\ WithinCaps /\ CountersAccount
  BY DEF LogInv, TypeOK, TablesInv
<1>2. /\ UNCHANGED <<entries, metrics>>
      /\ Cardinality(Pending(pending_responses')) = 0
      /\ Cardinality(Pending(pending_errors')) = 0
  BY EmptyTable DEF DrainPending
<1>3. WithinCaps'
  BY <1>1, <1>2, CapsAssumption DEF WithinCaps
<1>4. CountersAccount'
  <2>1. \A c \in Counters : metrics[c] \in Nat
    BY <1>1
  <2>2. Cardinality(Pending(pending_responses)) \in Nat /\ Cardinality(Pending(pending_errors)) \in Nat
    BY PendingIsFinite
  <2>3. Len(entries') + metrics'["entries_evicted"] <= metrics'["requests_received"]
    BY <1>1, <1>2 DEF CountersAccount
  <2>4. /\ metrics["pending_responses_dropped"] + metrics["duplicate_responses"]
              <= metrics["responses_received"]
        /\ metrics["pending_errors_dropped"] + metrics["duplicate_errors"]
              <= metrics["errors_received"]
    <3>1. /\ metrics["pending_responses_dropped"] \in Nat /\ metrics["duplicate_responses"] \in Nat
          /\ metrics["pending_errors_dropped"] \in Nat /\ metrics["duplicate_errors"] \in Nat
          /\ metrics["responses_received"] \in Nat /\ metrics["errors_received"] \in Nat
      BY <2>1, CounterNames
    <3> DEFINE p == Cardinality(Pending(pending_responses))
               q == Cardinality(Pending(pending_errors))
    <3>2. /\ p + metrics["pending_responses_dropped"] + metrics["duplicate_responses"]
                <= metrics["responses_received"]
          /\ q + metrics["pending_errors_dropped"] + metrics["duplicate_errors"]
                <= metrics["errors_received"]
      BY <1>1 DEF CountersAccount
    <3>3. p \in Nat /\ q \in Nat
      BY <2>2
    <3> HIDE DEF p, q
    <3> QED BY <3>1, <3>2, <3>3
  <2>5. /\ metrics["pending_responses_dropped"] \in Nat
        /\ metrics["pending_errors_dropped"] \in Nat
    BY <2>1, CounterNames
  <2> QED BY <1>2, <2>3, <2>4, <2>5 DEF CountersAccount
<1> QED BY <1>3, <1>4 DEF TablesInv

\* A resent request is counted and changes nothing else: its id had no early
\* answers left to lose.
LEMMA AgainKeepsTables ==
    ASSUME LogInv, TablesInv, NEW id \in Ids, IngestResentRequest(id)
    PROVE  TablesInv'
<1>1. /\ entries \in Seq(Entry) /\ metrics \in [Counters -> Nat]
      /\ WithinCaps /\ CountersAccount
      /\ pending_responses \in [Ids -> Response \union FetchError \union {None}]
      /\ pending_errors \in [Ids -> Response \union FetchError \union {None}]
      /\ PendingIsEarly
  BY DEF LogInv, TypeOK, TablesInv
<1>2. /\ UNCHANGED <<entries, pending_responses, pending_errors>>
      /\ metrics' = [metrics EXCEPT !["requests_received"] = @ + 1]
  BY <1>1 DEF IngestResentRequest, PendingIsEarly, Plus
<1>3. WithinCaps'
  BY <1>1, <1>2 DEF WithinCaps
<1>4. CountersAccount'
  <2>1. /\ metrics["requests_received"] \in Nat /\ metrics["entries_evicted"] \in Nat
        /\ Len(entries) \in Nat
    BY <1>1, CounterNames
  <2>2. /\ metrics'["requests_received"] = metrics["requests_received"] + 1
        /\ \A c \in Counters \ {"requests_received"} : metrics'[c] = metrics[c]
    BY <1>1, <1>2, CounterNames
  <2>3. metrics'["entries_evicted"] = metrics["entries_evicted"]
    BY <2>2, CounterNames DEF Counters
  <2>4. Len(entries) + metrics["entries_evicted"] <= metrics["requests_received"]
    BY <1>1 DEF CountersAccount
  <2>5. Len(entries) + metrics'["entries_evicted"] <= metrics'["requests_received"]
    BY <2>1, <2>2, <2>3, <2>4
  <2>6. \A c \in {"pending_responses_dropped", "duplicate_responses", "responses_received",
                  "pending_errors_dropped", "duplicate_errors", "errors_received"} :
           metrics'[c] = metrics[c]
    BY <2>2, CounterNames
  <2>7. CountersAccount
    BY <1>1
  <2> QED BY <1>2, <2>5, <2>6, <2>7 DEF CountersAccount
<1> QED BY <1>3, <1>4 DEF TablesInv

\* Neither the log nor the tables outgrow their caps, and the counters account
\* for what was thrown away.
THEOREM TablesInvariant == Spec => []TablesInv
<1>1. Init => TablesInv
  <2> SUFFICES ASSUME Init PROVE TablesInv
    OBVIOUS
  <2>1. /\ Cardinality(Pending(pending_responses)) = 0
        /\ Cardinality(Pending(pending_errors)) = 0
        /\ Len(entries) = 0
    BY EmptyTable DEF Init
  <2>2. \A c \in Counters : metrics[c] = 0
    BY DEF Init
  <2> QED BY <2>1, <2>2, CounterNames, CapsAssumption
     DEF TablesInv, WithinCaps, CountersAccount
<1>2. LogInv /\ TablesInv /\ [Next]_vars => TablesInv'
  <2> SUFFICES ASSUME LogInv, TablesInv, [Next]_vars
               PROVE  TablesInv'
    OBVIOUS
  <2>1. CASE Ingest
    BY <2>1, RequestKeepsTables, AgainKeepsTables, ResponseKeepsTables,
       ErrorKeepsTables,
       EarlyResponseKeepsTables, EarlyErrorKeepsTables DEF Ingest
  <2>2. CASE Call
    BY <2>2, OthersKeepTables, DrainKeepsTables DEF Call
  <2>3. CASE UNCHANGED <<entries, pending_responses, pending_errors, metrics>>
    BY <2>3 DEF TablesInv, WithinCaps, CountersAccount
  <2>4. CASE \E w \in Waiters : Wait(w)
    <3>1. UNCHANGED logVars /\ UNCHANGED metrics
      BY <2>4 DEF Wait, Subscribe, CheckHit, CheckMiss, Recv, Lag, Timeout
    <3> QED BY <2>3, <3>1 DEF logVars
  <2>5. CASE UNCHANGED vars
    BY <2>3, <2>5 DEF vars
  <2> QED BY <2>1, <2>2, <2>4, <2>5 DEF Next
<1> QED BY <1>1, <1>2, LogInvariant, PTL DEF Spec

\* The log never holds more than max_entries, nor either table of early answers
\* more than max_pending (push_entry and the pending branches of the handlers).
THEOREM CapsHold == Spec => []WithinCaps
BY TablesInvariant, PTL DEF TablesInv

\* The counters account for what was held, evicted, dropped or repeated: nothing
\* is thrown away that was not received (NetworkMetrics).
THEOREM CountersHold == Spec => []CountersAccount
BY TablesInvariant, PTL DEF TablesInv

-----------------------------------------------------------------------------
(* Waits that time out *)

\* An entry is not the absence of one.
LEMMA EntriesAreSome == None \notin Entry
BY NoneAssumption DEF Entry, Response, FetchError

\* Nothing but a wait's own step changes what a waiter is at.
LEMMA OnlyWaitsWait ==
    ASSUME [Next]_vars, ~ UNCHANGED waitVars
    PROVE  \E w \in Waiters : Wait(w)
<1>1. ASSUME Ingest PROVE UNCHANGED waitVars
  <2>1. ASSUME NEW id \in Ids, NEW url \in Urls, IngestRequest(id, url)
        PROVE  UNCHANGED waitVars
    BY <2>1 DEF IngestRequest
  <2>2. ASSUME NEW id \in Ids, NEW status \in Statuses, IngestResponse(id, status)
        PROVE  UNCHANGED waitVars
    BY <2>2 DEF IngestResponse
  <2>3. ASSUME NEW id \in Ids, IngestError(id)
        PROVE  UNCHANGED waitVars
    BY <2>3 DEF IngestError
  <2> QED BY <1>1, <2>1, <2>2, <2>3
          DEF Ingest, IngestResentRequest, IngestEarlyResponse, IngestEarlyError
<1>2. ASSUME Call PROVE UNCHANGED waitVars
  BY <1>2 DEF Call, Clear, RemoveById, Retain, DrainPending
<1>3. ASSUME UNCHANGED vars PROVE UNCHANGED waitVars
  BY <1>3 DEF vars, waitVars
<1> QED BY <1>1, <1>2, <1>3 DEF Next

\* What a step that ends a wait with None looked at: an empty queue.
LEMMA TimeoutsLookedFirst ==
    ASSUME LogInv, NoLostWakeup, [Next]_vars, NEW w \in Waiters, GivesUp(w), ~rx[w].lagged
    PROVE  \A i \in 1..Len(entries) : ~Matches(entries[i], want[w])
<1>1. pc \in [Waiters -> {"idle", "check", "recv"}] /\ rx[w] \in Receivers
  BY DEF LogInv, TypeOK
<1>2. ASSUME NEW v \in Waiters, Wait(v)
      PROVE  v = w /\ Timeout(w)
  <2>1. v = w
    <3>1. v # w => pc'[w] = pc[w]
      BY <1>1, <1>2
         DEF Wait, Subscribe, CheckHit, CheckMiss, Recv, Lag, Timeout, Return,
             waitVars
    <3> QED BY <3>1 DEF GivesUp
  <2>2. ~(Subscribe(w) \/ CheckHit(w) \/ CheckMiss(w))
    BY DEF GivesUp, Subscribe, CheckHit, CheckMiss
  <2>3. ~Lag(w)
    BY DEF Lag
  <2>4. ~Recv(w)
    <3> SUFFICES ASSUME Recv(w) PROVE FALSE
      OBVIOUS
    <3>1. rx[w].queue \in Seq(Entry) /\ rx[w].queue # <<>>
      BY <1>1 DEF Receivers, Recv
    <3>2. Head(rx[w].queue) \in Entry
      BY <3>1
    <3>3. CASE Return(w, Head(rx[w].queue))
      <4>1. found' = [found EXCEPT ![w] = Head(rx[w].queue)]
        BY <3>3 DEF Return
      <4>2. found'[w] = Head(rx[w].queue)
        BY <4>1 DEF LogInv, TypeOK
      <4> QED BY <3>2, <4>2, EntriesAreSome DEF GivesUp
    <3>4. CASE UNCHANGED waitVars
      BY <3>4 DEF waitVars, GivesUp
    <3> QED BY <3>3, <3>4 DEF Recv
  <2> QED BY <1>2, <2>1, <2>2, <2>3, <2>4 DEF Wait
<1>3. ~ UNCHANGED waitVars
  BY DEF waitVars, GivesUp
<1>4. \E v \in Waiters : Wait(v)
  BY <1>3, OnlyWaitsWait
<1>5. rx[w].queue = <<>>
  BY <1>2, <1>4 DEF Timeout
<1> QED BY <1>5 DEF NoLostWakeup, GivesUp

\* A wait whose receiver did not lag times out only when the log holds nothing
\* it would have accepted (wait_for_response, wait_for_url).
THEOREM TimeoutsAreHonest == Spec => TimesOutOnlyUnanswered
<1>1. LogInv /\ NoLostWakeup /\ [Next]_vars =>
        [\A w \in Waiters : GivesUp(w) /\ ~rx[w].lagged =>
            \A i \in 1..Len(entries) : ~Matches(entries[i], want[w])]_vars
  BY TimeoutsLookedFirst
<1> QED BY <1>1, LogInvariant, NoWakeupIsLost, PTL DEF Spec, TimesOutOnlyUnanswered

-----------------------------------------------------------------------------
(* What a wait returns *)

\* The answers an entry holds are those of its request.
OwnAnswers(e) == /\ e.response # None => e.response.id = e.id
                 /\ e.error # None => e.error.id = e.id

\* Every receiver keeps at most Capacity entries, each with its own answers.
QueueOK(q) == /\ Len(q) <= Capacity
              /\ \A j \in 1..Len(q) : OwnAnswers(q[j])
QueuesOK == \A w \in Waiters : QueueOK(rx[w].queue)

\* The broadcast appends an entry, and makes room for it in a full receiver.
LEMMA PublishKeepsQueues ==
    ASSUME TypeOK, QueuesOK, NEW e \in Entry, OwnAnswers(e), Publish(e)
    PROVE  QueuesOK'
<1> SUFFICES ASSUME NEW w \in Waiters PROVE QueueOK(rx'[w].queue)
  BY DEF QueuesOK
<1>1. rx[w] \in Receivers /\ rx[w].queue \in Seq(Entry) /\ QueueOK(rx[w].queue)
  BY DEF TypeOK, Receivers, QueuesOK
<1> DEFINE q == rx[w].queue
<1>2. CASE ~rx[w].on
  BY <1>1, <1>2 DEF Publish
<1>3. CASE rx[w].on /\ Len(q) < Capacity
  <2>1. rx'[w].queue = Append(q, e)
    BY <1>3 DEF Publish, Enqueue
  <2>2. Len(Append(q, e)) = Len(q) + 1
    BY <1>1
  <2>3. \A j \in 1..(Len(q) + 1) : \/ Append(q, e)[j] = e
                                   \/ j \in 1..Len(q) /\ Append(q, e)[j] = q[j]
    BY <1>1
  <2>4. Len(q) + 1 <= Capacity
    BY <1>1, <1>3, ChannelAssumption
  <2> HIDE DEF q
  <2>5. \A j \in 1..Len(q) : OwnAnswers(q[j])
    BY <1>1 DEF QueueOK, q
  <2> QED BY <2>1, <2>2, <2>3, <2>4, <2>5 DEF QueueOK
<1>4. CASE rx[w].on /\ ~(Len(q) < Capacity)
  <2>1. rx'[w].queue = Append(Tail(q), e)
    BY <1>4 DEF Publish, Overrun
  <2>2. q # <<>> /\ Len(q) <= Capacity
    BY <1>1, <1>4, ChannelAssumption DEF QueueOK
  <2>3. /\ Tail(q) \in Seq(Entry) /\ Len(Tail(q)) = Len(q) - 1
        /\ \A j \in 1..(Len(q) - 1) : Tail(q)[j] = q[j + 1]
    BY <1>1, <2>2
  <2>4. /\ Len(Append(Tail(q), e)) = Len(q)
        /\ \A j \in 1..Len(q) : \/ Append(Tail(q), e)[j] = e
                                \/ j \in 1..(Len(q) - 1) /\ Append(Tail(q), e)[j] = Tail(q)[j]
    BY <1>1, <2>2, <2>3
  <2>5. \A j \in 1..(Len(q) - 1) : j + 1 \in 1..Len(q) /\ OwnAnswers(q[j + 1])
    BY <1>1 DEF QueueOK
  <2> HIDE DEF q
  <2> QED BY <2>1, <2>2, <2>3, <2>4, <2>5 DEF QueueOK
<1> QED BY <1>2, <1>3, <1>4

\* What an ingestion publishes holds its own answers.
LEMMA IngestKeepsQueues ==
    ASSUME LogInv, QueuesOK, Ingest
    PROVE  QueuesOK'
<1>1. /\ TypeOK /\ IndexOK /\ AnswersBelong
      /\ entries \in Seq(Entry) /\ by_id \in [Ids -> Nat]
  BY DEF LogInv, TypeOK
<1>2. ASSUME NEW id \in Ids, NEW url \in Urls, IngestRequest(id, url) PROVE QueuesOK'
  <2>1. Requested(id, url) \in Entry /\ OwnAnswers(Requested(id, url))
    BY RequestedEntry DEF OwnAnswers
  <2> QED BY <1>1, <1>2, <2>1, PublishKeepsQueues DEF IngestRequest
<1>3. ASSUME NEW id \in Ids, by_id[id] # 0
      PROVE  /\ entries[by_id[id]] \in Entry /\ entries[by_id[id]].id = id
             /\ OwnAnswers(entries[by_id[id]])
  <2>1. by_id[id] \in 1..Len(entries) /\ entries[by_id[id]].id = id
    BY <1>1, <1>3 DEF IndexOK, Indexes
  <2> QED BY <1>1, <2>1 DEF AnswersBelong, OwnAnswers
<1>4. ASSUME NEW id \in Ids, NEW status \in Statuses, IngestResponse(id, status)
      PROVE  QueuesOK'
  <2> DEFINE e == [entries[by_id[id]] EXCEPT !.response = [id |-> id, status |-> status]]
  <2>1. PICK r \in Entry : r = entries[by_id[id]] /\ r.id = id /\ OwnAnswers(r)
    BY <1>3, <1>4 DEF IngestResponse
  <2>2. e = [r EXCEPT !.response = [id |-> id, status |-> status]]
    BY <2>1
  <2>3. e \in Entry /\ e.id = id /\ e.response.id = id /\ e.error = r.error
    BY <2>1, <2>2 DEF Entry, Response
  <2>4. OwnAnswers(e)
    BY <2>1, <2>3 DEF OwnAnswers
  <2>5. Publish(e)
    BY <1>4 DEF IngestResponse
  <2> QED BY <1>1, <2>3, <2>4, <2>5, PublishKeepsQueues
<1>5. ASSUME NEW id \in Ids, IngestError(id) PROVE QueuesOK'
  <2> DEFINE e == [entries[by_id[id]] EXCEPT !.error = [id |-> id]]
  <2>1. PICK r \in Entry : r = entries[by_id[id]] /\ r.id = id /\ OwnAnswers(r)
    BY <1>3, <1>5 DEF IngestError
  <2>2. e = [r EXCEPT !.error = [id |-> id]]
    BY <2>1
  <2>3. e \in Entry /\ e.id = id /\ e.error.id = id /\ e.response = r.response
    BY <2>1, <2>2 DEF Entry, FetchError
  <2>4. OwnAnswers(e)
    BY <2>1, <2>3 DEF OwnAnswers
  <2>5. Publish(e)
    BY <1>5 DEF IngestError
  <2> QED BY <1>1, <2>3, <2>4, <2>5, PublishKeepsQueues
<1>6. UNCHANGED rx => QueuesOK'
  BY DEF QueuesOK
<1> QED BY <1>2, <1>4, <1>5, <1>6
        DEF Ingest, IngestResentRequest, IngestEarlyResponse, IngestEarlyError

\* A wait only takes from its queue.
LEMMA WaitKeepsQueues ==
    ASSUME LogInv, QueuesOK, NEW w \in Waiters, Wait(w)
    PROVE  QueuesOK'
<1>1. rx \in [Waiters -> Receivers] /\ rx[w].queue \in Seq(Entry) /\ QueueOK(rx[w].queue)
  BY DEF LogInv, TypeOK, Receivers, QueuesOK
<1>2. QueueOK(<<>>)
  BY ChannelAssumption DEF QueueOK
<1>3. CASE rx' = [rx EXCEPT ![w] = NoReceiver] \/ rx' = [rx EXCEPT ![w] = Listening]
  <2>1. rx'[w].queue = <<>> /\ \A v \in Waiters \ {w} : rx'[v] = rx[v]
    BY <1>1, <1>3 DEF NoReceiver, Listening
  <2> QED BY <1>2, <2>1 DEF QueuesOK
<1>4. CASE rx[w].queue # <<>> /\ rx' = [rx EXCEPT ![w].queue = Tail(@)]
  <2>1. rx'[w].queue = Tail(rx[w].queue) /\ \A v \in Waiters \ {w} : rx'[v] = rx[v]
    BY <1>1, <1>4 DEF Receivers
  <2>2. /\ Len(Tail(rx[w].queue)) = Len(rx[w].queue) - 1
        /\ \A j \in 1..(Len(rx[w].queue) - 1) : /\ Tail(rx[w].queue)[j] = rx[w].queue[j + 1]
                                                /\ j + 1 \in 1..Len(rx[w].queue)
    BY <1>1, <1>4
  <2>3. QueueOK(Tail(rx[w].queue))
    BY <1>1, <2>2, ChannelAssumption DEF QueueOK
  <2> QED BY <2>1, <2>3 DEF QueuesOK
<1>5. CASE UNCHANGED rx
  BY <1>5 DEF QueuesOK
<1> QED BY <1>3, <1>4, <1>5
        DEF Wait, Subscribe, CheckHit, CheckMiss, Recv, Lag, Timeout, Return

\* The receivers keep within the channel's capacity, and hold no entry with
\* another request's answer.
LEMMA QueuesInvariant == Spec => []QueuesOK
<1>1. Init => QueuesOK
  BY ChannelAssumption DEF Init, QueuesOK, QueueOK, NoReceiver
<1>2. LogInv /\ QueuesOK /\ [Next]_vars => QueuesOK'
  <2> SUFFICES ASSUME LogInv, QueuesOK, [Next]_vars PROVE QueuesOK'
    OBVIOUS
  <2>1. CASE Call
    BY <2>1 DEF Call, Clear, RemoveById, Retain, DrainPending, QueuesOK
  <2>2. CASE UNCHANGED vars
    BY <2>2 DEF vars, QueuesOK
  <2> QED BY <2>1, <2>2, IngestKeepsQueues, WaitKeepsQueues DEF Next
<1> QED BY <1>1, <1>2, LogInvariant, PTL DEF Spec

Returns(w) == pc[w] # "idle" /\ pc'[w] = "idle" /\ found'[w] # None

\* What a step that ends a wait with an entry hands over.
LEMMA ReturnedIsWanted ==
    ASSUME LogInv, QueuesOK, [Next]_vars, NEW w \in Waiters, Returns(w)
    PROVE  Matches(found'[w], want[w]) /\ OwnAnswers(found'[w])
<1>1. /\ pc \in [Waiters -> {"idle", "check", "recv"}]
      /\ found \in [Waiters -> Entry \union {None}]
      /\ rx[w] \in Receivers /\ want[w] \in Wants /\ entries \in Seq(Entry)
  BY DEF LogInv, TypeOK, Returns
<1>2. ~ UNCHANGED waitVars
  BY DEF waitVars, Returns
<1>3. PICK v \in Waiters : Wait(v)
  BY <1>2, OnlyWaitsWait
<1>4. v = w
  <2>1. v # w => pc'[w] = pc[w]
    BY <1>1, <1>3
       DEF Wait, Subscribe, CheckHit, CheckMiss, Recv, Lag, Timeout, Return, waitVars
  <2> QED BY <2>1 DEF Returns
<1>5. CASE CheckHit(w)
  <2>1. PICK e \in Seen(want[w]) : Return(w, e)
    BY <1>5 DEF CheckHit
  <2>2. found'[w] = e
    BY <1>1, <2>1 DEF Return
  <2>3. Matches(e, want[w])
    BY <1>1, SeenIsMatching
  <2>4. PICK i \in 1..Len(entries) : e = entries[i]
    <3>1. \A id \in Ids : by_id[id] # 0 => by_id[id] \in 1..Len(entries)
      BY DEF LogInv, TypeOK, IndexOK, Indexes
    <3>2. want[w].kind = "response" => want[w].key \in Ids
      BY <1>1 DEF Wants
    <3> QED BY <3>1, <3>2 DEF Seen
  <2>5. OwnAnswers(e)
    BY <2>4 DEF LogInv, AnswersBelong, OwnAnswers
  <2> QED BY <2>2, <2>3, <2>5
<1>6. CASE Recv(w)
  <2> DEFINE e == Head(rx[w].queue)
  <2>1. Matches(e, want[w]) /\ Return(w, e)
    BY <1>2, <1>6 DEF Recv
  <2>2. found'[w] = e
    BY <1>1, <2>1 DEF Return
  <2>3. rx[w].queue \in Seq(Entry) /\ rx[w].queue # <<>>
    BY <1>1, <1>6 DEF Recv, Receivers
  <2>4. e = rx[w].queue[1] /\ 1 \in 1..Len(rx[w].queue)
    BY <2>3
  <2>5. OwnAnswers(e)
    BY <2>4 DEF QueuesOK, QueueOK
  <2> QED BY <2>1, <2>2, <2>5
<1>7. ~(Subscribe(w) \/ CheckMiss(w))
  BY <1>1 DEF Returns, Subscribe, CheckMiss
<1>8. ~(Lag(w) \/ Timeout(w))
  BY <1>1 DEF Returns, Lag, Timeout, Return
<1> QED BY <1>3, <1>4, <1>5, <1>6, <1>7, <1>8 DEF Wait

\* A wait that returns an entry returns one it asked for, with the answers of
\* that very request, whether it found it in the log or was sent it while other
\* requests were answered, evicted and sent again (wait_for_response,
\* wait_for_url).
THEOREM WaitsReturnTheirAnswer ==
    Spec => [][\A w \in Waiters : Returns(w) =>
                  /\ Matches(found'[w], want[w])
                  /\ found'[w].response # None => found'[w].response.id = found'[w].id
                  /\ found'[w].error # None => found'[w].error.id = found'[w].id]_vars
<1>1. LogInv /\ QueuesOK /\ [Next]_vars =>
        [\A w \in Waiters : Returns(w) =>
            /\ Matches(found'[w], want[w])
            /\ found'[w].response # None => found'[w].response.id = found'[w].id
            /\ found'[w].error # None => found'[w].error.id = found'[w].id]_vars
  BY ReturnedIsWanted DEF OwnAnswers
<1> QED BY <1>1, LogInvariant, QueuesInvariant, PTL DEF Spec

-----------------------------------------------------------------------------
(* The log is a table keyed by request id *)

\* What an indexed log captures: exactly its entries, each under its own id.
LEMMA CapturedEntries ==
    ASSUME LogInv
    PROVE  /\ DOMAIN Captured = Ids
           /\ \A id \in Ids : by_id[id] = 0 => Captured[id] = None
           /\ \A i \in 1..Len(entries) : Captured[entries[i].id] = entries[i]
           /\ \A id \in Ids : Captured[id] # None =>
                  \E i \in 1..Len(entries) : entries[i].id = id /\ Captured[id] = entries[i]
<1>1. /\ entries \in Seq(Entry) /\ by_id \in [Ids -> Nat] /\ IndexOK
      /\ \A e \in Entry : e.id \in Ids
  BY DEF LogInv, TypeOK, Entry
<1>2. \A i \in 1..Len(entries) : /\ entries[i].id \in Ids
                                 /\ by_id[entries[i].id] = i
                                 /\ i # 0
  BY <1>1 DEF IndexOK, Indexes
<1>3. \A id \in Ids : by_id[id] # 0 =>
         by_id[id] \in 1..Len(entries) /\ entries[by_id[id]].id = id
  BY <1>1 DEF IndexOK, Indexes
<1> QED BY <1>2, <1>3 DEF Captured

\* Every entry is an exchange of its own request.
LEMMA EntriesAreExchanges ==
    ASSUME LogInv, NEW i \in 1..Len(entries)
    PROVE  entries[i] \in Keyed!Exchange(entries[i].id)
<1>1. entries[i] \in Entry /\ AnswersBelong
  BY DEF LogInv, TypeOK
<1> QED BY <1>1 DEF AnswersBelong, Entry, Response, FetchError,
                    Keyed!Exchange, Keyed!Response, Keyed!FetchError

\* Positions and ids correspond, before a step and after it.
LEMMA CapturedIsIndexed ==
    ASSUME LogInv, NEW id \in Ids, by_id[id] # 0
    PROVE  /\ by_id[id] \in 1..Len(entries)
           /\ entries[by_id[id]].id = id
           /\ Captured[id] = entries[by_id[id]]
<1>1. entries \in Seq(Entry) /\ by_id \in [Ids -> Nat] /\ IndexOK
  BY DEF LogInv, TypeOK
<1> QED BY <1>1 DEF IndexOK, Indexes, Captured

\* The same after a step.
LEMMA EntriesAreExchangesNext ==
    ASSUME LogInv', NEW i \in 1..Len(entries')
    PROVE  entries'[i] \in Keyed!Exchange(entries'[i].id)
<1>1. entries'[i] \in Entry /\ AnswersBelong'
  BY DEF LogInv, TypeOK
<1> QED BY <1>1 DEF AnswersBelong, Entry, Response, FetchError,
                    Keyed!Exchange, Keyed!Response, Keyed!FetchError

\* The same correspondence after a step.
LEMMA CapturedIsIndexedNext ==
    ASSUME LogInv', NEW id \in Ids, by_id'[id] # 0
    PROVE  /\ by_id'[id] \in 1..Len(entries')
           /\ entries'[by_id'[id]].id = id
           /\ Captured'[id] = entries'[by_id'[id]]
<1>1. entries' \in Seq(Entry) /\ by_id' \in [Ids -> Nat] /\ IndexOK'
  BY DEF LogInv, TypeOK
<1> QED BY <1>1 DEF IndexOK, Indexes, Captured

\* A step that leaves only entries that were there forgets exchanges.
LEMMA RemovingForgets ==
    ASSUME LogInv, LogInv',
           \A k \in 1..Len(entries') : \E j \in 1..Len(entries) : entries'[k] = entries[j]
    PROVE  \E drop \in SUBSET Ids : Keyed!Forget(drop)
<1> DEFINE drop == {id \in Ids : by_id'[id] = 0}
<1>1. ASSUME NEW id \in Ids, by_id'[id] # 0
      PROVE  Captured'[id] = Captured[id]
  <2>1. /\ by_id'[id] \in 1..Len(entries')
        /\ entries'[by_id'[id]].id = id
        /\ Captured'[id] = entries'[by_id'[id]]
    BY <1>1, CapturedIsIndexedNext
  <2>2. PICK j \in 1..Len(entries) : entries'[by_id'[id]] = entries[j]
    BY <2>1
  <2>3. Captured[entries[j].id] = entries[j]
    BY CapturedEntries
  <2> QED BY <2>1, <2>2, <2>3
<1>2. ASSUME NEW id \in Ids, by_id'[id] = 0
      PROVE  Captured'[id] = None
  BY <1>2 DEF Captured
<1>3. Captured' = [id \in Ids |-> IF id \in drop THEN None ELSE Captured[id]]
  <2>1. Captured' = [id \in Ids |-> Captured'[id]]
    BY DEF Captured
  <2> QED BY <2>1, <1>1, <1>2
<1> QED BY <1>3 DEF Keyed!Forget

\* A new request is recorded; the exchanges evicted for it are given up.
LEMMA RequestRecords ==
    ASSUME LogInv, LogInv', NEW id \in Ids, NEW url \in Urls, IngestRequest(id, url)
    PROVE  \E drop \in SUBSET Ids : Keyed!Record(id, drop)
<1> DEFINE drop == {j \in Ids \ {id} : by_id'[j] = 0}
<1>1. by_id[id] = 0 /\ Captured[id] = None
  BY DEF IngestRequest, Captured
<1>2. \A i \in 1..Len(entries') :
         entries'[i].id = id \/ \E j \in 1..Len(entries) : entries'[i] = entries[j]
  BY RequestedEntry, RequestOnlyAdds
<1>3. by_id'[id] # 0
  <2>1. TypeOK /\ IndexOK
    BY DEF LogInv
  <2>2. /\ IndexAfterEviction \in [Ids -> Nat]
        /\ Len(Survivors) \in Nat
    BY <2>1, EvictionKeepsIndex
  <2>3. by_id' = [IndexAfterEviction EXCEPT ![id] = Len(Survivors) + 1]
    BY DEF IngestRequest
  <2> QED BY <2>2, <2>3
<1>4. Captured'[id] \in Keyed!Exchange(id)
  <2>1. /\ by_id'[id] \in 1..Len(entries')
        /\ entries'[by_id'[id]].id = id
        /\ Captured'[id] = entries'[by_id'[id]]
    BY <1>3, CapturedIsIndexedNext
  <2>2. entries'[by_id'[id]] \in Keyed!Exchange(id)
    BY <2>1, EntriesAreExchangesNext
  <2> QED BY <2>1, <2>2
<1>5. ASSUME NEW j \in Ids, j # id, by_id'[j] # 0
      PROVE  Captured'[j] = Captured[j]
  <2>1. /\ by_id'[j] \in 1..Len(entries')
        /\ entries'[by_id'[j]].id = j
        /\ Captured'[j] = entries'[by_id'[j]]
    BY <1>5, CapturedIsIndexedNext
  <2>2. PICK k \in 1..Len(entries) : entries'[by_id'[j]] = entries[k]
    BY <2>1, <1>2, <1>5
  <2>3. Captured[entries[k].id] = entries[k]
    BY CapturedEntries
  <2> QED BY <2>1, <2>2, <2>3
<1>6. ASSUME NEW j \in Ids, by_id'[j] = 0
      PROVE  Captured'[j] = None
  BY <1>6 DEF Captured
<1>7. Captured' = [j \in Ids |-> IF j = id THEN Captured'[id]
                                 ELSE IF j \in drop THEN None ELSE Captured[j]]
  <2>1. Captured' = [j \in Ids |-> Captured'[j]]
    BY DEF Captured
  <2>2. \A j \in Ids : Captured'[j] = IF j = id THEN Captured'[id]
                                      ELSE IF j \in drop THEN None ELSE Captured[j]
    BY <1>5, <1>6
  <2> QED BY <2>1, <2>2
<1>8. Keyed!Record(id, drop)
  BY <1>1, <1>4, <1>7 DEF Keyed!Record
<1> QED BY <1>8

\* An answer put into an entry answers that exchange and no other.
LEMMA AnsweringAnswers ==
    ASSUME LogInv, LogInv', NEW id \in Ids, by_id[id] # 0, NEW e \in Entry,
           entries' = [entries EXCEPT ![by_id[id]] = e], by_id' = by_id,
           e.url = entries[by_id[id]].url,
           entries[by_id[id]].response # None => e.response # None,
           entries[by_id[id]].error # None => e.error # None
    PROVE  Keyed!Answer(id)
<1> DEFINE i == by_id[id]
<1>0. entries \in Seq(Entry) /\ Len(entries') = Len(entries)
  BY DEF LogInv, TypeOK
<1>1. i \in 1..Len(entries) /\ Captured[id] = entries[i] /\ entries[i].id = id
  BY CapturedIsIndexed
<1>2. entries'[i] = e /\ \A k \in 1..Len(entries) : k # i => entries'[k] = entries[k]
  BY <1>0, <1>1
<1>3. Captured'[id] = e /\ e.id = id
  BY <1>2, CapturedIsIndexedNext
<1>4. e \in Keyed!Exchange(id)
  BY <1>0, <1>1, <1>2, <1>3, EntriesAreExchangesNext
<1>5. ASSUME NEW j \in Ids, j # id
      PROVE  Captured'[j] = Captured[j]
  <2>1. CASE by_id[j] = 0
    BY <2>1 DEF Captured
  <2>2. CASE by_id[j] # 0
    <3>1. /\ by_id[j] \in 1..Len(entries) /\ entries[by_id[j]].id = j
          /\ Captured[j] = entries[by_id[j]]
      BY <2>2, CapturedIsIndexed
    <3>2. Captured'[j] = entries'[by_id[j]]
      BY <2>2, CapturedIsIndexedNext
    <3>3. by_id[j] # i
      BY <1>1, <1>5, <3>1
    <3> QED BY <1>2, <3>1, <3>2, <3>3
  <2> QED BY <2>1, <2>2
<1>6. Captured' = [Captured EXCEPT ![id] = e]
  <2>1. /\ Captured' = [j \in Ids |-> Captured'[j]]
        /\ DOMAIN Captured = Ids
    BY DEF Captured
  <2> QED BY <2>1, <1>3, <1>5
<1>7. Captured[id] # None
  <2>1. entries[i] \in Entry
    BY <1>0, <1>1
  <2> QED BY <2>1, <1>1, EntriesAreSome
<1> QED BY <1>1, <1>4, <1>6, <1>7 DEF Keyed!Answer

\* Every step of the log is a step of the keyed table, or leaves it alone.
LEMMA StepRefines ==
    ASSUME LogInv, LogInv', [Next]_vars
    PROVE  [Keyed!Next]_Captured
<1>1. /\ entries \in Seq(Entry) /\ by_id \in [Ids -> Nat] /\ IndexOK
  BY DEF LogInv, TypeOK
<1>2. ASSUME UNCHANGED <<entries, by_id>>
      PROVE  UNCHANGED Captured
  BY <1>2 DEF Captured
<1>3. ASSUME NEW id \in Ids, NEW url \in Urls, IngestRequest(id, url)
      PROVE  Keyed!Next
  BY <1>3, RequestRecords DEF Keyed!Next
<1>4. ASSUME NEW id \in Ids, NEW status \in Statuses, IngestResponse(id, status)
      PROVE  Keyed!Next
  <2> DEFINE e == [entries[by_id[id]] EXCEPT !.response = [id |-> id, status |-> status]]
  <2>1. /\ by_id[id] # 0 /\ by_id' = by_id
        /\ entries' = [entries EXCEPT ![by_id[id]] = e]
    BY <1>4 DEF IngestResponse
  <2>2. entries[by_id[id]] \in Entry
    BY <1>1, <2>1 DEF IndexOK, Indexes
  <2>3. /\ e \in Entry /\ e.url = entries[by_id[id]].url
        /\ e.response # None /\ e.error = entries[by_id[id]].error
    BY <2>2, NoneAssumption DEF Entry, Response
  <2> HIDE DEF e
  <2> QED BY <2>1, <2>3, AnsweringAnswers DEF Keyed!Next
<1>5. ASSUME NEW id \in Ids, IngestError(id)
      PROVE  Keyed!Next
  <2> DEFINE e == [entries[by_id[id]] EXCEPT !.error = [id |-> id]]
  <2>1. /\ by_id[id] # 0 /\ by_id' = by_id
        /\ entries' = [entries EXCEPT ![by_id[id]] = e]
    BY <1>5 DEF IngestError
  <2>2. entries[by_id[id]] \in Entry
    BY <1>1, <2>1 DEF IndexOK, Indexes
  <2>3. /\ e \in Entry /\ e.url = entries[by_id[id]].url
        /\ e.response = entries[by_id[id]].response /\ e.error # None
    BY <2>2, NoneAssumption DEF Entry, FetchError
  <2> HIDE DEF e
  <2> QED BY <2>1, <2>3, AnsweringAnswers DEF Keyed!Next
<1>6. CASE Ingest
  BY <1>2, <1>3, <1>4, <1>5, <1>6
     DEF Ingest, IngestResentRequest, IngestEarlyResponse, IngestEarlyError
<1>7. CASE Call
  BY <1>7, CallOnlyRemoves, RemovingForgets DEF Keyed!Next
<1>8. CASE \E w \in Waiters : Wait(w)
  <2>1. UNCHANGED logVars
    BY <1>8 DEF Wait, Subscribe, CheckHit, CheckMiss, Recv, Lag, Timeout
  <2> QED BY <1>2, <2>1 DEF logVars
<1>9. CASE UNCHANGED vars
  BY <1>2, <1>9 DEF vars
<1> QED BY <1>6, <1>7, <1>8, <1>9 DEF Next

\* Vectors, positions, evictions, early answers and waiters notwithstanding,
\* callers of the log see a table keyed by request id: a request is filed once,
\* an answer reaches its own request only, and nothing else of it changes.
THEOREM LogIsKeyedTable == Spec => ImplementsKeyedLog
<1>1. Init => Keyed!Init
  BY DEF Init, Keyed!Init, Captured
<1>2. LogInv /\ LogInv' /\ [Next]_vars => [Keyed!Next]_Captured
  BY StepRefines
<1> QED BY <1>1, <1>2, LogInvariant, PTL DEF Spec, ImplementsKeyedLog, Keyed!Spec
=============================================================================
