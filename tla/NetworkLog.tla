----------------------------- MODULE NetworkLog -----------------------------
(***************************************************************************)
(* foxdriver/src/network.rs: the log of captured traffic.  One write lock   *)
(* makes every ingestion and every removal atomic; the browser's events    *)
(* reach the log in any order and may be repeated.  A waiter               *)
(* (wait_for_response, wait_for_url) subscribes, looks once, then receives; *)
(* other tasks run between those steps.                                    *)
(*                                                                         *)
(* A HashMap keyed by request id is a function on Ids; an absent key is 0   *)
(* in by_id and None in the two tables of answers without a request.       *)
(***************************************************************************)
EXTENDS Naturals, Sequences, FiniteSets

CONSTANTS Ids,        \* request ids the browser may use
          Urls,       \* requested URLs
          Statuses,   \* response payloads, told apart by their status
          Waiters,    \* tasks that wait for an entry
          None,       \* Option::None
          MaxEntries, \* cap on the log, 0 for no cap
          MaxPending, \* cap on each table of early answers, 0 for no cap
          Capacity,   \* entries the broadcast channel keeps for a receiver
          MaxEvents   \* bound on the browser's events, for model checking

ASSUME IdsAssumption == IsFiniteSet(Ids)
ASSUME NoneAssumption ==
    /\ \A id \in Ids : None \notin [id : {id}, status : Statuses] \union [id : {id}]
    /\ None \notin [id : Ids, url : Urls,
                   response : [id : Ids, status : Statuses] \union {None},
                   error : [id : Ids] \union {None}]
    /\ None \notin [kind : {"response"}, key : Ids] \union [kind : {"url"}, key : Urls]
ASSUME CapsAssumption == MaxEntries \in Nat /\ MaxPending \in Nat /\ MaxEvents \in Nat
ASSUME ChannelAssumption == Capacity \in Nat \ {0}

VARIABLES entries,           \* the log, oldest first
          by_id,             \* position of each id's entry, 0 when it has none
          pending_responses, \* responses that came before their request
          pending_errors,    \* errors that came before their request
          metrics,           \* the counters callers may read
          rx,                \* each waiter's broadcast receiver
          pc,                \* where each waiter is
          want,              \* what each waiter waits for
          found              \* what each waiter last returned

logVars == <<entries, by_id, pending_responses, pending_errors>>
waitVars == <<pc, want, found>>
vars == <<entries, by_id, pending_responses, pending_errors, metrics, rx, pc, want, found>>

-----------------------------------------------------------------------------
Response == [id : Ids, status : Statuses]
FetchError == [id : Ids]
Entry == [id : Ids, url : Urls,
          response : Response \union {None}, error : FetchError \union {None}]

HasAnswer(e) == e.response # None \/ e.error # None

Wants == [kind : {"response"}, key : Ids] \union [kind : {"url"}, key : Urls]

\* What each of the two waits accepts.
Matches(e, w) == \/ w.kind = "response" /\ e.id = w.key /\ HasAnswer(e)
                 \/ w.kind = "url" /\ e.url = w.key

Counters == {"requests_received", "responses_received", "errors_received",
             "entries_evicted", "pending_responses_dropped", "pending_errors_dropped",
             "broadcast_drops", "duplicate_responses", "duplicate_errors"}

Plus(counted, n) == [metrics EXCEPT ![counted] = @ + n]

EventsSeen == metrics["requests_received"] + metrics["responses_received"]
              + metrics["errors_received"]
MoreEvents == EventsSeen < MaxEvents

Receivers == [on : BOOLEAN, queue : Seq(Entry), lagged : BOOLEAN]
NoReceiver == [on |-> FALSE, queue |-> <<>>, lagged |-> FALSE]
Listening == [on |-> TRUE, queue |-> <<>>, lagged |-> FALSE]

Waiting == {w \in Waiters : rx[w].on}

\* A receiver that is full loses its oldest entry and learns so at its next recv.
Overrun(r, e) == [on |-> TRUE, queue |-> Append(Tail(r.queue), e), lagged |-> TRUE]
Enqueue(r, e) == [on |-> TRUE, queue |-> Append(r.queue, e), lagged |-> r.lagged]
Publish(e) ==
    rx' = [w \in Waiters |-> IF ~rx[w].on THEN rx[w]
                             ELSE IF Len(rx[w].queue) < Capacity THEN Enqueue(rx[w], e)
                             ELSE Overrun(rx[w], e)]

\* Inserting positions in order leaves an id at the last position that has it.
LastAt(es, from, id) ==
    CHOOSE i \in from..Len(es) : /\ es[i].id = id
                                 /\ \A j \in (i + 1)..Len(es) : es[j].id # id

\* The position map rebuilt from a whole vector.
IndexOf(es) ==
    [id \in Ids |-> IF \E i \in 1..Len(es) : es[i].id = id THEN LastAt(es, 1, id) ELSE 0]

Pending(table) == {id \in Ids : table[id] # None}

-----------------------------------------------------------------------------
Init ==
    /\ entries = <<>>
    /\ by_id = [id \in Ids |-> 0]
    /\ pending_responses = [id \in Ids |-> None]
    /\ pending_errors = [id \in Ids |-> None]
    /\ metrics = [c \in Counters |-> 0]
    /\ rx = [w \in Waiters |-> NoReceiver]
    /\ pc = [w \in Waiters |-> "idle"]
    /\ want = [w \in Waiters |-> None]
    /\ found = [w \in Waiters |-> None]

-----------------------------------------------------------------------------
(* Ingestion, one action per browser event and branch of its handler. *)

\* Mutant: room is made only once the log is over its cap.
SurplusTooLate == IF MaxEntries > 0 /\ Len(entries) > MaxEntries
                  THEN Len(entries) - (MaxEntries - 1)
                  ELSE 0

\* How many of the oldest entries push_entry drains before it appends.
Surplus == IF MaxEntries > 0 /\ Len(entries) >= MaxEntries
           THEN Len(entries) - (MaxEntries - 1)
           ELSE 0

Survivors == SubSeq(entries, Surplus + 1, Len(entries))

\* Mutant: the index is not rebuilt after a drain.
IndexAfterEvictionStale == by_id

\* The index after the drain: rebuilt when anything was drained.
IndexAfterEviction == IF Surplus > 0 THEN IndexOf(Survivors) ELSE by_id

Requested(id, url) == [id |-> id, url |-> url, response |-> pending_responses[id],
                       error |-> pending_errors[id]]

\* Mutant: early answers are copied into the entry but stay in their tables.
IngestRequestCopying(id, url) ==
    /\ MoreEvents
    /\ by_id[id] = 0
    /\ entries' = Append(Survivors, Requested(id, url))
    /\ by_id' = [IndexAfterEviction EXCEPT ![id] = Len(Survivors) + 1]
    /\ metrics' = [metrics EXCEPT !["requests_received"] = @ + 1,
                                  !["entries_evicted"] = @ + Surplus,
                                  !["broadcast_drops"] = @ + (IF Waiting = {} THEN 1 ELSE 0)]
    /\ Publish(Requested(id, url))
    /\ UNCHANGED <<pending_responses, pending_errors>> /\ UNCHANGED waitVars

\* beforeRequestSent for an id the log does not hold: answers that came early
\* are taken out of their tables and filed with it.
IngestRequest(id, url) ==
    /\ MoreEvents
    /\ by_id[id] = 0
    /\ pending_responses' = [pending_responses EXCEPT ![id] = None]
    /\ pending_errors' = [pending_errors EXCEPT ![id] = None]
    /\ entries' = Append(Survivors, Requested(id, url))
    /\ by_id' = [IndexAfterEviction EXCEPT ![id] = Len(Survivors) + 1]
    /\ metrics' = [metrics EXCEPT !["requests_received"] = @ + 1,
                                  !["entries_evicted"] = @ + Surplus,
                                  !["broadcast_drops"] = @ + (IF Waiting = {} THEN 1 ELSE 0)]
    /\ Publish(Requested(id, url))
    /\ UNCHANGED waitVars

\* A request id seen again: the resent event is dropped, with the early
\* answers it took out of the tables.
IngestResentRequest(id) ==
    /\ MoreEvents
    /\ by_id[id] # 0
    /\ pending_responses' = [pending_responses EXCEPT ![id] = None]
    /\ pending_errors' = [pending_errors EXCEPT ![id] = None]
    /\ metrics' = Plus("requests_received", 1)
    /\ UNCHANGED <<entries, by_id, rx>> /\ UNCHANGED waitVars

\* Mutant: a response replaces the whole answer, an error already filed included.
IngestResponseReplacing(id, status) ==
    LET i == by_id[id]
        e == [entries[i] EXCEPT !.response = [id |-> id, status |-> status], !.error = None]
    IN /\ MoreEvents
       /\ i # 0
       /\ entries' = [entries EXCEPT ![i] = e]
       /\ Publish(e)
       /\ metrics' = Plus("responses_received", 1)
       /\ UNCHANGED <<by_id, pending_responses, pending_errors>> /\ UNCHANGED waitVars

\* Mutant: the entry is published as it was before the response was filed.
IngestResponseEarlyNews(id, status) ==
    LET i == by_id[id]
    IN /\ MoreEvents
       /\ i # 0
       /\ entries' = [entries EXCEPT ![i].response = [id |-> id, status |-> status]]
       /\ Publish(entries[i])
       /\ metrics' = Plus("responses_received", 1)
       /\ UNCHANGED <<by_id, pending_responses, pending_errors>> /\ UNCHANGED waitVars

\* responseCompleted for an entry of the log: the latest response wins.
IngestResponse(id, status) ==
    LET i == by_id[id]
        e == [entries[i] EXCEPT !.response = [id |-> id, status |-> status]]
    IN /\ MoreEvents
       /\ i # 0
       /\ entries' = [entries EXCEPT ![i] = e]
       /\ Publish(e)
       /\ metrics' = [metrics EXCEPT !["responses_received"] = @ + 1,
                        !["duplicate_responses"] = @ + (IF entries[i].response # None
                                                        THEN 1 ELSE 0)]
       /\ UNCHANGED <<by_id, pending_responses, pending_errors>> /\ UNCHANGED waitVars

\* The keys a full table gives up, in the map's arbitrary order, so that one
\* insertion leaves it within its cap.
Room(table, dropped) ==
    /\ dropped \subseteq Pending(table)
    /\ Cardinality(dropped) =
          IF MaxPending > 0 /\ Cardinality(Pending(table)) >= MaxPending
          THEN Cardinality(Pending(table)) - (MaxPending - 1)
          ELSE 0

Stashed(table, dropped, id, answer) ==
    [j \in Ids |-> IF j = id THEN answer ELSE IF j \in dropped THEN None ELSE table[j]]

\* Mutant: only responses that find their entry are counted as received.
IngestEarlyResponseUncounted(id, status, dropped) ==
    /\ MoreEvents
    /\ by_id[id] = 0
    /\ Room(pending_responses, dropped)
    /\ pending_responses' = Stashed(pending_responses, dropped, id,
                                    [id |-> id, status |-> status])
    /\ metrics' = Plus("pending_responses_dropped", Cardinality(dropped))
    /\ UNCHANGED <<entries, by_id, pending_errors, rx>> /\ UNCHANGED waitVars

\* responseCompleted for a request the log does not hold.
IngestEarlyResponse(id, status, dropped) ==
    /\ MoreEvents
    /\ by_id[id] = 0
    /\ Room(pending_responses, dropped)
    /\ pending_responses' = Stashed(pending_responses, dropped, id,
                                    [id |-> id, status |-> status])
    /\ metrics' = [metrics EXCEPT !["responses_received"] = @ + 1,
                     !["pending_responses_dropped"] = @ + Cardinality(dropped)]
    /\ UNCHANGED <<entries, by_id, pending_errors, rx>> /\ UNCHANGED waitVars

\* fetchError for an entry of the log.
IngestError(id) ==
    LET i == by_id[id]
        e == [entries[i] EXCEPT !.error = [id |-> id]]
    IN /\ MoreEvents
       /\ i # 0
       /\ entries' = [entries EXCEPT ![i] = e]
       /\ Publish(e)
       /\ metrics' = [metrics EXCEPT !["errors_received"] = @ + 1,
                        !["duplicate_errors"] = @ + (IF entries[i].error # None
                                                     THEN 1 ELSE 0)]
       /\ UNCHANGED <<by_id, pending_responses, pending_errors>> /\ UNCHANGED waitVars

\* fetchError for a request the log does not hold.
IngestEarlyError(id, dropped) ==
    /\ MoreEvents
    /\ by_id[id] = 0
    /\ Room(pending_errors, dropped)
    /\ pending_errors' = Stashed(pending_errors, dropped, id, [id |-> id])
    /\ metrics' = [metrics EXCEPT !["errors_received"] = @ + 1,
                     !["pending_errors_dropped"] = @ + Cardinality(dropped)]
    /\ UNCHANGED <<entries, by_id, pending_responses, rx>> /\ UNCHANGED waitVars

-----------------------------------------------------------------------------
(* What a caller of the log may change. *)

Clear ==
    /\ entries' = <<>>
    /\ by_id' = [id \in Ids |-> 0]
    /\ UNCHANGED <<pending_responses, pending_errors, metrics, rx>> /\ UNCHANGED waitVars

\* Positions from the removed one on move down by one.
RemoveById(id) ==
    LET i == by_id[id]
        rest == SubSeq(entries, 1, i - 1) \o SubSeq(entries, i + 1, Len(entries))
    IN /\ i # 0
       /\ entries' = rest
       /\ by_id' = [j \in Ids |-> IF j = id THEN 0
                                  ELSE IF \E k \in i..Len(rest) : rest[k].id = j
                                       THEN LastAt(rest, i, j)
                                       ELSE by_id[j]]
       /\ UNCHANGED <<pending_responses, pending_errors, metrics, rx>>
       /\ UNCHANGED waitVars

\* kept lists, in order, the positions whose entries satisfy the predicate.
Retain(kept) ==
    /\ \A a, b \in DOMAIN kept : a < b => kept[a] < kept[b]
    /\ entries' = [k \in DOMAIN kept |-> entries[kept[k]]]
    /\ by_id' = IndexOf([k \in DOMAIN kept |-> entries[kept[k]]])
    /\ UNCHANGED <<pending_responses, pending_errors, metrics, rx>> /\ UNCHANGED waitVars

DrainPending ==
    /\ pending_responses' = [id \in Ids |-> None]
    /\ pending_errors' = [id \in Ids |-> None]
    /\ UNCHANGED <<entries, by_id, metrics, rx>> /\ UNCHANGED waitVars

-----------------------------------------------------------------------------
(* The two waits.  The receiver exists before the log is looked at. *)

Subscribe(w) ==
    /\ pc[w] = "idle"
    /\ \E k \in Wants : want' = [want EXCEPT ![w] = k]
    /\ rx' = [rx EXCEPT ![w] = Listening]
    /\ pc' = [pc EXCEPT ![w] = "check"]
    /\ found' = [found EXCEPT ![w] = None]
    /\ UNCHANGED logVars /\ UNCHANGED metrics

\* wait_for_response looks its entry up by id, wait_for_url takes the oldest
\* entry that matches.
Seen(k) ==
    IF k.kind = "response"
    THEN IF by_id[k.key] # 0 /\ HasAnswer(entries[by_id[k.key]])
         THEN {entries[by_id[k.key]]}
         ELSE {}
    ELSE {entries[i] : i \in {j \in 1..Len(entries) :
                                /\ entries[j].url = k.key
                                /\ \A h \in 1..(j - 1) : entries[h].url # k.key}}

Return(w, e) ==
    /\ pc' = [pc EXCEPT ![w] = "idle"]
    /\ want' = [want EXCEPT ![w] = None]
    /\ rx' = [rx EXCEPT ![w] = NoReceiver]
    /\ found' = [found EXCEPT ![w] = e]

CheckHit(w) ==
    /\ pc[w] = "check"
    /\ \E e \in Seen(want[w]) : Return(w, e)
    /\ UNCHANGED logVars /\ UNCHANGED metrics

\* Mutant: the receiver is dropped after the look.
CheckMissDetached(w) ==
    /\ pc[w] = "check"
    /\ Seen(want[w]) = {}
    /\ pc' = [pc EXCEPT ![w] = "recv"]
    /\ rx' = [rx EXCEPT ![w] = NoReceiver]
    /\ UNCHANGED logVars /\ UNCHANGED <<metrics, want, found>>

CheckMiss(w) ==
    /\ pc[w] = "check"
    /\ Seen(want[w]) = {}
    /\ pc' = [pc EXCEPT ![w] = "recv"]
    /\ UNCHANGED logVars /\ UNCHANGED <<metrics, rx, want, found>>

\* recv hands over the oldest entry still queued.
Recv(w) ==
    LET e == Head(rx[w].queue)
    IN /\ pc[w] = "recv"
       /\ ~rx[w].lagged
       /\ rx[w].queue # <<>>
       /\ \/ Matches(e, want[w]) /\ Return(w, e)
          \/ /\ ~Matches(e, want[w])
             /\ rx' = [rx EXCEPT ![w].queue = Tail(@)]
             /\ UNCHANGED waitVars
       /\ UNCHANGED logVars /\ UNCHANGED metrics

\* recv reports the loss and the wait gives up, whatever time it had left.
Lag(w) ==
    /\ pc[w] = "recv"
    /\ rx[w].lagged
    /\ Return(w, None)
    /\ UNCHANGED logVars /\ UNCHANGED metrics

\* Mutant: a passed deadline wins over an entry that is queued.
TimeoutFirst(w) ==
    /\ pc[w] = "recv"
    /\ ~rx[w].lagged
    /\ Return(w, None)
    /\ UNCHANGED logVars /\ UNCHANGED metrics

\* The deadline is looked at only when recv has nothing to hand over.
Timeout(w) ==
    /\ pc[w] = "recv"
    /\ ~rx[w].lagged
    /\ rx[w].queue = <<>>
    /\ Return(w, None)
    /\ UNCHANGED logVars /\ UNCHANGED metrics

-----------------------------------------------------------------------------
Kept == UNION {[1..n -> 1..Len(entries)] : n \in 0..Len(entries)}

Ingest ==
    \E id \in Ids :
       \/ \E url \in Urls : IngestRequest(id, url)
       \/ IngestResentRequest(id)
       \/ \E status \in Statuses :
             \/ IngestResponse(id, status)
             \/ \E dropped \in SUBSET Ids : IngestEarlyResponse(id, status, dropped)
       \/ IngestError(id)
       \/ \E dropped \in SUBSET Ids : IngestEarlyError(id, dropped)

Call == \/ Clear
        \/ \E id \in Ids : RemoveById(id)
        \/ \E kept \in Kept : Retain(kept)
        \/ DrainPending

Wait(w) == \/ Subscribe(w)
           \/ CheckHit(w)
           \/ CheckMiss(w)
           \/ Recv(w)
           \/ Lag(w)
           \/ Timeout(w)

Next == Ingest \/ Call \/ \E w \in Waiters : Wait(w)

Spec == Init /\ [][Next]_vars

-----------------------------------------------------------------------------
(* Properties *)

\* Types of the state, with the two caps the log is built with.
TypeOK ==
    /\ entries \in Seq(Entry)
    /\ by_id \in [Ids -> Nat]
    /\ pending_responses \in [Ids -> Response \union {None}]
    /\ pending_errors \in [Ids -> FetchError \union {None}]
    /\ metrics \in [Counters -> Nat]
    /\ rx \in [Waiters -> Receivers]
    /\ pc \in [Waiters -> {"idle", "check", "recv"}]
    /\ want \in [Waiters -> Wants \union {None}]
    /\ found \in [Waiters -> Entry \union {None}]
    /\ \A w \in Waiters : pc[w] # "idle" => want[w] # None /\ rx[w].on

\* The index finds every entry of the log, at its place, and nothing else,
\* through evictions, removals and bulk filters.  has_response, has_error and
\* both ingestions index the vector with it and would panic or answer for
\* another request otherwise.
Indexes(index, es) ==
    /\ \A id \in Ids : index[id] # 0 =>
          /\ index[id] <= Len(es)
          /\ es[index[id]].id = id
    /\ \A i \in 1..Len(es) : index[es[i].id] = i
IndexOK == Indexes(by_id, entries)

\* An answer filed with a request, or waiting for one, is that request's.
AnswersBelong ==
    /\ \A i \in 1..Len(entries) :
          /\ entries[i].response # None => entries[i].response.id = entries[i].id
          /\ entries[i].error # None => entries[i].error.id = entries[i].id
    /\ \A id \in Ids :
          /\ pending_responses[id] # None => pending_responses[id].id = id
          /\ pending_errors[id] # None => pending_errors[id].id = id

\* An answer waits for its request only while the log has no entry for it; so
\* a resent request never throws away an answer that came early.
PendingIsEarly ==
    \A id \in Ids : by_id[id] # 0 => /\ pending_responses[id] = None
                                     /\ pending_errors[id] = None

\* The log and the two tables of early answers stay within their caps.
WithinCaps ==
    /\ MaxEntries > 0 => Len(entries) <= MaxEntries
    /\ MaxPending > 0 => /\ Cardinality(Pending(pending_responses)) <= MaxPending
                         /\ Cardinality(Pending(pending_errors)) <= MaxPending

\* Every waiter still receiving, and not told that it lost entries, has an
\* acceptable entry queued whenever the log holds one: no answer slips between
\* its look at the log and its first recv.
NoLostWakeup ==
    \A w \in Waiters : pc[w] = "recv" /\ ~rx[w].lagged =>
        \A i \in 1..Len(entries) : Matches(entries[i], want[w]) =>
            \E j \in 1..Len(rx[w].queue) : Matches(rx[w].queue[j], want[w])

\* What the counters say was thrown away was received before, and what is still
\* held was neither thrown away nor counted twice.
CountersAccount ==
    /\ Len(entries) + metrics["entries_evicted"] <= metrics["requests_received"]
    /\ Cardinality(Pending(pending_responses)) + metrics["pending_responses_dropped"]
          + metrics["duplicate_responses"] <= metrics["responses_received"]
    /\ Cardinality(Pending(pending_errors)) + metrics["pending_errors_dropped"]
          + metrics["duplicate_errors"] <= metrics["errors_received"]

GivesUp(w) == pc[w] = "recv" /\ pc'[w] = "idle" /\ found'[w] = None

\* A wait that times out leaves no answer behind: unless its receiver lagged,
\* when it returns None the log holds no entry it would have accepted.  Entries
\* it was sent while the deadline passed are looked at first.
TimesOutOnlyUnanswered ==
    [][\A w \in Waiters : GivesUp(w) /\ ~rx[w].lagged =>
          \A i \in 1..Len(entries) : ~Matches(entries[i], want[w])]_vars

\* The same of every wait, as "wait up to `timeout` for a response to the given
\* request id" (network.rs, wait_for_response) reads.
GivesUpOnlyUnanswered ==
    [][\A w \in Waiters : GivesUp(w) =>
          \A i \in 1..Len(entries) : ~Matches(entries[i], want[w])]_vars

\* The log is a table keyed by request id.
Captured == [id \in Ids |-> IF by_id[id] = 0 THEN None ELSE entries[by_id[id]]]
Keyed == INSTANCE KeyedLog WITH captured <- Captured
ImplementsKeyedLog == Keyed!Spec
=============================================================================
