------------------------------ MODULE KeyedLog ------------------------------
(***************************************************************************)
(* What the captured-traffic log of foxdriver promises its callers: a      *)
(* table of exchanges keyed by request id.  It says nothing of vectors,    *)
(* positions, indices or out-of-order tables; NetworkLog implements it.    *)
(***************************************************************************)
CONSTANTS Ids,      \* request ids the browser may use
          Urls,     \* requested URLs
          Statuses, \* response payloads, told apart by their status
          None      \* "no such thing": no entry, no response, no error

VARIABLE captured   \* captured[id] is the exchange known under id, or None

Response(id) == [id : {id}, status : Statuses]
FetchError(id) == [id : {id}]

\* An exchange filed under id holds answers to that very request.
Exchange(id) == [id : {id}, url : Urls,
                 response : Response(id) \union {None},
                 error : FetchError(id) \union {None}]

TypeOK == /\ DOMAIN captured = Ids
          /\ \A id \in Ids : captured[id] \in Exchange(id) \union {None}

Init == captured = [id \in Ids |-> None]

\* A request not known under its id is filed; older exchanges may be given up
\* to make room for it.
Record(id, drop) ==
    /\ captured[id] = None
    /\ id \notin drop
    /\ \E e \in Exchange(id) :
          captured' = [j \in Ids |-> IF j = id THEN e
                                     ELSE IF j \in drop THEN None
                                     ELSE captured[j]]

\* An answer reaches the exchange it belongs to and no other.  The request is
\* kept as it was and nothing already answered becomes unanswered.
Answer(id) ==
    /\ captured[id] # None
    /\ \E e \in Exchange(id) :
          /\ e.url = captured[id].url
          /\ captured[id].response # None => e.response # None
          /\ captured[id].error # None => e.error # None
          /\ captured' = [captured EXCEPT ![id] = e]

\* Exchanges are removed; the others are untouched.
Forget(drop) ==
    captured' = [j \in Ids |-> IF j \in drop THEN None ELSE captured[j]]

Next == \/ \E id \in Ids, drop \in SUBSET Ids : Record(id, drop)
        \/ \E id \in Ids : Answer(id)
        \/ \E drop \in SUBSET Ids : Forget(drop)

Spec == Init /\ [][Next]_captured
=============================================================================
