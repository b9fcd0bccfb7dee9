---------------------------- MODULE PersonaLease ----------------------------
(***************************************************************************)
(* What the persona pool promises its callers: the session a caller was    *)
(* given wears one persona until it is released, a retired one is given to *)
(* nobody, and a session is only dressed anew while nobody holds it.       *)
(* PersonaPool implements it.                                              *)
(***************************************************************************)
CONSTANTS Callers,
          Ids,      \* of sessions
          Personas,
          Blank,    \* no persona: the id is free
          None      \* no session

VARIABLES persona, \* what the session of each id wears
          retired, \* ids whose persona is burned
          held     \* the id each caller holds

TypeOK == /\ persona \in [Ids -> Personas \union {Blank}]
          /\ retired \subseteq Ids
          /\ held \in [Callers -> Ids \union {None}]

Init == /\ persona = [i \in Ids |-> Blank]
        /\ retired = {}
        /\ held = [c \in Callers |-> None]

\* The session of one id gets a persona.
Dress(i) ==
    /\ persona'[i] \in Personas
    /\ persona' = [persona EXCEPT ![i] = persona'[i]]

Take(c, i) ==
    /\ held[c] = None
    /\ held' = [held EXCEPT ![c] = i]

Acquire(c, i) ==
    /\ persona[i] # Blank
    /\ i \notin retired
    /\ Take(c, i)
    /\ UNCHANGED <<persona, retired>>

Admit(c, i) ==
    /\ persona[i] = Blank
    /\ Dress(i)
    /\ Take(c, i)
    /\ UNCHANGED retired

Release(c) ==
    /\ held[c] # None
    /\ held' = [held EXCEPT ![c] = None]
    /\ UNCHANGED <<persona, retired>>

Restore(i) ==
    /\ persona[i] = Blank
    /\ Dress(i)
    /\ UNCHANGED <<retired, held>>

Reassign(i) ==
    /\ persona[i] # Blank
    /\ \A c \in Callers : held[c] # i
    /\ Dress(i)
    /\ retired' = retired \ {i}
    /\ UNCHANGED held

Retire(i) ==
    /\ persona[i] # Blank
    /\ retired' = retired \union {i}
    /\ UNCHANGED <<persona, held>>

\* The process ends, and its callers with it.
Forget ==
    /\ persona' = [i \in Ids |-> Blank]
    /\ retired' = {}
    /\ held' = [c \in Callers |-> None]

Next == \/ \E c \in Callers : Release(c)
        \/ \E i \in Ids : Restore(i) \/ Reassign(i) \/ Retire(i)
        \/ \E c \in Callers, i \in Ids : Acquire(c, i) \/ Admit(c, i)
        \/ Forget

Spec == Init /\ [][Next]_<<persona, retired, held>>
=============================================================================
