------------------------------- MODULE Frames -------------------------------
(***************************************************************************)
(* lurien/src/frame.rs and the frame verbs of session.rs: the names a       *)
(* session gives to browsing contexts.  A verb reads the engine's tree,     *)
(* then takes the table's mutex to bring the table up to date, then takes   *)
(* it again to look its handle up; other verbs run between those steps.     *)
(*                                                                         *)
(* A slot is its place in the table, handle f1, f2, ..., and its context.   *)
(* Its url and window.name, which are only reported, are left out.  A page  *)
(* may bring a context back, and a relaunched engine may use its ids again. *)
(***************************************************************************)
EXTENDS Option, Naturals, Sequences, FiniteSets

CONSTANTS Readers, \* tasks that run frame verbs
          Contexts,
          Handles  \* handles a caller may ask for: 1 for f1, 2 for f2, ...

ASSUME HandlesAssumption == Handles \subseteq Nat \ {0}
ASSUME ContextAssumption == None \notin Contexts

VARIABLES page,   \* the contexts in the engine's tree
          slots,  \* the context of each handle, in the order they were minted
          live,   \* the contexts whose slot is marked live
          step,   \* where each task is
          spec,   \* the handle it resolves, or None: it lists the frames
          tree,   \* the tree it read
          answer, \* what it was told
          there,  \* history: contexts it may be told are there
          gone    \* history: contexts it may be told are gone

framesVars == <<page, slots, live, step, spec, tree, answer, there, gone>>

Answers == [is : {"there", "gone"}, context : Contexts] \union [is : {"unknown"}]

Named == {slots[i] : i \in DOMAIN slots}

\* What a task that begins now may still be told of: the tree as it is, and the
\* trees other tasks have read and not yet written to the table.
Trees == {page} \union {tree[t] : t \in {u \in Readers : step[u] = "refresh"}}

-----------------------------------------------------------------------------
FramesInit ==
    /\ page \in SUBSET Contexts
    /\ slots = <<>>
    /\ live = {}
    /\ step = [t \in Readers |-> "idle"]
    /\ spec = [t \in Readers |-> None]
    /\ tree = [t \in Readers |-> {}]
    /\ answer = [t \in Readers |-> None]
    /\ there = [t \in Readers |-> {}]
    /\ gone = [t \in Readers |-> {}]

\* A frame is attached or detached, or the engine replaced.
PageChanges ==
    /\ page' \in SUBSET Contexts \ {page}
    /\ there' = [t \in Readers |-> IF step[t] = "idle" THEN there[t]
                                   ELSE there[t] \union page']
    /\ gone' = [t \in Readers |-> IF step[t] = "idle" THEN gone[t]
                                  ELSE gone[t] \union (Contexts \ page')]
    /\ UNCHANGED <<slots, live, step, spec, tree, answer>>

\* Mutant: a handle the table knows is believed without reading the tree.
RequestTrusting(t) ==
    /\ step[t] = "idle"
    /\ \E h \in Handles \union {None} :
          /\ spec' = [spec EXCEPT ![t] = h]
          /\ step' = [step EXCEPT ![t] = IF h = None THEN "read" ELSE "resolve"]
    /\ answer' = [answer EXCEPT ![t] = None]
    /\ there' = [there EXCEPT ![t] = UNION Trees]
    /\ gone' = [gone EXCEPT ![t] = UNION {Contexts \ s : s \in Trees}]
    /\ UNCHANGED <<page, slots, live, tree>>

Request(t) ==
    /\ step[t] = "idle"
    /\ \E h \in Handles \union {None} : spec' = [spec EXCEPT ![t] = h]
    /\ step' = [step EXCEPT ![t] = "read"]
    /\ answer' = [answer EXCEPT ![t] = None]
    /\ there' = [there EXCEPT ![t] = UNION Trees]
    /\ gone' = [gone EXCEPT ![t] = UNION {Contexts \ s : s \in Trees}]
    /\ UNCHANGED <<page, slots, live, tree>>

ReadTree(t) ==
    /\ step[t] = "read"
    /\ tree' = [tree EXCEPT ![t] = page]
    /\ step' = [step EXCEPT ![t] = "refresh"]
    /\ UNCHANGED <<page, slots, live, spec, answer, there, gone>>

ReadFails(t) ==
    /\ step[t] = "read"
    /\ step' = [step EXCEPT ![t] = "idle"]
    /\ UNCHANGED <<page, slots, live, spec, tree, answer, there, gone>>

\* The contexts that get a handle, in the tree's order, whichever that is.
Minted(new) == {s \in UNION {[1..n -> new] : n \in 0..Cardinality(new)} :
                   /\ \A c \in new : \E i \in DOMAIN s : s[i] = c
                   /\ \A i, j \in DOMAIN s : s[i] = s[j] => i = j}

\* Mutant: dead slots are given to new frames.
RefreshReusing(t) ==
    /\ step[t] = "refresh"
    /\ \E s \in Minted(tree[t] \ Named) :
          slots' = SelectSeq(slots, LAMBDA c : c \in tree[t]) \o s
    /\ live' = tree[t]
    /\ tree' = [tree EXCEPT ![t] = {}]
    /\ step' = [step EXCEPT ![t] = IF spec[t] = None THEN "idle" ELSE "resolve"]
    /\ UNCHANGED <<page, spec, answer, there, gone>>

\* Handles::refresh: every slot dead, then those of the tree live, a new slot
\* for each context that has none.  Listing the frames then reads their names
\* and looks the handles of its tree up.
Refresh(t) ==
    /\ step[t] = "refresh"
    /\ \E s \in Minted(tree[t] \ Named) : slots' = slots \o s
    /\ live' = tree[t]
    /\ tree' = [tree EXCEPT ![t] = {}]
    /\ step' = [step EXCEPT ![t] = IF spec[t] = None THEN "idle" ELSE "resolve"]
    /\ UNCHANGED <<page, spec, answer, there, gone>>

\* frame_target's second look at the table.
Resolve(t) ==
    /\ step[t] = "resolve"
    /\ answer' = [answer EXCEPT ![t] =
          IF spec[t] \notin DOMAIN slots THEN [is |-> "unknown"]
          ELSE [is |-> IF slots[spec[t]] \in live THEN "there" ELSE "gone",
                context |-> slots[spec[t]]]]
    /\ step' = [step EXCEPT ![t] = "idle"]
    /\ UNCHANGED <<page, slots, live, spec, tree, there, gone>>

-----------------------------------------------------------------------------
FramesNext ==
    \/ PageChanges
    \/ \E t \in Readers : \/ Request(t) \/ ReadTree(t) \/ ReadFails(t)
                          \/ Refresh(t) \/ Resolve(t)

FramesSpec == FramesInit /\ [][FramesNext]_framesVars

-----------------------------------------------------------------------------
(* Properties *)

\* Types; a frame has one handle.
FramesTypeOK ==
    /\ page \subseteq Contexts
    /\ slots \in Seq(Contexts)
    /\ \A i, j \in DOMAIN slots : slots[i] = slots[j] => i = j
    /\ live \subseteq Named
    /\ step \in [Readers -> {"idle", "read", "refresh", "resolve"}]
    /\ spec \in [Readers -> Handles \union {None}]
    /\ tree \in [Readers -> SUBSET Contexts]
    /\ answer \in [Readers -> Answers \union {None}]
    /\ there \in [Readers -> SUBSET Contexts]
    /\ gone \in [Readers -> SUBSET Contexts]

\* A handle names one context for the life of the session: it is never taken
\* back, whoever lists or resolves at the same time and whatever the page does.
HandlesKeep ==
    [][\A h \in DOMAIN slots : h \in DOMAIN slots' /\ slots'[h] = slots[h]]_framesVars

\* A handle resolves to a frame that was in the page after the request began,
\* or in a tree another verb had read and not stored by then; it is refused as
\* gone only for a frame that was absent from one of those.  No older reading,
\* of the caller's own or anybody else's, decides.
AnswerIsCurrent ==
    \A t \in Readers :
        answer[t] # None =>
            /\ answer[t].is = "there" => answer[t].context \in there[t]
            /\ answer[t].is = "gone" => answer[t].context \in gone[t]
=============================================================================
