---------------------------- MODULE FramesProofs ----------------------------
(***************************************************************************)
(* Proofs about Frames, for any tasks, contexts and handles.               *)
(***************************************************************************)
EXTENDS Frames, TLAPS

\* Every reading that may still decide a task's answer is one that began after
\* the task did, or that another task had not stored by then.
Readings ==
    \A t \in Readers :
        step[t] # "idle" =>
            /\ answer[t] = None
            /\ page \subseteq there[t]
            /\ Contexts \ page \subseteq gone[t]
            /\ \A u \in Readers : step[u] = "refresh" =>
                  /\ tree[u] \subseteq there[t]
                  /\ Contexts \ tree[u] \subseteq gone[t]
            /\ step[t] = "resolve" =>
                  /\ live \subseteq there[t]
                  /\ Contexts \ live \subseteq gone[t]

\* The inductive invariant.
FramesInv == FramesTypeOK /\ Readings /\ AnswerIsCurrent

-----------------------------------------------------------------------------
(* New handles *)

\* What a refresh appends: each new context once.
LEMMA MintedOnce ==
    ASSUME NEW new, NEW s \in Minted(new)
    PROVE  /\ s \in Seq(new)
           /\ Len(s) \in Nat
           /\ DOMAIN s = 1..Len(s)
           /\ \A i \in DOMAIN s : s[i] \in new
           /\ \A c \in new : \E i \in DOMAIN s : s[i] = c
           /\ \A i, j \in DOMAIN s : s[i] = s[j] => i = j
<1>1. PICK n \in 0..Cardinality(new) : s \in [1..n -> new]
  BY DEF Minted
<1>2. n \in Nat
  BY <1>1
<1>3. s \in Seq(new) /\ Len(s) = n
  BY <1>1, <1>2
<1> QED BY <1>1, <1>2, <1>3 DEF Minted

\* The table after it: the old handles as they were, one more per new context,
\* and no context twice.
LEMMA RefreshedTable ==
    ASSUME FramesTypeOK, NEW seen \in SUBSET Contexts,
           NEW s \in Minted(seen \ Named), NEW after, after = slots \o s
    PROVE  /\ after \in Seq(Contexts)
           /\ \A h \in DOMAIN slots : h \in DOMAIN after /\ after[h] = slots[h]
           /\ \A i, j \in DOMAIN after : after[i] = after[j] => i = j
<1>1. /\ slots \in Seq(Contexts)
      /\ \A i, j \in DOMAIN slots : slots[i] = slots[j] => i = j
  BY DEF FramesTypeOK
<1>2. /\ s \in Seq(seen \ Named)
      /\ Len(s) \in Nat
      /\ DOMAIN s = 1..Len(s)
      /\ \A i \in DOMAIN s : s[i] \in seen \ Named
      /\ \A c \in seen \ Named : \E i \in DOMAIN s : s[i] = c
      /\ \A i, j \in DOMAIN s : s[i] = s[j] => i = j
  BY MintedOnce
<1>3. s \in Seq(Contexts)
  BY <1>2
<1>4. /\ Len(slots) \in Nat
      /\ DOMAIN slots = 1..Len(slots)
      /\ after \in Seq(Contexts)
      /\ DOMAIN after = 1..(Len(slots) + Len(s))
      /\ \A i \in DOMAIN slots : after[i] = slots[i]
      /\ \A i \in DOMAIN s : after[Len(slots) + i] = s[i]
  BY <1>1, <1>2, <1>3
<1>5. ASSUME NEW i \in DOMAIN after, i \notin DOMAIN slots
      PROVE  i - Len(slots) \in DOMAIN s /\ after[i] = s[i - Len(slots)]
  BY <1>2, <1>4, <1>5
<1>6. \A i \in DOMAIN slots : slots[i] \in Named
  BY DEF Named
<1>7. ASSUME NEW i \in DOMAIN after, NEW j \in DOMAIN after, after[i] = after[j]
      PROVE  i = j
  <2>1. CASE i \in DOMAIN slots /\ j \in DOMAIN slots
    BY <1>1, <1>4, <1>7, <2>1
  <2>2. CASE i \in DOMAIN slots /\ j \notin DOMAIN slots
    BY <1>2, <1>4, <1>5, <1>6, <1>7, <2>2
  <2>3. CASE i \notin DOMAIN slots /\ j \in DOMAIN slots
    BY <1>2, <1>4, <1>5, <1>6, <1>7, <2>3
  <2>4. CASE i \notin DOMAIN slots /\ j \notin DOMAIN slots
    <3>1. i - Len(slots) = j - Len(slots)
      BY <1>2, <1>5, <1>7, <2>4
    <3> QED BY <1>4, <3>1
  <2> QED BY <2>1, <2>2, <2>3, <2>4
<1> QED BY <1>4, <1>7

\* Every context of the tree has a handle after it.
LEMMA RefreshedNames ==
    ASSUME FramesTypeOK, NEW seen \in SUBSET Contexts,
           NEW s \in Minted(seen \ Named), NEW c \in seen
    PROVE  \E i \in DOMAIN (slots \o s) : (slots \o s)[i] = c
<1>1. slots \in Seq(Contexts)
  BY DEF FramesTypeOK
<1>2. /\ s \in Seq(Contexts)
      /\ \A d \in seen \ Named : \E i \in DOMAIN s : s[i] = d
  BY MintedOnce
<1>3. CASE c \in Named
  <2>1. PICK i \in DOMAIN slots : slots[i] = c
    BY <1>3 DEF Named
  <2> QED BY <1>1, <1>2, <2>1
<1>4. CASE c \notin Named
  <2>1. PICK i \in DOMAIN s : s[i] = c
    BY <1>2, <1>4
  <2>2. /\ Len(slots) + i \in DOMAIN (slots \o s)
        /\ (slots \o s)[Len(slots) + i] = c
    BY <1>1, <1>2, <2>1
  <2> QED BY <2>2
<1> QED BY <1>3, <1>4

-----------------------------------------------------------------------------
(* The invariant *)

LEMMA FramesInitInv ==
    ASSUME FramesInit PROVE FramesInv
<1>1. FramesTypeOK
  <2>1. slots = <<>> /\ Named = {}
    BY DEF FramesInit, Named
  <2> QED BY <2>1 DEF FramesInit, FramesTypeOK
<1>2. Readings
  BY DEF FramesInit, Readings
<1>3. AnswerIsCurrent
  BY DEF FramesInit, AnswerIsCurrent
<1> QED BY <1>1, <1>2, <1>3 DEF FramesInv

LEMMA PageChangesInv ==
    ASSUME FramesInv, PageChanges PROVE FramesInv'
<1>1. FramesTypeOK'
  BY DEF FramesInv, FramesTypeOK, PageChanges, Named
<1>2. Readings'
  BY DEF FramesInv, FramesTypeOK, Readings, PageChanges
<1>3. AnswerIsCurrent'
  BY DEF FramesInv, FramesTypeOK, AnswerIsCurrent, PageChanges
<1> QED BY <1>1, <1>2, <1>3 DEF FramesInv

\* What a request may be told of covers every reading not stored yet.
LEMMA RequestInv ==
    ASSUME FramesInv, NEW t \in Readers, Request(t) PROVE FramesInv'
<1>1. FramesTypeOK
  BY DEF FramesInv
<1>2. \A s \in Trees : s \subseteq Contexts
  BY <1>1 DEF FramesTypeOK, Trees
<1>3. UNION Trees \subseteq Contexts /\ UNION {Contexts \ s : s \in Trees} \subseteq Contexts
  BY <1>2
<1>4. FramesTypeOK'
  BY <1>1, <1>3 DEF FramesTypeOK, Request, Named
<1>5. Readings'
  <2>1. page \in Trees /\ \A u \in Readers : step[u] = "refresh" => tree[u] \in Trees
    BY DEF Trees
  <2>2. \A s \in Trees : /\ s \subseteq there'[t]
                         /\ Contexts \ s \subseteq gone'[t]
    BY <1>1 DEF FramesTypeOK, Request
  <2>3. ASSUME NEW u \in Readers, step'[u] # "idle"
        PROVE  /\ answer'[u] = None
               /\ page' \subseteq there'[u]
               /\ Contexts \ page' \subseteq gone'[u]
               /\ \A w \in Readers : step'[w] = "refresh" =>
                     /\ tree'[w] \subseteq there'[u]
                     /\ Contexts \ tree'[w] \subseteq gone'[u]
               /\ step'[u] = "resolve" =>
                     /\ live' \subseteq there'[u]
                     /\ Contexts \ live' \subseteq gone'[u]
    <3>1. \A w \in Readers : step'[w] = "refresh" => step[w] = "refresh"
      BY <1>1 DEF FramesTypeOK, Request
    <3>2. CASE u = t
      BY <1>1, <2>1, <2>2, <3>1, <3>2 DEF FramesTypeOK, Request
    <3>3. CASE u # t
      BY <1>1, <2>3, <3>1, <3>3 DEF FramesInv, FramesTypeOK, Readings, Request
    <3> QED BY <3>2, <3>3
  <2> QED BY <2>3 DEF Readings
<1>6. AnswerIsCurrent'
  BY <1>1 DEF FramesInv, FramesTypeOK, AnswerIsCurrent, Request
<1> QED BY <1>4, <1>5, <1>6 DEF FramesInv

LEMMA ReadTreeInv ==
    ASSUME FramesInv, NEW t \in Readers, ReadTree(t) PROVE FramesInv'
<1>1. FramesTypeOK'
  BY DEF FramesInv, FramesTypeOK, ReadTree, Named
<1>2. Readings'
  BY DEF FramesInv, FramesTypeOK, Readings, ReadTree
<1>3. AnswerIsCurrent'
  BY DEF FramesInv, FramesTypeOK, AnswerIsCurrent, ReadTree
<1> QED BY <1>1, <1>2, <1>3 DEF FramesInv

LEMMA ReadFailsInv ==
    ASSUME FramesInv, NEW t \in Readers, ReadFails(t) PROVE FramesInv'
<1>1. FramesTypeOK'
  BY DEF FramesInv, FramesTypeOK, ReadFails, Named
<1>2. Readings'
  BY DEF FramesInv, FramesTypeOK, Readings, ReadFails
<1>3. AnswerIsCurrent'
  BY DEF FramesInv, FramesTypeOK, AnswerIsCurrent, ReadFails
<1> QED BY <1>1, <1>2, <1>3 DEF FramesInv

LEMMA RefreshInv ==
    ASSUME FramesInv, NEW t \in Readers, Refresh(t) PROVE FramesInv'
<1>1. FramesTypeOK
  BY DEF FramesInv
<1>2. PICK s \in Minted(tree[t] \ Named) : slots' = slots \o s
  BY DEF Refresh
<1>3. tree[t] \subseteq Contexts
  BY <1>1 DEF FramesTypeOK
<1>4. /\ slots' \in Seq(Contexts)
      /\ \A i, j \in DOMAIN slots' : slots'[i] = slots'[j] => i = j
  <2>1. PICK after : after = slots \o s
    OBVIOUS
  <2>2. /\ after \in Seq(Contexts)
        /\ \A i, j \in DOMAIN after : after[i] = after[j] => i = j
    BY <1>1, <1>2, <1>3, <2>1, RefreshedTable
  <2> QED BY <1>2, <2>1, <2>2
<1>5. FramesTypeOK'
  <2>1. ASSUME NEW c \in tree[t] PROVE c \in Named'
    <3>1. \E i \in DOMAIN (slots \o s) : (slots \o s)[i] = c
      BY <1>1, <1>2, <1>3, RefreshedNames
    <3> QED BY <1>2, <3>1 DEF Named
  <2> QED BY <1>1, <1>3, <1>4, <2>1 DEF FramesTypeOK, Refresh
<1>6. Readings'
  BY <1>1 DEF FramesInv, FramesTypeOK, Readings, Refresh
<1>7. AnswerIsCurrent'
  BY <1>1 DEF FramesInv, FramesTypeOK, AnswerIsCurrent, Refresh
<1> QED BY <1>5, <1>6, <1>7 DEF FramesInv

LEMMA ResolveInv ==
    ASSUME FramesInv, NEW t \in Readers, Resolve(t) PROVE FramesInv'
<1>1. FramesTypeOK
  BY DEF FramesInv
<1>2. \A h \in DOMAIN slots : slots[h] \in Contexts
  BY <1>1 DEF FramesTypeOK
<1> DEFINE told == IF spec[t] \notin DOMAIN slots THEN [is |-> "unknown"]
                   ELSE [is |-> IF slots[spec[t]] \in live THEN "there" ELSE "gone",
                         context |-> slots[spec[t]]]
<1>3. answer' = [answer EXCEPT ![t] = told]
  BY DEF Resolve
<1>4. /\ told \in Answers
      /\ told.is = "there" => told.context \in live
      /\ told.is = "gone" => told.context \in Contexts \ live
  BY <1>2 DEF Answers
<1>5. FramesTypeOK'
  <2>1. answer' \in [Readers -> Answers \union {None}]
    BY <1>1, <1>3, <1>4 DEF FramesTypeOK
  <2> QED BY <1>1, <2>1 DEF FramesTypeOK, Resolve, Named
<1>6. Readings'
  <2>1. \A u \in Readers \ {t} : answer'[u] = answer[u]
    BY <1>1, <1>3 DEF FramesTypeOK
  <2> QED BY <1>1, <2>1 DEF FramesInv, FramesTypeOK, Readings, Resolve
<1>7. AnswerIsCurrent'
  <2>1. live \subseteq there[t] /\ Contexts \ live \subseteq gone[t]
    BY DEF FramesInv, Readings, Resolve
  <2>2. answer'[t] = told /\ \A u \in Readers \ {t} : answer'[u] = answer[u]
    BY <1>1, <1>3 DEF FramesTypeOK
  <2>3. there' = there /\ gone' = gone
    BY DEF Resolve
  <2> HIDE DEF told
  <2> QED BY <1>4, <2>1, <2>2, <2>3 DEF FramesInv, AnswerIsCurrent
<1> QED BY <1>5, <1>6, <1>7 DEF FramesInv

LEMMA FramesNextInv ==
    ASSUME FramesInv, [FramesNext]_framesVars PROVE FramesInv'
<1>1. CASE UNCHANGED framesVars
  BY <1>1 DEF FramesInv, FramesTypeOK, Readings, AnswerIsCurrent, framesVars, Named
<1>2. CASE FramesNext
  BY <1>2, PageChangesInv, RequestInv, ReadTreeInv, ReadFailsInv, RefreshInv, ResolveInv
     DEF FramesNext
<1> QED BY <1>1, <1>2

-----------------------------------------------------------------------------
(* Theorems *)

\* The inductive invariant holds, and with it the types.
THEOREM FramesInvariant == FramesSpec => []FramesInv
<1> QED BY FramesInitInv, FramesNextInv, PTL DEF FramesSpec

\* Every handle names one context, and the table's live slots are its own.
THEOREM FramesTypes == FramesSpec => []FramesTypeOK
<1>1. FramesInv => FramesTypeOK
  BY DEF FramesInv
<1> QED BY <1>1, FramesInvariant, PTL

\* A handle resolves by a reading no older than the request, or than what
\* another verb had read and not stored when the request began.
THEOREM AnswersAreCurrent == FramesSpec => []AnswerIsCurrent
<1>1. FramesInv => AnswerIsCurrent
  BY DEF FramesInv
<1> QED BY <1>1, FramesInvariant, PTL

\* A handle is never given to another context.
THEOREM HandlesAreKept == FramesSpec => HandlesKeep
<1> DEFINE Kept == \A h \in DOMAIN slots : h \in DOMAIN slots' /\ slots'[h] = slots[h]
<1>1. ASSUME FramesTypeOK, NEW t \in Readers, Refresh(t) PROVE Kept
  <2>1. PICK s \in Minted(tree[t] \ Named) : slots' = slots \o s
    BY <1>1 DEF Refresh
  <2>2. tree[t] \subseteq Contexts
    BY <1>1 DEF FramesTypeOK
  <2>3. PICK after : after = slots \o s
    OBVIOUS
  <2>4. \A h \in DOMAIN slots : h \in DOMAIN after /\ after[h] = slots[h]
    BY <1>1, <2>2, <2>3, RefreshedTable
  <2> QED BY <2>1, <2>3, <2>4
<1>2. ASSUME FramesTypeOK, [FramesNext]_framesVars PROVE [Kept]_framesVars
  BY <1>1, <1>2
     DEF FramesNext, framesVars, PageChanges, Request, ReadTree, ReadFails,
         Resolve
<1> QED BY <1>2, FramesTypes, PTL DEF FramesSpec, HandlesKeep
=============================================================================
