----------------------------- MODULE PartsProofs -----------------------------
(***************************************************************************)
(* Proofs about Downloads, for any downloads, names and bound on the log,  *)
(* about EngineProcess, for any engines, verbs and number of attempts, and *)
(* about the run of all five parts, MCParts.                               *)
(***************************************************************************)
EXTENDS MCParts, ControlProofs, FramesProofs, GotoProofs, TLAPS

\* The inductive invariant of Downloads: what the wait has read was paired too.
DownloadsInv == DownloadsTypeOK /\ Paired(log) /\ Paired(seen)

-----------------------------------------------------------------------------
(* The log *)

LEMMA LastOrBefore ==
    \A n \in Nat : \A i \in 1..(n + 1) :
        i = n + 1 \/ (i \in 1..n /\ i \in Nat /\ i < n + 1 /\ i + 0 = i)
OBVIOUS

LEMMA Appended ==
    ASSUME NEW l \in Seq(Entry), NEW e \in Entry, NEW m, m = Append(l, e)
    PROVE  /\ m \in Seq(Entry)
           /\ Len(l) \in Nat
           /\ Len(m) = Len(l) + 1
           /\ DOMAIN m = 1..(Len(l) + 1)
           /\ DOMAIN l = 1..Len(l)
           /\ \A i \in 1..Len(l) : m[i] = l[i]
           /\ m[Len(l) + 1] = e
OBVIOUS

\* m is l with e put last, less the oldest of l at most.
EndsIn(m, l, e) ==
    \E k \in {0, 1} : \A i \in DOMAIN m :
        \/ i = Len(m) /\ m[i] = e
        \/ i \in Nat /\ i < Len(m) /\ i + k \in DOMAIN l /\ m[i] = l[i + k]

\* What is pushed comes last, and the others move down by one at most.
LEMMA Pushed ==
    ASSUME NEW l \in Seq(Entry), Len(l) <= MaxEntries, NEW e \in Entry, NEW m,
           m = IF Len(l) < MaxEntries THEN Append(l, e) ELSE Append(Tail(l), e)
    PROVE  /\ m \in Seq(Entry)
           /\ Len(m) <= MaxEntries
           /\ EndsIn(m, l, e)
<1>1. CASE Len(l) < MaxEntries
  <2>1. m = Append(l, e)
    BY <1>1
  <2>2. /\ m \in Seq(Entry)
        /\ Len(l) \in Nat
        /\ Len(m) = Len(l) + 1
        /\ DOMAIN m = 1..(Len(l) + 1)
        /\ DOMAIN l = 1..Len(l)
        /\ \A i \in 1..Len(l) : m[i] = l[i]
        /\ m[Len(l) + 1] = e
    BY <2>1, Appended
  <2>3. ASSUME NEW i \in DOMAIN m
        PROVE  \/ i = Len(m) /\ m[i] = e
               \/ i \in Nat /\ i < Len(m) /\ i + 0 \in DOMAIN l /\ m[i] = l[i + 0]
    <3>1. i = Len(l) + 1 \/ (i \in 1..Len(l) /\ i \in Nat /\ i < Len(l) + 1 /\ i + 0 = i)
      BY <2>2, LastOrBefore
    <3>2. CASE i \in 1..Len(l) /\ i \in Nat /\ i < Len(l) + 1 /\ i + 0 = i
      BY <2>2, <3>2
    <3> QED BY <2>2, <3>1, <3>2
  <2> QED BY <1>1, <2>2, <2>3, EntriesAssumption DEF EndsIn
<1>2. CASE ~(Len(l) < MaxEntries)
  <2> DEFINE s == Tail(l)
  <2>1. /\ Len(l) = MaxEntries
        /\ l # <<>>
    BY <1>2, EntriesAssumption
  <2>2. /\ s \in Seq(Entry)
        /\ Len(s) = Len(l) - 1
        /\ DOMAIN s = 1..(Len(l) - 1)
        /\ DOMAIN l = 1..Len(l)
        /\ \A i \in 1..(Len(l) - 1) : s[i] = l[i + 1]
    BY <2>1
  <2>3. m = Append(s, e)
    BY <1>2
  <2> HIDE DEF s
  <2>4. /\ m \in Seq(Entry)
        /\ Len(m) = Len(s) + 1
        /\ DOMAIN m = 1..(Len(s) + 1)
        /\ \A i \in 1..Len(s) : m[i] = s[i]
        /\ m[Len(s) + 1] = e
    BY <2>2, <2>3, Appended
  <2>5. \A i \in DOMAIN m :
           \/ i = Len(m) /\ m[i] = e
           \/ i \in Nat /\ i < Len(m) /\ i + 1 \in DOMAIN l /\ m[i] = l[i + 1]
    BY <2>2, <2>4
  <2> QED BY <2>1, <2>2, <2>4, <2>5, EntriesAssumption DEF EndsIn
<1> QED BY <1>1, <1>2

LEMMA LogParts ==
    ASSUME DownloadsInv
    PROVE  /\ log \in Seq(Entry)
           /\ Len(log) <= MaxEntries
           /\ \A i \in DOMAIN log : log[i] \in Entry
BY DEF DownloadsInv, DownloadsTypeOK, LogOK

LEMMA PushedLog ==
    ASSUME DownloadsInv, NEW e \in Entry, PushDownload(e)
    PROVE  /\ log' \in Seq(Entry)
           /\ Len(log') <= MaxEntries
           /\ EndsIn(log', log, e)
<1>1. PICK l, m : l = log /\ m = log'
  OBVIOUS
<1>2. m = IF Len(l) < MaxEntries THEN Append(l, e) ELSE Append(Tail(l), e)
  BY <1>1 DEF PushDownload
<1>3. l \in Seq(Entry) /\ Len(l) <= MaxEntries
  BY <1>1, LogParts
<1>4. /\ m \in Seq(Entry)
      /\ Len(m) <= MaxEntries
      /\ EndsIn(m, l, e)
  BY <1>2, <1>3, Pushed
<1> QED BY <1>1, <1>4

\* A download told of for the first time may be pushed.
LEMMA PushKeeps ==
    ASSUME DownloadsInv, NEW e \in Entry, PushDownload(e),
           key' = key, begun \subseteq begun', ended \subseteq ended',
           e.begin \in (begun' \ begun) \union {None},
           e.end \in (ended' \ ended) \union {None},
           e.begin = None \/ e.end = None,
           e.begin # None \/ e.end # None,
           e.status = "will-begin" <=> e.end = None,
           e.path => e.status = "complete"
    PROVE  LogOK(log)' /\ Paired(log)'
<1>1. LogOK(log) /\ Paired(log)
  BY DEF DownloadsInv, DownloadsTypeOK
<1>2. /\ log' \in Seq(Entry)
      /\ Len(log') <= MaxEntries
      /\ EndsIn(log', log, e)
  BY PushedLog
<1>3. PICK k \in {0, 1} : \A i \in DOMAIN log' :
         \/ i = Len(log') /\ log'[i] = e
         \/ i \in Nat /\ i < Len(log') /\ i + k \in DOMAIN log /\ log'[i] = log[i + k]
  BY <1>2 DEF EndsIn
<1>4. LogOK(log)'
  BY <1>1, <1>2, <1>3 DEF LogOK
<1>5. ASSUME NEW i \in DOMAIN log', NEW j \in DOMAIN log' \ {i}
      PROVE  /\ log'[i].end # None => log'[i].end # log'[j].end
             /\ log'[i].begin # None => log'[i].begin # log'[j].begin
  <2>1. CASE log'[i] = e
    <3>2. CASE i = Len(log')
      BY <1>1, <1>3, <2>1, <3>2 DEF LogOK
    <3>3. CASE j = Len(log')
      BY <1>1, <1>3, <2>1, <3>3 DEF LogOK
    <3>4. CASE i # Len(log') /\ j # Len(log')
      BY <1>1, <1>3, <2>1, <3>4 DEF LogOK
    <3> QED BY <3>2, <3>3, <3>4
  <2>2. CASE i # Len(log') /\ j = Len(log')
    BY <1>1, <1>3, <2>2 DEF LogOK
  <2>3. CASE i # Len(log') /\ j # Len(log')
    <3>1. /\ i + k \in DOMAIN log /\ j + k \in DOMAIN log /\ i + k # j + k
          /\ log'[i] = log[i + k] /\ log'[j] = log[j + k]
      BY <1>3, <2>3
    <3> QED BY <1>1, <3>1 DEF Paired
  <2> QED BY <1>3, <2>1, <2>2, <2>3
<1>6. \A i \in DOMAIN log' :
         log'[i].begin # None /\ log'[i].end # None =>
            key'[log'[i].begin] = key'[log'[i].end]
  BY <1>1, <1>3 DEF Paired
<1> QED BY <1>4, <1>5, <1>6 DEF Paired

\* What was read stays true as more is told.
LEMMA ReadKeeps ==
    ASSUME NEW l, LogOK(l), Paired(l), key' = key, begun \subseteq begun', ended \subseteq ended'
    PROVE  LogOK(l)' /\ Paired(l)'
BY DEF LogOK, Paired

LEMMA IngestBeginInv ==
    ASSUME DownloadsInv, NEW d \in Transfers, IngestBegin(d) PROVE DownloadsInv'
<1> DEFINE e == [begin |-> d, end |-> None, status |-> "will-begin", path |-> FALSE]
<1>1. e \in Entry /\ d # None
  BY TransferAssumption DEF Entry
<1>2. LogOK(log)' /\ Paired(log)'
  <2>1. /\ PushDownload(e) /\ key' = key /\ begun' = begun \union {d} /\ ended' = ended
        /\ d \notin begun
    BY DEF IngestBegin
  <2>2. /\ e.begin = d /\ e.end = None /\ e.status = "will-begin" /\ e.path = FALSE
    OBVIOUS
  <2> HIDE DEF e
  <2> QED BY <1>1, <2>1, <2>2, PushKeeps
<1>3. LogOK(seen)' /\ Paired(seen)'
  <2>1. PICK l : l = seen
    OBVIOUS
  <2>2. LogOK(l) /\ Paired(l)
    BY <2>1 DEF DownloadsInv, DownloadsTypeOK
  <2>3. LogOK(l)' /\ Paired(l)'
    BY <2>2, ReadKeeps DEF IngestBegin
  <2>4. seen' = l
    BY <2>1 DEF IngestBegin, wait
  <2> QED BY <2>3, <2>4 DEF LogOK, Paired
<1> QED BY <1>2, <1>3 DEF DownloadsInv, DownloadsTypeOK, IngestBegin, wait

LEMMA IngestEndInv ==
    ASSUME DownloadsInv, NEW d \in Transfers, IngestEnd(d) PROVE DownloadsInv'
<1>1. PICK how \in [status : {"complete", "canceled"}, path : BOOLEAN] :
         /\ how.status = "canceled" => ~how.path
         /\ \/ \E i \in InFlight(d) :
                  log' = [log EXCEPT ![i] = [begin |-> @.begin, end |-> d,
                                             status |-> how.status, path |-> how.path]]
            \/ PushDownload([begin |-> None, end |-> d, status |-> how.status,
                             path |-> how.path])
  BY DEF IngestEnd
<1>2. /\ d \notin ended /\ ended' = ended \union {d} /\ begun' = begun /\ key' = key
      /\ d # None
  BY TransferAssumption DEF IngestEnd
<1>3. LogOK(log) /\ Paired(log)
  BY DEF DownloadsInv, DownloadsTypeOK
<1>4. ASSUME NEW i \in InFlight(d),
             log' = [log EXCEPT ![i] = [begin |-> @.begin, end |-> d,
                                        status |-> how.status, path |-> how.path]]
      PROVE  LogOK(log)' /\ Paired(log)'
  <2> DEFINE e == [begin |-> log[i].begin, end |-> d, status |-> how.status,
                   path |-> how.path]
  <2>1. /\ i \in DOMAIN log /\ log[i].status = "will-begin"
        /\ log[i].end = None /\ log[i].begin \in begun /\ log[i].begin # None
        /\ key[log[i].begin] = key[d]
    BY <1>3, <1>4 DEF InFlight, LogOK, KeyOf
  <2>2. log[i] \in Entry /\ e \in Entry
    BY <2>1, LogParts DEF Entry
  <2>3. log' = [log EXCEPT ![i] = e]
    BY <1>4, <2>1
  <2>4. /\ e.begin = log[i].begin /\ e.end = d /\ e.status = how.status /\ e.path = how.path
    OBVIOUS
  <2> HIDE DEF e
  <2>5. /\ log' \in Seq(Entry) /\ Len(log') = Len(log) /\ DOMAIN log' = DOMAIN log
        /\ log'[i] = e /\ \A j \in DOMAIN log \ {i} : log'[j] = log[j]
    BY <2>1, <2>2, <2>3, LogParts
  <2>6. LogOK(log)'
    <3>1. Len(log') <= MaxEntries
      BY <1>3, <2>5 DEF LogOK
    <3>2. ASSUME NEW j \in DOMAIN log'
          PROVE  /\ log'[j].begin \in begun \union {None}
                 /\ log'[j].end \in ended' \union {None}
                 /\ log'[j].begin # None \/ log'[j].end # None
                 /\ log'[j].status = "will-begin" <=> log'[j].end = None
                 /\ log'[j].path => log'[j].status = "complete"
      <4>1. CASE j = i
        BY <1>1, <1>2, <2>1, <2>4, <2>5, <4>1
      <4>2. CASE j # i
        BY <1>2, <1>3, <2>5, <4>2 DEF LogOK
      <4> QED BY <4>1, <4>2
    <3> QED BY <1>2, <2>5, <3>1, <3>2 DEF LogOK
  <2>7. Paired(log)'
    BY <1>2, <1>3, <2>1, <2>4, <2>5 DEF Paired, LogOK
  <2> QED BY <2>6, <2>7
<1>5. ASSUME PushDownload([begin |-> None, end |-> d, status |-> how.status,
                           path |-> how.path])
      PROVE  LogOK(log)' /\ Paired(log)'
  <2> DEFINE e == [begin |-> None, end |-> d, status |-> how.status, path |-> how.path]
  <2>1. e \in Entry
    BY DEF Entry
  <2>2. /\ e.begin = None /\ e.end = d /\ e.status = how.status /\ e.path = how.path
    OBVIOUS
  <2>3. PushDownload(e)
    BY <1>5
  <2> HIDE DEF e
  <2> QED BY <1>1, <1>2, <2>1, <2>2, <2>3, PushKeeps
<1>6. LogOK(log)' /\ Paired(log)'
  BY <1>1, <1>4, <1>5
<1>7. LogOK(seen)' /\ Paired(seen)'
  <2>1. PICK l : l = seen
    OBVIOUS
  <2>2. LogOK(l) /\ Paired(l)
    BY <2>1 DEF DownloadsInv, DownloadsTypeOK
  <2>3. LogOK(l)' /\ Paired(l)'
    BY <1>2, <2>2, ReadKeeps
  <2>4. seen' = l
    BY <2>1 DEF IngestEnd, wait
  <2> QED BY <2>3, <2>4 DEF LogOK, Paired
<1> QED BY <1>6, <1>7 DEF DownloadsInv, DownloadsTypeOK, IngestEnd, wait

\* What takes the log as it is, and reads it or forgets it, keeps the invariant.
LEMMA WaitInv ==
    ASSUME DownloadsInv,
           WaitBegins \/ Poll \/ Found \/ GivesUp \/ Sleep
    PROVE  DownloadsInv'
<1>1. UNCHANGED events /\ seen' \in {seen, log, <<>>}
  BY DEF WaitBegins, Poll, Found, GivesUp, Sleep, Told
<1>2. LogOK(<<>>)' /\ Paired(<<>>)'
  BY EntriesAssumption DEF LogOK, Paired
<1>3. LogOK(seen)' /\ Paired(seen)'
  <2>1. CASE seen' = <<>>
    BY <1>2, <2>1 DEF LogOK, Paired
  <2>2. CASE seen' = seen
    BY <1>1, <2>2 DEF DownloadsInv, DownloadsTypeOK, LogOK, Paired, events
  <2>3. CASE seen' = log
    BY <1>1, <2>3 DEF DownloadsInv, DownloadsTypeOK, LogOK, Paired, events
  <2> QED BY <1>1, <2>1, <2>2, <2>3
<1>4. LogOK(log)' /\ Paired(log)'
  BY <1>1 DEF DownloadsInv, DownloadsTypeOK, LogOK, Paired, events
<1>5. /\ wanted' \in Names \union {None}
      /\ turn' \in {"idle", "poll", "decide"}
  BY DEF DownloadsInv, DownloadsTypeOK, WaitBegins, Poll, Found, GivesUp, Sleep, Told
<1>6. outcome' \in [is : {"none", "failed"}] \union [is : {"file"}, of : Transfers]
  <2>1. CASE Found
    <3>1. PICK i \in Finished : Told([is |-> "file", of |-> seen[i].end])
      BY <2>1 DEF Found
    <3>2. seen[i].end \in Transfers
      BY <3>1 DEF Finished, OnDisk, DownloadsInv, DownloadsTypeOK
    <3> QED BY <3>1, <3>2 DEF Told
  <2>2. CASE ~Found
    BY <2>2 DEF DownloadsInv, DownloadsTypeOK, WaitBegins, Poll, GivesUp, Sleep, Told
  <2> QED BY <2>1, <2>2
<1> QED BY <1>1, <1>3, <1>4, <1>5, <1>6 DEF DownloadsInv, DownloadsTypeOK, events

LEMMA DownloadsNextInv ==
    ASSUME DownloadsInv, [DownloadsNext]_downloadsVars PROVE DownloadsInv'
<1>1. ASSUME NEW d \in Transfers, Lands(d) PROVE DownloadsInv'
  BY <1>1 DEF Lands, wait, DownloadsInv, DownloadsTypeOK, LogOK, Paired
<1>2. CASE Clear
  <2>1. LogOK(<<>>)' /\ Paired(<<>>)'
    BY EntriesAssumption DEF LogOK, Paired
  <2> QED BY <1>2, <2>1 DEF Clear, wait, DownloadsInv, DownloadsTypeOK, LogOK, Paired
<1>3. CASE UNCHANGED downloadsVars
  BY <1>3 DEF downloadsVars, events, wait, DownloadsInv, DownloadsTypeOK, LogOK, Paired
<1> QED BY <1>1, <1>2, <1>3, IngestBeginInv, IngestEndInv, WaitInv DEF DownloadsNext

LEMMA DownloadsInitInv == DownloadsInit => DownloadsInv
BY EntriesAssumption DEF DownloadsInit, DownloadsInv, DownloadsTypeOK, LogOK, Paired

-----------------------------------------------------------------------------
(* Theorems about Downloads *)

\* The inductive invariant holds.
THEOREM DownloadsInvariant == DownloadsSpec => []DownloadsInv
<1> QED BY DownloadsInitInv, DownloadsNextInv, PTL DEF DownloadsSpec

\* The types hold.
THEOREM DownloadsTypes == DownloadsSpec => []DownloadsTypeOK
<1>1. DownloadsInv => DownloadsTypeOK
  BY DEF DownloadsInv
<1> QED BY <1>1, DownloadsInvariant, PTL

\* No captured download has the end of one of another context or URL.
THEOREM EndsMeetTheirKind == DownloadsSpec => []EndsWithItsKind
<1>1. DownloadsInv => EndsWithItsKind
  BY DEF DownloadsInv, EndsWithItsKind
<1> QED BY <1>1, DownloadsInvariant, PTL

\* A wait answers with a file that is there, of the wanted name or of one that
\* shares its context and URL, and misses none it had read the end of.
THEOREM WaitsFindTheirFile == DownloadsSpec => WaitFindsTheFile
<1> DEFINE Right ==
      turn = "decide" /\ turn' = "idle" =>
         /\ outcome'.is = "file" =>
               /\ outcome'.of \in disk
               /\ wanted # None => \E d \in begun \union ended :
                                      /\ name[d] = wanted
                                      /\ key[d] = key[outcome'.of]
         /\ outcome'.is = "failed" =>
               \A i \in DOMAIN seen :
                   ~ /\ seen[i].path
                     /\ seen[i].end \in disk
                     /\ wanted \in {None, name[seen[i].end]}
<1>1. ASSUME DownloadsInv, Found PROVE Right
  <2>1. PICK i \in Finished : Told([is |-> "file", of |-> seen[i].end])
    BY <1>1 DEF Found
  <2>2. /\ i \in DOMAIN seen /\ Matches(seen[i]) /\ seen[i].path /\ seen[i].end \in disk
    BY <2>1 DEF Finished, OnDisk
  <2>3. /\ seen[i].end \in ended /\ seen[i].end # None
        /\ seen[i].begin \in begun \union {None}
    BY <1>1, <2>2 DEF DownloadsInv, DownloadsTypeOK, LogOK
  <2>4. ASSUME wanted # None
        PROVE  \E d \in begun \union ended : name[d] = wanted /\ key[d] = key[seen[i].end]
    <3>1. CASE seen[i].begin # None /\ name[seen[i].begin] = wanted
      BY <1>1, <2>2, <2>3, <3>1 DEF DownloadsInv, Paired
    <3>2. CASE name[seen[i].end] = wanted
      BY <2>3, <3>2
    <3> QED BY <2>2, <2>4, <3>1, <3>2 DEF Matches, Suggested
  <2> QED BY <2>1, <2>2, <2>4 DEF Told
<1>2. ASSUME DownloadsInv, GivesUp PROVE Right
  <2>1. Finished = {} /\ outcome' = [is |-> "failed"]
    BY <1>2 DEF GivesUp, Told
  <2>2. \A i \in DOMAIN seen : seen[i].path => seen[i].status = "complete"
    BY <1>2 DEF DownloadsInv, DownloadsTypeOK, LogOK
  <2> QED BY <2>1, <2>2 DEF Finished, Matches, OnDisk
<1>3. ASSUME DownloadsInv, [DownloadsNext]_downloadsVars PROVE [Right]_downloadsVars
  <2>1. CASE turn = "decide" /\ turn' = "idle"
    <3>1. Found \/ GivesUp
      BY <1>3, <2>1
         DEF DownloadsNext, downloadsVars, wait, Lands, IngestBegin, IngestEnd,
         Clear, WaitBegins, Poll, Sleep
    <3> QED BY <1>1, <1>2, <1>3, <3>1
  <2> QED BY <2>1
<1> QED BY <1>3, DownloadsInvariant, PTL DEF DownloadsSpec, WaitFindsTheFile

-----------------------------------------------------------------------------
(* EngineProcess *)

\* An engine that serves pages is past its attempts, and one that is ended
\* without having been attached is still at one; what is not on disk is that of
\* a running engine with its tabs open, which no failed attempt is about.
ServedOK(e) ==
    /\ stage[e] \in {"spawn", "ready", "attach"} => attempt[e] # 0
    /\ stage[e] \in {"seed", "held", "quit"} => attempt[e] = 0
    /\ stage[e] = "reap" /\ attempt[e] = 0 => e \in dropped
    /\ e \in dirty => /\ stage[e] \in {"seed", "held", "quit", "reap"}
                      /\ attempt[e] = 0
                      /\ proc[e] = "running"
                      /\ e \notin torn

ProcessInv == /\ ProcessTypeOK
              /\ NoStrayProcess
              /\ \A e \in Engines : ServedOK(e)

\* What an attempt that ends leads to.
LEMMA NextAttemptTo ==
    ASSUME ProcessTypeOK, NEW e \in Engines, NextAttempt(e)
    PROVE  /\ stage' \in [Engines -> {"none", "spawn", "ready", "attach", "seed", "held",
                                      "quit", "reap"}]
           /\ attempt' \in [Engines -> 0..LaunchAttempts]
           /\ \/ stage'[e] = "spawn" /\ attempt'[e] # 0
              \/ stage'[e] = "none"
           /\ \A f \in Engines \ {e} : stage'[f] = stage[f] /\ attempt'[f] = attempt[f]
<1>1. CASE attempt[e] \in 1 .. LaunchAttempts - 1
  <2>1. attempt[e] + 1 \in 0..LaunchAttempts /\ attempt[e] + 1 # 0
    BY <1>1, AttemptsAssumption
  <2>2. /\ stage' = Put(stage, e, "spawn")
        /\ attempt' = Put(attempt, e, attempt[e] + 1)
    BY <1>1 DEF NextAttempt
  <2> QED BY <2>1, <2>2 DEF ProcessTypeOK, Put
<1>2. CASE attempt[e] \notin 1 .. LaunchAttempts - 1
  <2>1. 0 \in 0..LaunchAttempts
    BY AttemptsAssumption
  <2>2. /\ stage' = Put(stage, e, "none")
        /\ attempt' = Put(attempt, e, 0)
    BY <1>2 DEF NextAttempt
  <2> QED BY <2>1, <2>2 DEF ProcessTypeOK, Put
<1> QED BY <1>1, <1>2

LEMMA ProcessTypesKept ==
    ASSUME ProcessInv, ProcessNext PROVE ProcessTypeOK'
<1>1. ASSUME NEW e \in Engines, Launch(e) PROVE ProcessTypeOK'
  BY <1>1, AttemptsAssumption DEF Launch, Put, ProcessInv, ProcessTypeOK, NoStrayProcess
<1>2. ASSUME NEW e \in Engines, SpawnProcess(e) PROVE ProcessTypeOK'
  BY <1>2, NextAttemptTo
     DEF SpawnProcess, Put, ProcessInv, ProcessTypeOK, NoStrayProcess
<1>3. ASSUME NEW e \in Engines, Ready(e) PROVE ProcessTypeOK'
  BY <1>3 DEF Ready, Put, ProcessInv, ProcessTypeOK, NoStrayProcess
<1>4. ASSUME NEW e \in Engines, Attach(e) PROVE ProcessTypeOK'
  BY <1>4, AttemptsAssumption DEF Attach, Put, ProcessInv, ProcessTypeOK, NoStrayProcess
<1>5. ASSUME NEW e \in Engines, AttemptFails(e) PROVE ProcessTypeOK'
  BY <1>5 DEF AttemptFails, Put, ProcessInv, ProcessTypeOK, NoStrayProcess
<1>6. ASSUME NEW e \in Engines, SeedFails(e) PROVE ProcessTypeOK'
  BY <1>6 DEF SeedFails, Put, ProcessInv, ProcessTypeOK, NoStrayProcess
<1>7. ASSUME NEW e \in Engines, PageWrites(e) PROVE ProcessTypeOK'
  BY <1>7 DEF PageWrites, Alive, ProcessInv, ProcessTypeOK, NoStrayProcess
<1>8. ASSUME NEW e \in Engines, Flush(e) PROVE ProcessTypeOK'
  BY <1>8 DEF Flush, ProcessInv, ProcessTypeOK, NoStrayProcess
<1>9. ASSUME NEW e \in Engines, Hang(e) PROVE ProcessTypeOK'
  BY <1>9 DEF Hang, Alive, ProcessInv, ProcessTypeOK, NoStrayProcess
<1>10. ASSUME NEW e \in Engines, Crash(e) PROVE ProcessTypeOK'
  BY <1>10 DEF Crash, Put, Gone, ProcessInv, ProcessTypeOK, NoStrayProcess
<1>11. ASSUME NEW e \in Engines, TearDown(e) PROVE ProcessTypeOK'
  BY <1>11 DEF TearDown, Alive, ProcessInv, ProcessTypeOK, NoStrayProcess
<1>12. ASSUME NEW e \in Engines, Exit(e) PROVE ProcessTypeOK'
  BY <1>12 DEF Exit, Put, Gone, ProcessInv, ProcessTypeOK, NoStrayProcess
<1>13. ASSUME NEW e \in Engines, CloseEnds(e) PROVE ProcessTypeOK'
  BY <1>13 DEF CloseEnds, Put, Gone, Reap, ProcessInv, ProcessTypeOK, NoStrayProcess
<1>14. ASSUME NEW e \in Engines, TerminateAndReap(e) PROVE ProcessTypeOK'
  BY <1>14, NextAttemptTo
     DEF TerminateAndReap, Put, Gone, Reap, ProcessInv, ProcessTypeOK,
         NoStrayProcess
<1>15. ASSUME NEW e \in Engines, NEW v \in Verbs, Seeded(e, v) PROVE ProcessTypeOK'
  BY <1>15, NotAnEngine
     DEF Seeded, Put, Retire, Free, ProcessInv, ProcessTypeOK, NoStrayProcess
<1>16. ASSUME NEW e \in Engines, NEW v \in Verbs, Done(v, e) PROVE ProcessTypeOK'
  BY <1>16, NotAnEngine DEF Done, Put, ProcessInv, ProcessTypeOK, NoStrayProcess
<1>17. ASSUME NEW v \in Verbs, Use(v) PROVE ProcessTypeOK'
  BY <1>17, NotAnEngine DEF Use, Put, Free, ProcessInv, ProcessTypeOK, NoStrayProcess
<1>18. ASSUME Close PROVE ProcessTypeOK'
  BY <1>18, NotAnEngine
     DEF Close, Put, Retire, ProcessInv, ProcessTypeOK, NoStrayProcess
<1> QED BY <1>1, <1>2, <1>3, <1>4, <1>5, <1>6, <1>7, <1>8, <1>9, <1>10, <1>11,
   <1>12, <1>13, <1>14, <1>15, <1>16, <1>17, <1>18
   DEF ProcessNext

LEMMA StrayKept ==
    ASSUME ProcessInv, ProcessNext PROVE NoStrayProcess'
<1>1. ASSUME NEW e \in Engines, Launch(e) PROVE NoStrayProcess'
  BY <1>1, AttemptsAssumption DEF Launch, Put, ProcessInv, ProcessTypeOK, NoStrayProcess
<1>2. ASSUME NEW e \in Engines, SpawnProcess(e) PROVE NoStrayProcess'
  BY <1>2, NextAttemptTo
     DEF SpawnProcess, Put, ProcessInv, ProcessTypeOK, NoStrayProcess
<1>3. ASSUME NEW e \in Engines, Ready(e) PROVE NoStrayProcess'
  BY <1>3 DEF Ready, Put, ProcessInv, ProcessTypeOK, NoStrayProcess
<1>4. ASSUME NEW e \in Engines, Attach(e) PROVE NoStrayProcess'
  BY <1>4, AttemptsAssumption DEF Attach, Put, ProcessInv, ProcessTypeOK, NoStrayProcess
<1>5. ASSUME NEW e \in Engines, AttemptFails(e) PROVE NoStrayProcess'
  BY <1>5 DEF AttemptFails, Put, ProcessInv, ProcessTypeOK, NoStrayProcess
<1>6. ASSUME NEW e \in Engines, SeedFails(e) PROVE NoStrayProcess'
  BY <1>6 DEF SeedFails, Put, ProcessInv, ProcessTypeOK, NoStrayProcess
<1>7. ASSUME NEW e \in Engines, PageWrites(e) PROVE NoStrayProcess'
  BY <1>7 DEF PageWrites, Alive, ProcessInv, ProcessTypeOK, NoStrayProcess
<1>8. ASSUME NEW e \in Engines, Flush(e) PROVE NoStrayProcess'
  BY <1>8 DEF Flush, ProcessInv, ProcessTypeOK, NoStrayProcess
<1>9. ASSUME NEW e \in Engines, Hang(e) PROVE NoStrayProcess'
  BY <1>9 DEF Hang, Alive, ProcessInv, ProcessTypeOK, NoStrayProcess
<1>10. ASSUME NEW e \in Engines, Crash(e) PROVE NoStrayProcess'
  BY <1>10 DEF Crash, Put, Gone, ProcessInv, ProcessTypeOK, NoStrayProcess
<1>11. ASSUME NEW e \in Engines, TearDown(e) PROVE NoStrayProcess'
  BY <1>11 DEF TearDown, Alive, ProcessInv, ProcessTypeOK, NoStrayProcess
<1>12. ASSUME NEW e \in Engines, Exit(e) PROVE NoStrayProcess'
  BY <1>12 DEF Exit, Put, Gone, ProcessInv, ProcessTypeOK, NoStrayProcess
<1>13. ASSUME NEW e \in Engines, CloseEnds(e) PROVE NoStrayProcess'
  BY <1>13 DEF CloseEnds, Put, Gone, Reap, ProcessInv, ProcessTypeOK, NoStrayProcess
<1>14. ASSUME NEW e \in Engines, TerminateAndReap(e) PROVE NoStrayProcess'
  BY <1>14, NextAttemptTo
     DEF TerminateAndReap, Put, Gone, Reap, ProcessInv, ProcessTypeOK,
         NoStrayProcess
<1>15. ASSUME NEW e \in Engines, NEW v \in Verbs, Seeded(e, v) PROVE NoStrayProcess'
  BY <1>15, NotAnEngine
     DEF Seeded, Put, Retire, Free, ProcessInv, ProcessTypeOK, NoStrayProcess
<1>16. ASSUME NEW e \in Engines, NEW v \in Verbs, Done(v, e) PROVE NoStrayProcess'
  BY <1>16, NotAnEngine DEF Done, Put, ProcessInv, ProcessTypeOK, NoStrayProcess
<1>17. ASSUME NEW v \in Verbs, Use(v) PROVE NoStrayProcess'
  BY <1>17, NotAnEngine DEF Use, Put, Free, ProcessInv, ProcessTypeOK, NoStrayProcess
<1>18. ASSUME Close PROVE NoStrayProcess'
  BY <1>18, NotAnEngine
     DEF Close, Put, Retire, ProcessInv, ProcessTypeOK, NoStrayProcess
<1> QED BY <1>1, <1>2, <1>3, <1>4, <1>5, <1>6, <1>7, <1>8, <1>9, <1>10, <1>11,
   <1>12, <1>13, <1>14, <1>15, <1>16, <1>17, <1>18
   DEF ProcessNext

LEMMA ServedKept ==
    ASSUME ProcessInv, ProcessNext PROVE \A f \in Engines : ServedOK(f)'
<1>1. ASSUME NEW e \in Engines, Launch(e) PROVE \A f \in Engines : ServedOK(f)'
  BY <1>1, AttemptsAssumption
     DEF Launch, Put, ProcessInv, ProcessTypeOK, NoStrayProcess, ServedOK
<1>2. ASSUME NEW e \in Engines, SpawnProcess(e) PROVE \A f \in Engines : ServedOK(f)'
  BY <1>2, NextAttemptTo
     DEF SpawnProcess, Put, ProcessInv, ProcessTypeOK, NoStrayProcess, ServedOK
<1>3. ASSUME NEW e \in Engines, Ready(e) PROVE \A f \in Engines : ServedOK(f)'
  BY <1>3 DEF Ready, Put, ProcessInv, ProcessTypeOK, NoStrayProcess, ServedOK
<1>4. ASSUME NEW e \in Engines, Attach(e) PROVE \A f \in Engines : ServedOK(f)'
  BY <1>4, AttemptsAssumption
     DEF Attach, Put, ProcessInv, ProcessTypeOK, NoStrayProcess, ServedOK
<1>5. ASSUME NEW e \in Engines, AttemptFails(e) PROVE \A f \in Engines : ServedOK(f)'
  BY <1>5 DEF AttemptFails, Put, ProcessInv, ProcessTypeOK, NoStrayProcess, ServedOK
<1>6. ASSUME NEW e \in Engines, SeedFails(e) PROVE \A f \in Engines : ServedOK(f)'
  BY <1>6 DEF SeedFails, Put, ProcessInv, ProcessTypeOK, NoStrayProcess, ServedOK
<1>7. ASSUME NEW e \in Engines, PageWrites(e) PROVE \A f \in Engines : ServedOK(f)'
  BY <1>7 DEF PageWrites, Alive, ProcessInv, ProcessTypeOK, NoStrayProcess, ServedOK
<1>8. ASSUME NEW e \in Engines, Flush(e) PROVE \A f \in Engines : ServedOK(f)'
  BY <1>8 DEF Flush, ProcessInv, ProcessTypeOK, NoStrayProcess, ServedOK
<1>9. ASSUME NEW e \in Engines, Hang(e) PROVE \A f \in Engines : ServedOK(f)'
  BY <1>9 DEF Hang, Alive, ProcessInv, ProcessTypeOK, NoStrayProcess, ServedOK
<1>10. ASSUME NEW e \in Engines, Crash(e) PROVE \A f \in Engines : ServedOK(f)'
  BY <1>10 DEF Crash, Put, Gone, ProcessInv, ProcessTypeOK, NoStrayProcess, ServedOK
<1>11. ASSUME NEW e \in Engines, TearDown(e) PROVE \A f \in Engines : ServedOK(f)'
  BY <1>11 DEF TearDown, Alive, ProcessInv, ProcessTypeOK, NoStrayProcess, ServedOK
<1>12. ASSUME NEW e \in Engines, Exit(e) PROVE \A f \in Engines : ServedOK(f)'
  BY <1>12 DEF Exit, Put, Gone, ProcessInv, ProcessTypeOK, NoStrayProcess, ServedOK
<1>13. ASSUME NEW e \in Engines, CloseEnds(e) PROVE \A f \in Engines : ServedOK(f)'
  BY <1>13
     DEF CloseEnds, Put, Gone, Reap, ProcessInv, ProcessTypeOK, NoStrayProcess,
         ServedOK
<1>14. ASSUME NEW e \in Engines, TerminateAndReap(e) PROVE \A f \in Engines : ServedOK(f)'
  BY <1>14, NextAttemptTo
     DEF TerminateAndReap, Put, Gone, Reap, ProcessInv, ProcessTypeOK,
         NoStrayProcess, ServedOK
<1>15. ASSUME NEW e \in Engines, NEW v \in Verbs, Seeded(e, v) PROVE \A f \in Engines : ServedOK(f)'
  BY <1>15, NotAnEngine
     DEF Seeded, Put, Retire, Free, ProcessInv, ProcessTypeOK, NoStrayProcess,
         ServedOK
<1>16. ASSUME NEW e \in Engines, NEW v \in Verbs, Done(v, e) PROVE \A f \in Engines : ServedOK(f)'
  BY <1>16, NotAnEngine
     DEF Done, Put, ProcessInv, ProcessTypeOK, NoStrayProcess, ServedOK
<1>17. ASSUME NEW v \in Verbs, Use(v) PROVE \A f \in Engines : ServedOK(f)'
  BY <1>17, NotAnEngine
     DEF Use, Put, Free, ProcessInv, ProcessTypeOK, NoStrayProcess, ServedOK
<1>18. ASSUME Close PROVE \A f \in Engines : ServedOK(f)'
  BY <1>18, NotAnEngine
     DEF Close, Put, Retire, ProcessInv, ProcessTypeOK, NoStrayProcess, ServedOK
<1> QED BY <1>1, <1>2, <1>3, <1>4, <1>5, <1>6, <1>7, <1>8, <1>9, <1>10, <1>11,
   <1>12, <1>13, <1>14, <1>15, <1>16, <1>17, <1>18
   DEF ProcessNext

LEMMA ProcessInitInv == ProcessInit => ProcessInv
<1>1. 0 \in 0..LaunchAttempts
  BY AttemptsAssumption
<1> QED BY <1>1, NotAnEngine
   DEF ProcessInit, ProcessInv, ProcessTypeOK, NoStrayProcess, ServedOK

LEMMA ProcessNextInv ==
    ASSUME ProcessInv, [ProcessNext]_processVars PROVE ProcessInv'
<1>1. CASE UNCHANGED processVars
  BY <1>1 DEF processVars, ProcessInv, ProcessTypeOK, NoStrayProcess, ServedOK
<1> QED BY <1>1, ProcessTypesKept, StrayKept, ServedKept DEF ProcessInv

-----------------------------------------------------------------------------
(* Theorems about EngineProcess *)

\* The inductive invariant holds.
THEOREM ProcessInvariant == ProcessSpec => []ProcessInv
<1> QED BY ProcessInitInv, ProcessNextInv, PTL DEF ProcessSpec

\* The types hold, and a verb holds one page at a time.
THEOREM ProcessTypes == ProcessSpec => []ProcessTypeOK
<1>1. ProcessInv => ProcessTypeOK
  BY DEF ProcessInv
<1> QED BY <1>1, ProcessInvariant, PTL

\* No process is left behind.
THEOREM NoneIsStray == ProcessSpec => []NoStrayProcess
<1>1. ProcessInv => NoStrayProcess
  BY DEF ProcessInv
<1> QED BY <1>1, ProcessInvariant, PTL

\* An engine that is ended with writes not on disk hung or was dropped.
THEOREM ClosesFlush == ProcessSpec => CloseFlushes
<1>1. ASSUME ProcessInv, ProcessNext, NEW e \in dirty, proc'[e] = "none"
      PROVE  e \in hung \union dropped
  <2>1. e \in Engines /\ ServedOK(e)
    BY <1>1 DEF ProcessInv, ProcessTypeOK
  <2>2. proc[e] = "running" /\ proc \in [Engines -> {"none", "running", "exited"}]
    BY <1>1, <2>1 DEF ServedOK, ProcessInv, ProcessTypeOK
  <2>3. CloseEnds(e) \/ TerminateAndReap(e)
    BY <1>1, <2>1, <2>2
       DEF ProcessNext, Launch, SpawnProcess, Ready, Attach, AttemptFails,
           SeedFails, PageWrites, Flush, Hang, Crash, TearDown, Exit, CloseEnds,
           TerminateAndReap, Seeded, Done, Use, Close, Put, Gone, Reap
  <2>4. CASE CloseEnds(e)
    BY <1>1, <2>1, <2>2, <2>4 DEF CloseEnds, ServedOK
  <2>5. CASE TerminateAndReap(e)
    BY <1>1, <2>1, <2>2, <2>5 DEF TerminateAndReap, ServedOK
  <2> QED BY <2>3, <2>4, <2>5
<1>2. ASSUME ProcessInv, [ProcessNext]_processVars
      PROVE  [\A e \in dirty : proc'[e] = "none" => e \in hung \union dropped]_processVars
  BY <1>1, <1>2
<1> QED BY <1>2, ProcessInvariant, PTL DEF ProcessSpec, CloseFlushes

-----------------------------------------------------------------------------
(* EngineProcess is a place for one engine *)

\* An attempt that ends leaves the engine out of what can be driven.
LEMMA ReapedIsDetached ==
    ASSUME ProcessInv, NEW e \in Engines, TerminateAndReap(e)
    PROVE  /\ Attached' = Attached \ {e}
           /\ e # slot
           /\ UNCHANGED slot
<1>1. /\ stage'[e] = "none" \/ (stage'[e] = "spawn" /\ attempt'[e] # 0)
      /\ \A f \in Engines \ {e} : stage'[f] = stage[f] /\ attempt'[f] = attempt[f]
  BY NextAttemptTo DEF TerminateAndReap, ProcessInv
<1>2. e # slot /\ UNCHANGED slot
  BY DEF TerminateAndReap, Reap, ProcessInv, NoStrayProcess
<1> QED BY <1>1, <1>2 DEF Attached

\* A failed spawn, like a failed attempt, is about an engine nobody can drive.
LEMMA SpawnIsDetached ==
    ASSUME ProcessInv, NEW e \in Engines, SpawnProcess(e)
    PROVE  Attached' = Attached /\ UNCHANGED slot
<1>1. /\ stage[e] = "spawn"
      /\ stage'[e] \in {"none", "spawn", "ready"}
      /\ \A f \in Engines \ {e} : stage'[f] = stage[f] /\ attempt'[f] = attempt[f]
  BY NextAttemptTo DEF SpawnProcess, Put, ProcessInv, ProcessTypeOK
<1> QED BY <1>1 DEF SpawnProcess, Attached

\* Attach starts an engine, Seeded holds it, Close gives it up, and the two ways
\* a process is ended stop it; the other steps are stutters.
LEMMA ProcessStepImplementsSlot ==
    ASSUME ProcessInv, [ProcessNext]_processVars
    PROVE  [ProcessSlot!Next]_<<slot, Attached>>
<1> DEFINE Still == UNCHANGED <<slot, Attached>>
<1>0. /\ ProcessTypeOK /\ NoStrayProcess /\ (\A e \in Engines : ServedOK(e))
      /\ stage \in [Engines -> {"none", "spawn", "ready", "attach", "seed", "held",
                                "quit", "reap"}]
      /\ attempt \in [Engines -> 0..LaunchAttempts]
  BY DEF ProcessInv, ProcessTypeOK
<1>1. ASSUME NEW e \in Engines, Launch(e) PROVE Still
  BY <1>0, <1>1 DEF Launch, Put, Attached
<1>2. ASSUME NEW e \in Engines, SpawnProcess(e) PROVE Still
  BY <1>2, SpawnIsDetached
<1>3. ASSUME NEW e \in Engines, Ready(e) PROVE Still
  BY <1>0, <1>3 DEF Ready, Put, Attached
<1>4. ASSUME NEW e \in Engines, Attach(e) PROVE ProcessSlot!Start(e)
  BY <1>0, <1>4 DEF Attach, Put, Attached, ProcessSlot!Start
<1>5. ASSUME NEW e \in Engines, AttemptFails(e) PROVE Still
  BY <1>0, <1>5 DEF AttemptFails, Put, Attached, ServedOK
<1>6. ASSUME NEW e \in Engines, SeedFails(e) PROVE Still
  BY <1>0, <1>6 DEF SeedFails, Put, Attached, ServedOK
<1>7. ASSUME NEW e \in Engines, PageWrites(e) \/ Flush(e) \/ Hang(e) \/ Crash(e)
                               \/ TearDown(e) \/ Exit(e)
      PROVE  Still
  BY <1>7 DEF PageWrites, Flush, Hang, Crash, TearDown, Exit, Attached
<1>8. ASSUME NEW e \in Engines, CloseEnds(e) PROVE ProcessSlot!Stop(e)
  <2>1. stage[e] = "quit" /\ stage' = Put(stage, e, "none") /\ UNCHANGED <<slot, attempt>>
    BY <1>8 DEF CloseEnds, Reap
  <2>2. e # slot /\ Attached' = Attached \ {e}
    BY <1>0, <2>1 DEF Put, Attached, NoStrayProcess
  <2> QED BY <2>1, <2>2 DEF ProcessSlot!Stop
<1>9. ASSUME NEW e \in Engines, TerminateAndReap(e) PROVE ProcessSlot!Stop(e)
  BY <1>9, ReapedIsDetached DEF ProcessSlot!Stop
<1>10. ASSUME NEW e \in Engines, NEW v \in Verbs, Seeded(e, v) PROVE ProcessSlot!Hold(e)
  <2>1. stage[e] = "seed" /\ e \in Attached
    BY <1>10 DEF Seeded, Attached
  <2>2. slot # None => slot \in Engines /\ stage[slot] = "held"
    BY <1>0 DEF ProcessTypeOK, NoStrayProcess
  <2>3. \A f \in Engines : Retire(slot)[f] # stage[f] =>
           stage[f] = "held" /\ Retire(slot)[f] = "quit"
    BY <1>0, <2>2 DEF Retire, Put
  <2>4. Retire(slot) \in [Engines -> {"none", "spawn", "ready", "attach", "seed", "held",
                                     "quit", "reap"}]
    BY <1>0, <2>2 DEF Retire, Put
  <2>5. \A f \in Engines : stage'[f] # stage[f] =>
           /\ stage[f] \in {"held", "seed"}
           /\ stage'[f] \in {"quit", "held"}
    BY <1>10, <2>1, <2>3, <2>4 DEF Seeded, Put
  <2>6. UNCHANGED Attached /\ slot' = e
    BY <1>10, <2>5 DEF Seeded, Attached
  <2> QED BY <2>1, <2>6 DEF ProcessSlot!Hold
<1>11. ASSUME NEW e \in Engines, NEW v \in Verbs, Done(v, e) PROVE Still
  <2>1. stage[e] = "held" /\ attempt[e] = 0
    BY <1>0, <1>11 DEF Done, NoStrayProcess, ServedOK
  <2> QED BY <1>0, <1>11, <2>1 DEF Done, Put, Attached
<1>12. ASSUME NEW v \in Verbs, Use(v) PROVE Still
  BY <1>12 DEF Use, Attached
<1>13. ASSUME Close PROVE ProcessSlot!GiveUp
  <2>1. slot \in Engines /\ stage[slot] = "held"
    BY <1>0, <1>13 DEF Close, ProcessTypeOK, NoStrayProcess
  <2>2. UNCHANGED Attached /\ slot' = None
    BY <1>0, <1>13, <2>1 DEF Close, Retire, Put, Attached
  <2> QED BY <2>2 DEF ProcessSlot!GiveUp
<1>14. CASE UNCHANGED processVars
  BY <1>14 DEF processVars, Attached
<1>15. CASE ProcessNext
  BY <1>1, <1>2, <1>3, <1>4, <1>5, <1>6, <1>7, <1>8, <1>9, <1>10, <1>11, <1>12, <1>13, <1>15
     DEF ProcessNext, ProcessSlot!Next
<1> QED BY <1>14, <1>15

\* Launches in attempts, pages shared with verbs, closes and drops: together they
\* are a place for one engine, which can be driven for as long as it is there.
THEOREM ProcessIsEngineSlot == ProcessSpec => ProcessImplementsEngineSlot
<1>1. ProcessInit => ProcessSlot!Init
  BY DEF ProcessInit, ProcessSlot!Init, Attached
<1> QED BY <1>1, ProcessStepImplementsSlot, ProcessInvariant, PTL
       DEF ProcessSpec, ProcessImplementsEngineSlot, ProcessSlot!Spec

-----------------------------------------------------------------------------
(* Theorems about the parts together *)

\* The part that runs keeps its invariant.
PartsInv == /\ part = "control" => ControlInv
            /\ part = "frames" => FramesInv
            /\ part = "goto" => GotoInv
            /\ part = "downloads" => DownloadsInv
            /\ part = "process" => ProcessInv

LEMMA PartsNextInv == ASSUME PartsInv, [Next]_vars PROVE PartsInv'
<1>1. CASE ControlSteps
  BY <1>1, ControlNextInv DEF ControlSteps, PartsInv
<1>2. CASE FramesSteps
  BY <1>2, FramesNextInv DEF FramesSteps, PartsInv
<1>3. CASE GotoSteps
  BY <1>3, GotoNextInv DEF GotoSteps, PartsInv
<1>4. CASE DownloadsSteps
  BY <1>4, DownloadsNextInv DEF DownloadsSteps, PartsInv
<1>5. CASE ProcessSteps
  BY <1>5, ProcessNextInv DEF ProcessSteps, PartsInv
<1>6. CASE UNCHANGED vars
  BY <1>6, ControlNextInv, FramesNextInv, GotoNextInv, DownloadsNextInv, ProcessNextInv
     DEF vars, PartsInv
<1> QED BY <1>1, <1>2, <1>3, <1>4, <1>5, <1>6 DEF Next

\* Whichever part runs, it keeps its types, and with them that a context has one
\* handle, that the routes mutex is held exactly over the route calls, and that a
\* verb holds one page at a time.
THEOREM PartsTypes == Spec => []TypesOK
<1>1. Init => PartsInv
  BY ControlInitInv, FramesInitInv, GotoInitInv, DownloadsInitInv, ProcessInitInv
     DEF Init, PartsInv
<1>2. PartsInv => TypesOK
  BY DEF PartsInv, TypesOK, ControlInv, FramesInv, GotoInv, DownloadsInv, ProcessInv
<1> QED BY <1>1, <1>2, PartsNextInv, PTL DEF Spec

\* The run of the parts is a run of each of them: where another part moves, its
\* variables stand.  Downloads has no variables that could stand for a log without
\* downloads, so it runs where it is the part that moves.
THEOREM EveryPartRuns ==
    Spec => /\ ControlSpec /\ FramesSpec /\ GotoSpec /\ ProcessSpec
            /\ part = "downloads" => DownloadsSpec
<1>1. Init => /\ ControlInit /\ FramesInit /\ GotoInit /\ ProcessInit
              /\ part = "downloads" => DownloadsInit
  BY DEF Init
<1>2. [Next]_vars => /\ [ControlNext]_controlVars
                     /\ [FramesNext]_framesVars
                     /\ [GotoNext]_gotoVars
                     /\ [DownloadsNext]_downloadsVars
                     /\ [ProcessNext]_processVars
  BY DEF vars, Next, ControlSteps, FramesSteps, GotoSteps, DownloadsSteps, ProcessSteps
<1> QED BY <1>1, <1>2, PTL
       DEF Spec, ControlSpec, FramesSpec, GotoSpec, DownloadsSpec, ProcessSpec

\* What the run of the parts checks besides types therefore holds in it for any
\* number of tasks, engines, visitors, contexts and rows.
THEOREM PartsKeepTheirPromises ==
    Spec => /\ []RoutesAgree /\ []PositionAgrees
            /\ []AnswerIsCurrent /\ HandlesKeep
            /\ []VerdictIsOfThisVisit /\ ProbeNeverOverrulesEngine
            /\ []NoStrayProcess /\ CloseFlushes /\ ProcessImplementsEngineSlot
            /\ part = "downloads" => []EndsWithItsKind /\ WaitFindsTheFile
BY EveryPartRuns, RoutesStayAgreed, PositionStaysAgreed, AnswersAreCurrent, HandlesAreKept,
   VerdictsAreOfTheirVisit, ProbeIsOverruled, NoneIsStray, ClosesFlush,
   ProcessIsEngineSlot, EndsMeetTheirKind, WaitsFindTheirFile, PTL
=============================================================================
