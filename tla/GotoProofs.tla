----------------------------- MODULE GotoProofs -----------------------------
(***************************************************************************)
(* Proofs about Goto, for any visitors, pages, limits and file.            *)
(***************************************************************************)
EXTENDS Goto, TLAPS

\* A row that says an engine started names no page.
StartedNamesNoPage ==
    \A i \in DOMAIN rows : rows[i].is = "started" => rows[i].page = None

\* What a visit knows at each of its steps.  Up to the last look the engine had
\* said nothing of the page but that it took it; and a probe that was believed
\* before the deadline was believed of a clean page nobody had taken.
VisitOK(s) ==
    /\ mark[s] = began[s]
    /\ at[s] = "idle" => looked[s] = 0 /\ heard[s] = 0
    /\ at[s] # "idle" => asked[s] \in Pages
    /\ at[s] \notin {"idle", "finish"} => heard[s] = 0
    /\ at[s] = "taken" => kind[s] \in Kinds
    /\ heard[s] = 0 /\ at[s] # "idle" =>
          \A i \in Since(s, began[s]) :
             i <= looked[s] => Known(rows[i]) /\ rows[i].is = "taken"
    /\ at[s] = "finish" /\ heard[s] = 0 =>
          /\ kind[s] \in Kinds
          /\ elapsed[s] < Deadline =>
                /\ kind[s] = "none"
                /\ \A i \in Since(s, began[s]) :
                      i <= left[s] => ~(Known(rows[i]) /\ rows[i].is = "taken")
    /\ heard[s] # 0 =>
          /\ heard[s] \in Since(s, began[s])
          /\ Known(rows[heard[s]])
          /\ rows[heard[s]].is \in Verdicts
          /\ \A i \in Since(s, heard[s]) : i <= looked[s] => rows[i].is = "taken"

\* The inductive invariant.
GotoInv == /\ GotoTypeOK
           /\ StartedNamesNoPage
           /\ \A s \in Visitors : VisitOK(s)

\* A step of s leaves the other visits alone.
OnlyVisitOf(s) ==
    /\ UNCHANGED <<rows, build, owns>>
    /\ \A u \in Visitors \ {s} :
          /\ at'[u] = at[u] /\ asked'[u] = asked[u] /\ mark'[u] = mark[u]
          /\ elapsed'[u] = elapsed[u] /\ kind'[u] = kind[u] /\ heard'[u] = heard[u]
          /\ began'[u] = began[u] /\ looked'[u] = looked[u] /\ left'[u] = left[u]

-----------------------------------------------------------------------------
(* The file grows *)

LEMMA File ==
    ASSUME GotoInv
    PROVE  /\ rows \in Seq(Row)
           /\ Len(rows) \in Nat
           /\ DOMAIN rows = 1..Len(rows)
           /\ \A i \in DOMAIN rows : i \in Nat /\ rows[i] \in Row
<1>1. rows \in Seq(Row)
  BY DEF GotoInv, GotoTypeOK
<1> QED BY <1>1

LEMMA GotoParts == GotoInv => FieldsOK /\ MarksOK
  BY DEF GotoInv, GotoTypeOK

LEMMA RowsGrow ==
    ASSUME GotoInv, NEW r \in Row, r.is = "started" => r.page = None,
           rows' = Append(rows, r), UNCHANGED <<at, visit>>
    PROVE  /\ rows' \in Seq(Row)
           /\ MarksOK'
           /\ StartedNamesNoPage'
           /\ \A s \in Visitors : VisitOK(s)'
<1>1. /\ rows \in Seq(Row)
      /\ Len(rows) \in Nat
      /\ DOMAIN rows = 1..Len(rows)
  BY File
<1>2. /\ rows' \in Seq(Row)
      /\ Len(rows') = Len(rows) + 1
      /\ DOMAIN rows' = 1..(Len(rows) + 1)
      /\ \A i \in DOMAIN rows : rows'[i] = rows[i]
      /\ rows'[Len(rows) + 1] = r
  BY <1>1
<1>3. MarksOK'
  <2>1. MarksOK
    BY DEF GotoInv, GotoTypeOK, MarksOK
  <2>2. \A f : f \in [Visitors -> 0..Len(rows)] => f \in [Visitors -> 0..Len(rows')]
    BY <1>1, <1>2
  <2> QED BY <2>1, <2>2 DEF MarksOK, visit
<1>4. StartedNamesNoPage'
  BY <1>1, <1>2 DEF GotoInv, StartedNamesNoPage
<1>5. ASSUME NEW s \in Visitors PROVE VisitOK(s)'
  <2>1. /\ looked[s] \in 0..Len(rows) /\ left[s] \in 0..Len(rows)
        /\ heard[s] \in 0..Len(rows) /\ began[s] \in 0..Len(rows)
    BY GotoParts DEF MarksOK
  <2>2. /\ at'[s] = at[s] /\ asked'[s] = asked[s] /\ mark'[s] = mark[s]
        /\ elapsed'[s] = elapsed[s] /\ kind'[s] = kind[s] /\ heard'[s] = heard[s]
        /\ began'[s] = began[s] /\ looked'[s] = looked[s] /\ left'[s] = left[s]
    BY DEF visit
  <2>3. VisitOK(s)
    BY DEF GotoInv
  <2>4. \A i \in DOMAIN rows' : i <= looked[s] \/ i <= left[s] =>
           i \in DOMAIN rows /\ rows'[i] = rows[i]
    BY <1>1, <1>2, <2>1
  <2>5. \A i \in DOMAIN rows : i \in DOMAIN rows' /\ rows'[i] = rows[i]
    BY <1>1, <1>2
  <2>6. heard[s] = 0 /\ at[s] # "idle" =>
           \A i \in Since(s, began[s])' :
              i <= looked[s] => Known(rows[i])' /\ rows'[i].is = "taken"
    BY <2>2, <2>3, <2>4 DEF VisitOK, Since, Known
  <2>7. at[s] = "finish" /\ heard[s] = 0 =>
          /\ kind[s] \in Kinds
          /\ elapsed[s] < Deadline =>
                /\ kind[s] = "none"
                /\ \A i \in Since(s, began[s])' :
                      i <= left[s] => ~(Known(rows[i])' /\ rows'[i].is = "taken")
    BY <2>2, <2>3, <2>4 DEF VisitOK, Since, Known
  <2>8. heard[s] # 0 =>
          /\ heard[s] \in Since(s, began[s])'
          /\ Known(rows[heard[s]])'
          /\ rows'[heard[s]].is \in Verdicts
          /\ \A i \in Since(s, heard[s])' : i <= looked[s] => rows'[i].is = "taken"
    BY <2>2, <2>3, <2>4, <2>5 DEF VisitOK, Since, Known
  <2> QED BY <2>2, <2>3, <2>6, <2>7, <2>8 DEF VisitOK
<1> QED BY <1>2, <1>3, <1>4, <1>5 DEF visit

\* What keeps the file and the visits keeps the invariant.
LEMMA Unchanged ==
    ASSUME GotoInv, UNCHANGED <<rows, owns, at, visit>>,
           build' \in [Visitors -> {"known", "foreign", "absent", None}]
    PROVE  GotoInv'
<1>1. FieldsOK' /\ MarksOK'
  BY GotoParts DEF FieldsOK, MarksOK, visit
<1>2. StartedNamesNoPage'
  BY DEF GotoInv, StartedNamesNoPage
<1>3. \A s \in Visitors : VisitOK(s)'
  BY DEF GotoInv, VisitOK, Since, Known, visit
<1> QED BY <1>1, <1>2, <1>3 DEF GotoInv, GotoTypeOK

LEMMA LaunchesInv ==
    ASSUME GotoInv, NEW s \in Visitors, Launches(s) PROVE GotoInv'
<1>1. build' \in [Visitors -> {"known", "foreign", "absent", None}]
  BY GotoParts DEF FieldsOK, Launches
<1>2. CASE UNCHANGED rows
  <2>1. UNCHANGED <<rows, owns, at, visit>>
    BY <1>2 DEF Launches
  <2> QED BY <1>1, <2>1, Unchanged
<1>3. ASSUME NEW b \in BOOLEAN, AppendRow("started", None, b) PROVE GotoInv'
  <2> DEFINE r == [is |-> "started", page |-> None, known |-> b]
  <2>1. r \in Row /\ (r.is = "started" => r.page = None)
    BY DEF Row
  <2>2. rows' = Append(rows, r)
    BY <1>3 DEF AppendRow
  <2>3. UNCHANGED <<at, visit>> /\ UNCHANGED owns
    BY DEF Launches
  <2> HIDE DEF r
  <2>4. /\ rows' \in Seq(Row)
        /\ MarksOK'
        /\ StartedNamesNoPage'
        /\ \A u \in Visitors : VisitOK(u)'
    BY <2>1, <2>2, <2>3, RowsGrow
  <2> QED BY <1>1, <2>3, <2>4 DEF GotoInv, GotoTypeOK, FieldsOK, visit
<1> QED BY <1>2, <1>3 DEF Launches

LEMMA TakesPageInv ==
    ASSUME GotoInv, NEW s \in Visitors, TakesPage(s) PROVE GotoInv'
<1>1. PICK p \in Pages : /\ owns' = [owns EXCEPT ![s] = p]
                         /\ AppendRow("taken", p, build[s] = "known")
  BY DEF TakesPage
<1> DEFINE r == [is |-> "taken", page |-> p, known |-> build[s] = "known"]
<1>2. r \in Row /\ (r.is = "started" => r.page = None)
  BY DEF Row
<1>3. rows' = Append(rows, r)
  BY <1>1 DEF AppendRow
<1>4. UNCHANGED <<at, visit>> /\ UNCHANGED build
  BY DEF TakesPage
<1>5. owns' \in [Visitors -> Pages \union {None}]
  BY <1>1, GotoParts DEF FieldsOK
<1> HIDE DEF r
<1>6. /\ rows' \in Seq(Row)
      /\ MarksOK'
      /\ StartedNamesNoPage'
      /\ \A u \in Visitors : VisitOK(u)'
  BY <1>2, <1>3, <1>4, RowsGrow
<1> QED BY <1>4, <1>5, <1>6 DEF GotoInv, GotoTypeOK, FieldsOK, visit

LEMMA ReportsInv ==
    ASSUME GotoInv, NEW s \in Visitors, Reports(s) PROVE GotoInv'
<1>1. PICK v \in Verdicts : AppendRow(v, owns[s], build[s] = "known")
  BY DEF Reports
<1> DEFINE r == [is |-> v, page |-> owns[s], known |-> build[s] = "known"]
<1>2. r \in Row /\ (r.is = "started" => r.page = None)
  BY GotoParts DEF Row, Verdicts, FieldsOK
<1>3. rows' = Append(rows, r)
  BY <1>1 DEF AppendRow
<1>4. UNCHANGED <<at, visit>> /\ UNCHANGED build
  BY DEF Reports
<1>5. owns' \in [Visitors -> Pages \union {None}]
  BY GotoParts DEF FieldsOK, Reports
<1> HIDE DEF r
<1>6. /\ rows' \in Seq(Row)
      /\ MarksOK'
      /\ StartedNamesNoPage'
      /\ \A u \in Visitors : VisitOK(u)'
  BY <1>2, <1>3, <1>4, RowsGrow
<1> QED BY <1>4, <1>5, <1>6 DEF GotoInv, GotoTypeOK, FieldsOK, visit

-----------------------------------------------------------------------------
(* A visit *)

\* What one visit does, the others keep.
LEMMA OthersKeep ==
    ASSUME GotoInv, NEW s \in Visitors, OnlyVisitOf(s), VisitOK(s)', FieldsOK', MarksOK'
    PROVE  GotoInv'
<1>1. StartedNamesNoPage'
  BY DEF GotoInv, StartedNamesNoPage, OnlyVisitOf
<1>2. ASSUME NEW u \in Visitors \ {s} PROVE VisitOK(u)'
  BY DEF GotoInv, VisitOK, Since, OnlyVisitOf
<1>3. GotoTypeOK'
  BY DEF GotoInv, GotoTypeOK, OnlyVisitOf
<1> QED BY <1>1, <1>2, <1>3 DEF GotoInv

LEMMA VisitInv ==
    ASSUME GotoInv, NEW s \in Visitors, Visit(s) PROVE GotoInv'
<1>1. Len(rows) \in Nat
  BY File
<1>2. OnlyVisitOf(s)
  BY GotoParts DEF FieldsOK, MarksOK, Visit, VisitFrom, OnlyVisitOf
<1>3. FieldsOK' /\ MarksOK'
  <2>1. FieldsOK'
    BY <1>1, GotoParts DEF FieldsOK, Visit, VisitFrom
  <2>2. MarksOK'
    BY <1>1, File, GotoParts DEF MarksOK, Visit, VisitFrom
  <2> QED BY <2>1, <2>2
<1>4. VisitOK(s)'
  <2>1. /\ mark'[s] = Len(rows) /\ began'[s] = Len(rows)
        /\ at'[s] = "load" /\ asked'[s] \in Pages
        /\ looked'[s] = 0 /\ heard'[s] = 0
    BY GotoParts DEF GotoInv, FieldsOK, MarksOK, VisitOK, Visit, VisitFrom
  <2>2. \A i \in DOMAIN rows' : ~(i <= 0)
    BY <1>2, File DEF OnlyVisitOf
  <2> QED BY <2>1, <2>2 DEF VisitOK, Since
<1> QED BY <1>2, <1>3, <1>4, OthersKeep

LEMMA ZeroFirst == \A n \in Nat : 0 \in 0..n
  OBVIOUS

LEMMA LeaveInv ==
    ASSUME GotoInv, NEW s \in Visitors, at[s] # "idle",
           NEW told \in {"ok", "engine failed", "score failed", "captcha",
                         "not started", "unreadable", "error"},
           Leave(s, told)
    PROVE  GotoInv'
<1>1. Len(rows) \in Nat
  BY File
<1>2. OnlyVisitOf(s)
  BY GotoParts DEF FieldsOK, MarksOK, Leave, OnlyVisitOf
<1>3. FieldsOK' /\ MarksOK'
  <2>1. FieldsOK'
    <3>1. 0 \in 0..MaxElapsed
      BY TimeAssumption, ZeroFirst
    <3> QED BY <3>1, GotoParts DEF FieldsOK, Leave
  <2>2. MarksOK'
    <3>1. 0 \in 0..Len(rows)
      BY <1>1, ZeroFirst
    <3> QED BY <3>1, GotoParts DEF MarksOK, Leave
  <2> QED BY <2>1, <2>2
<1>4. VisitOK(s)'
  BY GotoParts DEF GotoInv, FieldsOK, MarksOK, VisitOK, Leave
<1> QED BY <1>2, <1>3, <1>4, OthersKeep

LEMMA LoadedInv ==
    ASSUME GotoInv, NEW s \in Visitors, Loaded(s) PROVE GotoInv'
<1>1. OnlyVisitOf(s)
  BY GotoParts DEF FieldsOK, MarksOK, Loaded, visit, OnlyVisitOf
<1>2. FieldsOK' /\ MarksOK'
  <2>1. FieldsOK'
    BY GotoParts DEF FieldsOK, Loaded, visit
  <2>2. MarksOK'
    BY File, GotoParts DEF MarksOK, Loaded, visit
  <2> QED BY <2>1, <2>2
<1>3. VisitOK(s)'
  BY GotoParts DEF GotoInv, FieldsOK, MarksOK, VisitOK, Since, Loaded, visit
<1> QED BY <1>1, <1>2, <1>3, OthersKeep

\* A row about the visit's page that does not decide says that it was taken.
LEMMA Undecided ==
    ASSUME GotoInv, NEW s \in Visitors, at[s] = "verdict",
           NEW i \in Since(s, began[s]), i \notin Deciding(s)
    PROVE  Known(rows[i]) /\ rows[i].is = "taken"
<1>1. rows[i] \in Row /\ rows[i].page # None
  BY NoneAssumption, File DEF GotoInv, VisitOK, Since
<1> QED BY <1>1 DEF GotoInv, VisitOK, StartedNamesNoPage, Since, Deciding, Row, Known

LEMMA EngineReportedInv ==
    ASSUME GotoInv, NEW s \in Visitors, EngineReported(s) PROVE GotoInv'
<1>1. PICK i \in DOMAIN rows : /\ LastWord(s, i)
                               /\ Known(rows[i])
                               /\ heard' = [heard EXCEPT ![s] = i]
  BY DEF EngineReported
<1>2. Len(rows) \in Nat /\ DOMAIN rows = 1..Len(rows)
  BY File
<1>3. OnlyVisitOf(s)
  BY <1>1, GotoParts DEF FieldsOK, MarksOK, EngineReported, OnlyVisitOf
<1>4. FieldsOK' /\ MarksOK'
  <2>1. FieldsOK'
    BY <1>1, <1>2, GotoParts DEF FieldsOK, EngineReported
  <2>2. MarksOK'
    BY <1>1, <1>2, File, GotoParts DEF MarksOK, EngineReported
  <2> QED BY <2>1, <2>2
<1>5. VisitOK(s)'
  <2>1. /\ heard'[s] = i /\ at'[s] = "finish" /\ looked'[s] = Len(rows)
        /\ began'[s] = began[s] /\ mark'[s] = mark[s] /\ asked'[s] = asked[s]
    BY <1>1, GotoParts DEF FieldsOK, MarksOK, EngineReported
  <2>2. i \in Since(s, began[s]) /\ rows[i].is \in Verdicts
    BY <1>1 DEF GotoInv, VisitOK, LastWord, Deciding
  <2>3. ASSUME NEW j \in Since(s, i) PROVE rows[j].is = "taken"
    <3>1. j \in Since(s, began[s]) /\ i < j
      BY <1>2, <2>2, File, GotoParts DEF MarksOK, Since
    <3>2. j \notin Deciding(s)
      BY <1>1, <1>2, <3>1 DEF LastWord, Since
    <3> QED BY <3>1, <3>2, Undecided DEF EngineReported
  <2>4. \A n : Since(s, n)' = Since(s, n)
    BY <2>1 DEF Since, EngineReported
  <2>5. i # 0 /\ mark[s] = began[s] /\ asked[s] \in Pages
    BY <1>2 DEF GotoInv, VisitOK, EngineReported
  <2>6. rows' = rows
    BY DEF EngineReported
  <2> QED BY <1>1, <2>1, <2>2, <2>3, <2>4, <2>5, <2>6 DEF VisitOK, Known
<1> QED BY <1>3, <1>4, <1>5, OthersKeep

LEMMA PendingInv ==
    ASSUME GotoInv, NEW s \in Visitors, Pending(s) PROVE GotoInv'
<1>1. PICK e \in elapsed[s] .. MaxElapsed : elapsed' = [elapsed EXCEPT ![s] = e]
  BY DEF Pending
<1>2. /\ Len(rows) \in Nat
      /\ elapsed[s] \in 0..MaxElapsed
      /\ e \in 0..MaxElapsed
  <2>1. elapsed[s] \in 0..MaxElapsed
    BY GotoParts DEF FieldsOK
  <2>2. MaxElapsed \in Nat
    BY TimeAssumption
  <2> QED BY <1>1, <2>1, <2>2, File
<1>3. OnlyVisitOf(s)
  BY <1>1, GotoParts DEF FieldsOK, MarksOK, Pending, OnlyVisitOf
<1>4. FieldsOK' /\ MarksOK'
  <2>1. FieldsOK'
    BY <1>1, <1>2, GotoParts DEF FieldsOK, Pending
  <2>2. MarksOK'
    BY <1>1, <1>2, File, GotoParts DEF MarksOK, Pending
  <2> QED BY <2>1, <2>2
<1>5. VisitOK(s)'
  <2>1. /\ looked'[s] = Len(rows) /\ at'[s] \in {"probe", "taken"}
        /\ at'[s] = "taken" => kind[s] # None
        /\ began'[s] = began[s] /\ mark'[s] = mark[s] /\ asked'[s] = asked[s]
        /\ kind'[s] = kind[s] /\ heard'[s] = heard[s]
    BY GotoParts DEF FieldsOK, MarksOK, Pending
  <2>2. /\ heard[s] = 0 /\ mark[s] = began[s] /\ asked[s] \in Pages
        /\ kind[s] \in Kinds \union {None}
    BY GotoParts DEF GotoInv, FieldsOK, MarksOK, VisitOK, Pending
  <2>3. \A i \in Since(s, began[s]) : Known(rows[i]) /\ rows[i].is = "taken"
    BY Undecided DEF Pending
  <2>4. Since(s, began[s])' = Since(s, began[s]) /\ rows' = rows
    BY <2>1 DEF Since, Pending
  <2> QED BY <2>1, <2>2, <2>3, <2>4 DEF VisitOK, Known
<1> QED BY <1>3, <1>4, <1>5, OthersKeep

\* What a probe settles on is a kind.
LEMMA DecidedIsKind ==
    ASSUME NEW raw \in Raw, NEW now, NEW k \in Decided(raw, now) PROVE k \in Kinds
BY DEF Decided, Raw, Kinds

LEMMA ProbeInv ==
    ASSUME GotoInv, NEW s \in Visitors, Probe(s) PROVE GotoInv'
<1>1. \/ /\ \E k \in Kinds : kind' = [kind EXCEPT ![s] = k]
         /\ at' = [at EXCEPT ![s] = "taken"]
      \/ /\ at' = [at EXCEPT ![s] = "verdict"]
         /\ UNCHANGED kind
  BY DecidedIsKind DEF Probe
<1>2. OnlyVisitOf(s)
  BY <1>1, GotoParts DEF FieldsOK, MarksOK, Probe, OnlyVisitOf
<1>3. FieldsOK' /\ MarksOK'
  <2>1. FieldsOK'
    <3>1. kind' \in [Visitors -> Kinds \union {None}]
      BY <1>1, GotoParts DEF FieldsOK
    <3>2. at' \in [Visitors -> {"idle", "load", "verdict", "probe", "taken", "finish"}]
      BY <1>1, GotoParts DEF FieldsOK
    <3> QED BY <3>1, <3>2, GotoParts DEF FieldsOK, Probe
  <2>2. MarksOK'
    BY <1>1, File, GotoParts DEF MarksOK, Probe
  <2> QED BY <2>1, <2>2
<1>4. VisitOK(s)'
  BY <1>1, GotoParts DEF GotoInv, FieldsOK, MarksOK, VisitOK, Since, Probe
<1> QED BY <1>2, <1>3, <1>4, OthersKeep

LEMMA LookTakenInv ==
    ASSUME GotoInv, NEW s \in Visitors, LookTaken(s) PROVE GotoInv'
<1>1. Len(rows) \in Nat
  BY File
<1>2. OnlyVisitOf(s)
  BY GotoParts DEF FieldsOK, MarksOK, LookTaken, OnlyVisitOf
<1>3. FieldsOK' /\ MarksOK'
  <2>1. FieldsOK'
    BY <1>1, GotoParts DEF FieldsOK, LookTaken
  <2>2. MarksOK'
    <3>1. left' = left \/ left' = [left EXCEPT ![s] = Len(rows)]
      BY DEF LookTaken
    <3>2. Len(rows) \in 0..Len(rows)
      BY <1>1
    <3> QED BY <3>1, <3>2, GotoParts DEF MarksOK, LookTaken
  <2> QED BY <2>1, <2>2
<1>4. VisitOK(s)'
  <2>1. CASE CouldReport(s)
    BY <2>1, GotoParts DEF GotoInv, FieldsOK, MarksOK, VisitOK, Since, LookTaken
  <2>2. CASE ~CouldReport(s)
    <3>1. /\ at'[s] = "finish" /\ left'[s] = Len(rows)
          /\ began'[s] = began[s] /\ mark'[s] = mark[s] /\ asked'[s] = asked[s]
          /\ looked'[s] = looked[s] /\ kind'[s] = kind[s] /\ heard'[s] = heard[s]
          /\ elapsed'[s] = elapsed[s] /\ rows' = rows
      BY <2>2, GotoParts DEF FieldsOK, MarksOK, LookTaken
    <3>2. VisitOK(s) /\ at[s] = "taken"
      BY DEF GotoInv, LookTaken
    <3>3. Since(s, began[s])' = Since(s, began[s])
      BY <3>1 DEF Since
    <3>4. elapsed[s] < Deadline =>
             /\ kind[s] = "none"
             /\ \A i \in Since(s, began[s]) : ~(Known(rows[i]) /\ rows[i].is = "taken")
      BY <2>2, <3>2 DEF CouldReport, Taken, VisitOK
    <3> QED BY <3>1, <3>2, <3>3, <3>4 DEF VisitOK, Known
  <2> QED BY <2>1, <2>2
<1> QED BY <1>2, <1>3, <1>4, OthersKeep

-----------------------------------------------------------------------------
(* The invariant *)

LEMMA GotoInitInv ==
    ASSUME GotoInit PROVE GotoInv
<1>1. GotoTypeOK
  BY TimeAssumption DEF GotoInit, GotoTypeOK, FieldsOK, MarksOK
<1>2. StartedNamesNoPage /\ \A s \in Visitors : VisitOK(s)
  BY DEF GotoInit, StartedNamesNoPage, VisitOK
<1> QED BY <1>1, <1>2 DEF GotoInv

LEMMA GotoNextInv ==
    ASSUME GotoInv, [GotoNext]_gotoVars PROVE GotoInv'
<1>1. CASE UNCHANGED gotoVars
  BY <1>1, GotoParts, Unchanged DEF FieldsOK, gotoVars
<1>2. ASSUME NEW s \in Visitors,
             Fails(s) \/ Unreadable(s) \/ Finish(s)
      PROVE  GotoInv'
  BY <1>2, LeaveInv DEF Fails, Unreadable, Finish, Outcome
<1> QED BY <1>1, <1>2, LaunchesInv, TakesPageInv, ReportsInv, VisitInv, LoadedInv,
           EngineReportedInv, PendingInv, ProbeInv, LookTakenInv DEF GotoNext

-----------------------------------------------------------------------------
(* Theorems *)

\* The inductive invariant holds.
THEOREM GotoInvariant == GotoSpec => []GotoInv
<1> QED BY GotoInitInv, GotoNextInv, PTL DEF GotoSpec

\* The types hold.
THEOREM GotoTypes == GotoSpec => []GotoTypeOK
<1>1. GotoInv => GotoTypeOK
  BY DEF GotoInv
<1> QED BY <1>1, GotoInvariant, PTL

\* The engine's word a visit goes by is its last, about this visit's page and
\* written since the visit began.
THEOREM VerdictsAreOfTheirVisit == GotoSpec => []VerdictIsOfThisVisit
<1>1. GotoInv => VerdictIsOfThisVisit
  BY DEF GotoInv, VisitOK, VerdictIsOfThisVisit
<1> QED BY <1>1, GotoInvariant, PTL

\* The probe never overrules what the engine said or is doing.
THEOREM ProbeIsOverruled == GotoSpec => ProbeNeverOverrulesEngine
<1> DEFINE Honest(s) ==
      at[s] = "finish" /\ heard[s] = 0 /\ result'[s] # "not started" /\ at'[s] = "idle" =>
          /\ \A i \in Since(s, began[s]) :
                i <= looked[s] => Known(rows[i]) /\ rows[i].is = "taken"
          /\ elapsed[s] < Deadline =>
                /\ kind[s] = "none"
                /\ result'[s] = "ok"
                /\ \A i \in Since(s, began[s]) :
                      i <= left[s] => ~(Known(rows[i]) /\ rows[i].is = "taken")
<1>1. ASSUME GotoInv, GotoNext, NEW s \in Visitors,
             at[s] = "finish", heard[s] = 0, result'[s] # "not started", at'[s] = "idle"
      PROVE  Honest(s)
  <2>1. VisitOK(s)
    BY <1>1 DEF GotoInv
  <2>2. result'[s] = Outcome(s)
    <3>1. PICK u \in Visitors :
             \/ Launches(u) \/ TakesPage(u) \/ Reports(u)
             \/ Visit(u) \/ Loaded(u) \/ Fails(u)
             \/ EngineReported(u) \/ Unreadable(u) \/ Pending(u)
             \/ Probe(u) \/ LookTaken(u) \/ Finish(u)
      BY <1>1 DEF GotoNext
    <3>2. at \in [Visitors -> {"idle", "load", "verdict", "probe", "taken", "finish"}]
      BY <1>1, GotoParts DEF FieldsOK
    <3>3. result \in [Visitors -> {"ok", "engine failed", "score failed", "captcha",
                                   "not started", "unreadable", "error", None}]
      BY <1>1, GotoParts DEF FieldsOK
    <3>4. Finish(s)
      BY <1>1, <3>1, <3>2
         DEF Launches, TakesPage, Reports, Visit, VisitFrom, Loaded, Fails,
         EngineReported, Unreadable, Pending, Probe, LookTaken, Finish, Leave
    <3> QED BY <3>3, <3>4 DEF Finish, Leave
  <2>3. elapsed[s] < Deadline => Outcome(s) = "ok"
    BY <1>1, <2>1, <2>2 DEF Outcome, VisitOK
  <2> QED BY <1>1, <2>1, <2>2, <2>3 DEF VisitOK
<1>2. ASSUME GotoInv, [GotoNext]_gotoVars
      PROVE  [\A s \in Visitors : Honest(s)]_gotoVars
  BY <1>1, <1>2
<1> QED BY <1>2, GotoInvariant, PTL DEF GotoSpec, ProbeNeverOverrulesEngine
=============================================================================
