-------------------------------- MODULE Goto --------------------------------
(***************************************************************************)
(* lurien/src/goto.rs and the reading half of challenge.rs: a visit is      *)
(* classified by two observers, the engine, which appends rows to a file,   *)
(* and a probe of the page, which cannot see into a widget.  Between any    *)
(* two of the driver's looks the engines append.                           *)
(*                                                                         *)
(* Every session of the process appends to one file.  The engine's side is *)
(* external: it says that it started, takes a page at any time, and reports *)
(* it later, perhaps after the visit that showed it.                       *)
(***************************************************************************)
EXTENDS Option, Naturals, Sequences

CONSTANTS Visitors,   \* sessions of one process, each with an engine
          Pages,      \* URLs, told apart as same_page does
          Widgets,    \* the kinds of widget that are not score-like
          Settle,     \* WIDGET_SETTLE_MS
          ScoreWait,  \* SCORE_WAIT_MS
          Deadline,   \* engine_deadline_ms
          MaxElapsed, \* bound on a visit's clock
          MaxRows     \* bound on the evidence file

ASSUME TimeAssumption == {Settle, ScoreWait, Deadline, MaxElapsed, MaxRows} \subseteq Nat

Verdicts == {"solved", "unsolved"}
Raw == {"none", "score", "score-pending", "fail"} \union Widgets
Kinds == {"none", "score", "fail"} \union Widgets
ASSUME NoneAssumption == None \notin Pages \union Kinds
Row == [is : {"started", "taken"} \union Verdicts, page : Pages \union {None},
        known : BOOLEAN] \* known: of the schema version this build reads

VARIABLES rows,    \* the evidence file
          build,   \* each session's engine: its schema known, foreign, or no observer
          owns,    \* the page its observer is working on
          at,      \* where the session's visit is
          asked,   \* the page it asked for
          mark,    \* where the file ended when it marked it
          elapsed, \* the clock as the loop last read it
          kind,    \* what the probe settled on, None before
          heard,   \* the row it took for its verdict, 0 for none
          result,  \* what it was told
          began,   \* history: where the file ended when the visit was asked for
          looked,  \* history: where it ended at the last look for a verdict
          left     \* history: where it ended when the probe was believed

visit == <<asked, mark, elapsed, kind, heard, result, began, looked, left>>
gotoVars == <<rows, build, owns, at, visit>>

Known(r) == r.known
SaysStarted(r) == Known(r) /\ r.is = "started"

\* The rows past n that name the page s asked for.
Since(s, n) == {i \in DOMAIN rows : i > n /\ rows[i].page = asked[s]}

\* The rows that decide: a verdict, or any row of a schema not read here.
Deciding(s) == {i \in Since(s, mark[s]) : ~Known(rows[i]) \/ rows[i].is \in Verdicts}
Taken(s) == \E i \in Since(s, mark[s]) : Known(rows[i]) /\ rows[i].is = "taken"

-----------------------------------------------------------------------------
GotoInit ==
    /\ rows = <<>>
    /\ build = [s \in Visitors |-> None]
    /\ owns = [s \in Visitors |-> None]
    /\ at = [s \in Visitors |-> "idle"]
    /\ asked = [s \in Visitors |-> None]
    /\ mark = [s \in Visitors |-> 0]
    /\ elapsed = [s \in Visitors |-> 0]
    /\ kind = [s \in Visitors |-> None]
    /\ heard = [s \in Visitors |-> 0]
    /\ result = [s \in Visitors |-> None]
    /\ began = [s \in Visitors |-> 0]
    /\ looked = [s \in Visitors |-> 0]
    /\ left = [s \in Visitors |-> 0]

(* The engines *)

AppendRow(what, page, known) ==
    /\ Len(rows) < MaxRows
    /\ rows' = Append(rows, [is |-> what, page |-> page, known |-> known])

Launches(s) ==
    /\ build[s] = None
    /\ \E b \in {"known", "foreign", "absent"} :
          /\ build' = [build EXCEPT ![s] = b]
          /\ IF b = "absent" THEN UNCHANGED rows
             ELSE AppendRow("started", None, b = "known")
    /\ UNCHANGED <<owns, at, visit>>

TakesPage(s) ==
    /\ build[s] \in {"known", "foreign"}
    /\ owns[s] = None
    /\ \E p \in Pages : /\ owns' = [owns EXCEPT ![s] = p]
                        /\ AppendRow("taken", p, build[s] = "known")
    /\ UNCHANGED <<build, at, visit>>

Reports(s) ==
    /\ owns[s] # None
    /\ \E v \in Verdicts : AppendRow(v, owns[s], build[s] = "known")
    /\ owns' = [owns EXCEPT ![s] = None]
    /\ UNCHANGED <<build, at, visit>>

-----------------------------------------------------------------------------
(* The visit *)

VisitFrom(s, m) ==
    /\ build[s] # None
    /\ at[s] = "idle"
    /\ \E p \in Pages : asked' = [asked EXCEPT ![s] = p]
    /\ mark' = [mark EXCEPT ![s] = m]
    /\ began' = [began EXCEPT ![s] = Len(rows)]
    /\ result' = [result EXCEPT ![s] = None]
    /\ at' = [at EXCEPT ![s] = "load"]
    /\ UNCHANGED <<rows, build, owns, elapsed, kind, heard, looked, left>>

\* The visit is over, and what it knew is dropped.
Leave(s, told) ==
    /\ result' = [result EXCEPT ![s] = told]
    /\ at' = [at EXCEPT ![s] = "idle"]
    /\ asked' = [asked EXCEPT ![s] = None]
    /\ kind' = [kind EXCEPT ![s] = None]
    /\ mark' = [mark EXCEPT ![s] = 0]
    /\ elapsed' = [elapsed EXCEPT ![s] = 0]
    /\ heard' = [heard EXCEPT ![s] = 0]
    /\ began' = [began EXCEPT ![s] = 0]
    /\ looked' = [looked EXCEPT ![s] = 0]
    /\ left' = [left EXCEPT ![s] = 0]
    /\ UNCHANGED <<rows, build, owns>>

\* Mutant: the file is read from its start.
VisitUnmarked(s) == VisitFrom(s, 0)

\* The file is marked before the navigation.
Visit(s) == VisitFrom(s, Len(rows))

Loaded(s) ==
    /\ at[s] = "load"
    /\ at' = [at EXCEPT ![s] = "verdict"]
    /\ UNCHANGED <<rows, build, owns, visit>>

\* The navigation or the probe fails.
Fails(s) ==
    /\ at[s] \in {"load", "probe"}
    /\ Leave(s, "error")

\* The newest row that decides is the engine's last word.
LastWord(s, i) == i \in Deciding(s) /\ \A j \in Deciding(s) : j <= i

EngineReported(s) ==
    /\ at[s] = "verdict"
    /\ \E i \in DOMAIN rows : /\ LastWord(s, i)
                              /\ Known(rows[i])
                              /\ heard' = [heard EXCEPT ![s] = i]
    /\ looked' = [looked EXCEPT ![s] = Len(rows)]
    /\ at' = [at EXCEPT ![s] = "finish"]
    /\ UNCHANGED <<rows, build, owns, asked, mark, elapsed, kind, result, began, left>>

Unreadable(s) ==
    /\ at[s] = "verdict"
    /\ \E i \in DOMAIN rows : LastWord(s, i) /\ ~Known(rows[i])
    /\ Leave(s, "unreadable")

\* The engine has not reported; the clock is read.
Pending(s) ==
    /\ at[s] = "verdict"
    /\ Deciding(s) = {}
    /\ \E e \in elapsed[s] .. MaxElapsed : elapsed' = [elapsed EXCEPT ![s] = e]
    /\ looked' = [looked EXCEPT ![s] = Len(rows)]
    /\ at' = [at EXCEPT ![s] = IF kind[s] = None THEN "probe" ELSE "taken"]
    /\ UNCHANGED <<rows, build, owns, asked, mark, kind, heard, result, began, left>>

\* decide_kind: the kinds a probe that answers raw settles on by now, if any.
Decided(raw, now) ==
    CASE raw = "none"          -> IF now >= Settle THEN {"none"} ELSE {}
      [] raw = "score-pending" -> IF now >= ScoreWait THEN {"fail"} ELSE {}
      [] OTHER                 -> {raw}

\* The clock it is held against was read before the page was.
Probe(s) ==
    /\ at[s] = "probe"
    /\ \E raw \in Raw :
          \/ \E k \in Decided(raw, elapsed[s]) :
                /\ kind' = [kind EXCEPT ![s] = k]
                /\ at' = [at EXCEPT ![s] = "taken"]
          \/ /\ Decided(raw, elapsed[s]) = {}
             /\ at' = [at EXCEPT ![s] = "verdict"]
             /\ UNCHANGED kind
    /\ UNCHANGED <<rows, build, owns, asked, mark, elapsed, heard, result, began, looked, left>>

\* Mutant: the probe's "none" is believed whatever the engine does.
CouldReportByProbe(s) == kind[s] # "none" /\ elapsed[s] < Deadline

CouldReport(s) == (Taken(s) \/ kind[s] # "none") /\ elapsed[s] < Deadline

\* A page the engine took, or that shows a challenge, waits for the engine.
LookTaken(s) ==
    /\ at[s] = "taken"
    /\ \/ CouldReport(s) /\ at' = [at EXCEPT ![s] = "verdict"] /\ UNCHANGED left
       \/ /\ ~CouldReport(s)
          /\ at' = [at EXCEPT ![s] = "finish"]
          /\ left' = [left EXCEPT ![s] = Len(rows)]
    /\ UNCHANGED <<rows, build, owns, asked, mark, elapsed, kind, heard, result, began, looked>>

\* A silent engine is trusted only once an engine has said that it started.
Outcome(s) ==
    IF heard[s] = 0 /\ ~\E i \in DOMAIN rows : SaysStarted(rows[i]) THEN "not started"
    ELSE IF heard[s] # 0 THEN IF rows[heard[s]].is = "solved" THEN "ok" ELSE "engine failed"
    ELSE IF kind[s] \in {"none", "score"} THEN "ok"
    ELSE IF kind[s] = "fail" THEN "score failed"
    ELSE "captcha"

Finish(s) ==
    /\ at[s] = "finish"
    /\ Leave(s, Outcome(s))

-----------------------------------------------------------------------------
GotoNext ==
    \E s \in Visitors : \/ Launches(s) \/ TakesPage(s) \/ Reports(s)
                        \/ Visit(s) \/ Loaded(s) \/ Fails(s)
                        \/ EngineReported(s) \/ Unreadable(s) \/ Pending(s)
                        \/ Probe(s) \/ LookTaken(s) \/ Finish(s)

GotoSpec == GotoInit /\ [][GotoNext]_gotoVars

-----------------------------------------------------------------------------
(* Properties *)

\* Types.
FieldsOK ==
    /\ build \in [Visitors -> {"known", "foreign", "absent", None}]
    /\ owns \in [Visitors -> Pages \union {None}]
    /\ at \in [Visitors -> {"idle", "load", "verdict", "probe", "taken", "finish"}]
    /\ asked \in [Visitors -> Pages \union {None}]
    /\ elapsed \in [Visitors -> 0..MaxElapsed]
    /\ kind \in [Visitors -> Kinds \union {None}]
    /\ result \in [Visitors -> {"ok", "engine failed", "score failed", "captcha",
                                "not started", "unreadable", "error", None}]

MarksOK ==
    /\ mark \in [Visitors -> 0..Len(rows)]
    /\ heard \in [Visitors -> 0..Len(rows)]
    /\ began \in [Visitors -> 0..Len(rows)]
    /\ looked \in [Visitors -> 0..Len(rows)]
    /\ left \in [Visitors -> 0..Len(rows)]

GotoTypeOK == rows \in Seq(Row) /\ FieldsOK /\ MarksOK

\* The engine's word a visit goes by was written after the visit was asked for,
\* about its page, in the schema this build reads, and no verdict on the page
\* was written between it and the driver's last look: what an earlier visit of
\* the same page left in the file is not read again.
VerdictIsOfThisVisit ==
    \A s \in Visitors :
        heard[s] # 0 =>
            /\ heard[s] \in Since(s, began[s])
            /\ Known(rows[heard[s]])
            /\ rows[heard[s]].is \in Verdicts
            /\ \A i \in Since(s, heard[s]) : i <= looked[s] => rows[i].is = "taken"

\* The probe's answer stands only where the engine had said nothing of the page
\* by the last look for its verdict; and before the deadline only where the
\* page looked clean and no engine this build reads had taken it since the visit
\* began.
ProbeNeverOverrulesEngine ==
    [][\A s \in Visitors :
          at[s] = "finish" /\ heard[s] = 0 /\ result'[s] # "not started" /\ at'[s] = "idle" =>
              /\ \A i \in Since(s, began[s]) :
                    i <= looked[s] => Known(rows[i]) /\ rows[i].is = "taken"
              /\ elapsed[s] < Deadline =>
                    /\ kind[s] = "none"
                    /\ result'[s] = "ok"
                    /\ \A i \in Since(s, began[s]) :
                          i <= left[s] => ~(Known(rows[i]) /\ rows[i].is = "taken")]_gotoVars
=============================================================================
