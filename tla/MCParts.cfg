SPECIFICATION Spec
CONSTANTS
  None = None
  Drivers = {t1, t2}
  Routes = {"r"}
  Positions = {p1}
  Persona = None
  MaxRoutes = 2
  MaxLate = 1
  Readers = {t1, t2}
  Contexts = {v1, v2}
  Handles = {1, 2}
  Visitors = {t1, t2}
  Pages = {u1}
  Widgets = {"checkbox"}
  Settle = 1
  ScoreWait = 1
  Deadline = 2
  MaxElapsed = 2
  MaxRows = 3
  Transfers = {t1, t2}
  Keys = {v1, v2}
  Names = {n1, n2}
  MaxEntries = 2
  Engines = {t1, t2}
  Verbs = {v1, v2}
  LaunchAttempts = 3
INVARIANTS TypesOK RoutesAgree PositionAgrees AnswerIsCurrent VerdictIsOfThisVisit
           EndsWithItsKind NoStrayProcess
PROPERTIES HandlesKeep ProbeNeverOverrulesEngine WaitFindsTheFile CloseFlushes
SYMMETRY Symmetry
