SPECIFICATION Spec
CONSTANTS
  Users = {u1}
  Adopters = {}
  Closers = {c1}
  Engines = {e1, e2, e3}
  None = None
INVARIANTS
  TelemetryIsLive
