\* A verb, two `as` and a close at once.
SPECIFICATION TelemetrySpec
CONSTANTS
  Users = {u1}
  Adopters = {a1, a2}
  Closers = {c1}
  Engines = {e1, e2, e3, e4, e5}
  None = None
INVARIANTS
  OwnedIsRunning
  LaunchIntoEmpty
  TelemetryUnlessCrossed
PROPERTIES
  ImplementsEngineSlot
SYMMETRY Symmetry
